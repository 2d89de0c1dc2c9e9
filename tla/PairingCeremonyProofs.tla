----------------------- MODULE PairingCeremonyProofs -----------------------
(***************************************************************************)
(* What two devices that pair may rely on, for all roles, mailboxes, pins, *)
(* bystanders and numbers of presses: words on a screen mean a live peer,  *)
(* the mailboxes cross, and a refusal stands.                              *)
(*                                                                         *)
(* The invariant follows a proof back. A code on a screen is its device's  *)
(* own, so a proof read is a bystander's or what a device has signed; and  *)
(* a device that has signed reads neither card nor nonce again, so what it *)
(* signed it still holds. A proof that fits this device's transcript then  *)
(* says what the peer holds now, and both have met, unless it is the proof *)
(* of one who holds up a screen and pairs under their own name. Everything *)
(* that matters, words, the comparison, a commit, follows such a proof and *)
(* nothing else. And a coordinate kept beside the peer's card is one that  *)
(* the peer signed, with no screen held up the one of this ceremony, so    *)
(* two that met link the same two mailboxes.                               *)
(***************************************************************************)
EXTENDS PairingCeremony, TLAPS
-----------------------------------------------------------------------------
Fields == {"phase", "step", "playlist", "expecting", "collected", "card", "nonce", "box",
           "pending", "proof", "proved", "words", "task", "commits", "screen"}

Shaped(w) == w = [f \in Fields |-> w[f]]

\* With no screen held up a coordinate comes with its signer's nonce.
Welded(d, w) ==
  /\ w.pending # NoLink =>
       w.pending.in = w.nonce /\ (w.nonce = Peer(d) => w.pending.out = inbox[Peer(d)])
  /\ w.card = Peer(d) /\ w.box # NoBox => w.box = inbox[Peer(d)]
  /\ w.nonce = Peer(d) /\ inbox[Peer(d)] # NoBox =>
       w.box = inbox[Peer(d)] \/ w.pending = [in |-> Peer(d), out |-> inbox[Peer(d)]]

\* What only one card and one coordinate, each read once, can leave in a session:
\* a coordinate is kept when the card that signed it is known, and then it is
\* one that card's owner signed.
Session(d, w) ==
  /\ w.card \in (Party \cup {Foul}) \ {d} /\ w.nonce \in Party \cup {Foul}
  /\ w.card # Foul => w.pending = NoLink
  /\ w.card = Foul => w.box = NoBox
  /\ w.pending # NoLink /\ w.pending.in = Peer(d) => w.pending.out \in Signed(Peer(d))
  /\ w.card = Peer(d) /\ w.box # NoBox => w.box \in Signed(Peer(d))
  /\ ~heldUp => Welded(d, w)

Blank(w) == w.card = Foul /\ w.nonce = Foul /\ w.box = NoBox /\ w.pending = NoLink

\* A card or a nonce is asked for only while there is none, and neither after
\* the device has signed.
Turns(d, w) ==
  /\ w.phase = "show" /\ role[d] = "show-first" => (w.step = 3 \/ (w.step = 1 /\ Blank(w)))
  /\ w.phase = "scan" /\ "card" \in w.expecting \ w.collected => w.card = Foul
  /\ w.phase = "scan" /\ "info" \in w.expecting \ w.collected =>
       w.nonce = Foul /\ w.box = NoBox /\ w.pending = NoLink
  /\ w.proved => /\ w.phase = "scan" => w.expecting \subseteq {"proof"}
                 /\ role[d] = "show-first" => w.step = 3
  /\ w.task = "prove" => role[d] = "scan-first"
  /\ w.phase = "refused" => w.playlist = {} /\ w.words = {}

\* It shows its own codes and what it has signed.
ShowsOwn(d, w) ==
  \A q \in w.playlist : q \in Own(d) \/ (w.proved /\ q = Proof(Transcript(d, w)))

\* No proof at all, or the bystander's.
Strange(proof) ==
  /\ proof.by \notin Device
  /\ proof.by # Other => proof.cards = {}
  /\ ~heldUp => proof.cards \in {{}, {Other, Foul}}

\* A proof read is what its signer signed, and what the signer holds still.
ProofIsReal(w) ==
  \/ Strange(w.proof)
  \/ \E e \in Device : dev[e].proved /\ w.proof = Transcript(e, dev[e])

\* Each has the other's card and nonce, and has signed them.
Half(d, w) == w.proved /\ w.card = Peer(d) /\ w.nonce = Peer(d)

Met(d, w) == Half(d, w) /\ Half(Peer(d), dev[Peer(d)])

\* Or it is one who holds up a screen that this device pairs with.
Facing(d, w) == Met(d, w) \/ (heldUp /\ w.proved /\ w.card = Other)

\* What only follows a proof that fits.
Trusting(d, w) ==
  \/ w.phase \in {"compare", "paired"} \/ w.words # {} \/ w.commits > 0
  \/ (role[d] = "show-first" /\ w.step = 3)

Whole(d, w) ==
  /\ Shaped(w) /\ Session(d, w) /\ Turns(d, w) /\ ShowsOwn(d, w) /\ ProofIsReal(w)
  /\ Trusting(d, w) => Facing(d, w)

\* The mailboxes of two that met.
Agreed(d) ==
  IF inbox[d] = NoBox \/ inbox[Peer(d)] = NoBox \/ inbox[d] = inbox[Peer(d)]
  THEN NoLink ELSE [in |-> inbox[d], out |-> inbox[Peer(d)]]

LinksAgree ==
  \A d \in Device :
    /\ link[d] # NoLink =>
         /\ link[d] = [in |-> inbox[d], out |-> link[d].out]
         /\ link[d].out \in Signed(Peer(d)) \ {inbox[d]}
    /\ ~heldUp =>
         /\ link[d] # NoLink => link[d] = Agreed(d)
         /\ dev[d].phase = "paired" => link[d] = Agreed(d)

CeremonyInv ==
  /\ DOMAIN dev = Device /\ DOMAIN pin = Device /\ link = [d \in Device |-> link[d]]
  /\ role \in [Device -> {"show-first", "scan-first"}]
  /\ \A d \in Device : Whole(d, dev[d])
  /\ LinksAgree

-----------------------------------------------------------------------------
(* The devices are two, each the other's peer.                              *)
LEMMA TwoDevices ==
  ASSUME NEW d \in Device
  PROVE  Peer(d) \in Device /\ Peer(d) # d /\ Device = {d, Peer(d)} /\ Peer(Peer(d)) = d
<1>1. \E e \in Device : e # d
  BY CeremonyAssumption
<1>2. Peer(d) \in Device /\ Peer(d) # d
  BY <1>1 DEF Peer
<1>3. Device = {d, Peer(d)}
  BY <1>2, CeremonyAssumption
<1>4. \A e \in Device : e # Peer(d) => e = d
  BY <1>3
<1>5. \E e \in Device : e # Peer(d)
  BY <1>2
<1>6. Peer(Peer(d)) \in Device /\ Peer(Peer(d)) # Peer(d)
  BY <1>5 DEF Peer
<1> QED
  BY <1>2, <1>3, <1>4, <1>6

(* A step of one device keeps every session whole, when what that device    *)
(* becomes is whole and keeps what it has signed.                           *)
Keeps(d, w) ==
  dev[d].proved => w.proved /\ w.card = dev[d].card /\ w.nonce = dev[d].nonce

Sound(d, w) ==
  /\ Shaped(w) /\ Session(d, w) /\ Turns(d, w) /\ ShowsOwn(d, w) /\ ProofIsReal(w)
  /\ Keeps(d, w)
  /\ Trusting(d, w) => Trusting(d, dev[d]) \/ Facing(d, w)

LEMMA OneSteps ==
  ASSUME CeremonyInv, NEW d \in Device, NEW w, Sound(d, w), Become(d, w),
         UNCHANGED <<heldUp, role, inbox>>
  PROVE  /\ DOMAIN dev' = Device
         /\ \A e \in Device : Whole(e, dev[e])'
<1> DEFINE p == Peer(d)
<1>0. p \in Device /\ p # d /\ Device = {d, p} /\ Peer(p) = d
  BY TwoDevices
<1> HIDE DEF p
<1>1. DOMAIN dev' = Device /\ dev'[d] = w /\ dev'[p] = dev[p]
  BY <1>0 DEF CeremonyInv, Become
<1>2. ASSUME NEW v, NEW e \in Device,
             Shaped(v), Session(e, v), Turns(e, v), ShowsOwn(e, v), dev'[e] = v
      PROVE  Shaped(dev[e])' /\ Session(e, dev[e])' /\ Turns(e, dev[e])' /\ ShowsOwn(e, dev[e])'
  BY <1>2 DEF Shaped, Session, Welded, Signed, Turns, ShowsOwn, Own, Blank
<1>3. ASSUME NEW v, ProofIsReal(v), NEW e \in Device, dev'[e] = v
      PROVE  ProofIsReal(dev[e])'
  <2>1. CASE Strange(v.proof)
    BY <2>1, <1>3 DEF ProofIsReal, Strange
  <2>2. ASSUME NEW f \in Device, dev[f].proved, v.proof = Transcript(f, dev[f])
        PROVE  ProofIsReal(dev[e])'
    <3>1. dev'[f].proved /\ Transcript(f, dev'[f]) = Transcript(f, dev[f])
      BY <2>2, <1>0, <1>1 DEF Sound, Keeps, Transcript
    <3> QED
      BY <3>1, <2>2, <1>3 DEF ProofIsReal, Transcript
  <2> QED
    BY <2>1, <2>2, <1>3 DEF ProofIsReal
<1>4. Half(d, dev[d]) => Half(d, w)
  BY DEF Half, Sound, Keeps
<1>5. Facing(d, dev[d]) => Facing(d, w)
  BY <1>4 DEF Facing, Met, Sound, Keeps
<1>6. Whole(d, dev[d])'
  <2>1. Trusting(d, w) => Facing(d, w)
    BY <1>5 DEF Sound, CeremonyInv, Whole
  <2>2. Trusting(d, dev[d])' => Trusting(d, w)
    BY <1>1 DEF Trusting
  <2>3. Facing(d, w) => Facing(d, dev[d])'
    BY <1>0, <1>1 DEF Facing, Met, Half, p
  <2> QED
    BY <2>1, <2>2, <2>3, <1>1, <1>2, <1>3 DEF Sound, Whole
<1>7. Whole(p, dev[p])'
  <2>1. Whole(p, dev[p])
    BY <1>0 DEF CeremonyInv
  <2>2. Trusting(p, dev[p])' => Trusting(p, dev[p])
    BY <1>1 DEF Trusting
  <2>3. Facing(p, dev[p]) => Facing(p, dev[p])'
    BY <1>0, <1>1, <1>4 DEF Facing, Met, Half
  <2> QED
    BY <2>1, <2>2, <2>3, <1>0, <1>1, <1>2, <1>3 DEF Whole
<1> QED
  BY <1>0, <1>1, <1>6, <1>7

(* What a camera can read is a card, somebody's coordinate or the           *)
(* bystander's, or what a device has signed.                                *)
Genuine(p) == \E e \in Device : dev[e].proved /\ p = Transcript(e, dev[e])

ReadCard(q) == \E x \in Party \cup {Foul} : q = Card(x)
ReadInfo(q) ==
  \E n \in Party, x \in Party \cup {Foul} : \E b :
    /\ q = Info(n, x, b)
    /\ x \in Device /\ b # NoBox => b \in Signed(x)
    /\ ~heldUp => x = n /\ (x \in Device => b = inbox[x])
ReadProof(q) == \E p : q = Proof(p) /\ (Strange(p) \/ Genuine(p))

LEMMA Read ==
  ASSUME CeremonyInv, NEW q \in Screens \cup Around
  PROVE  ReadCard(q) \/ ReadInfo(q) \/ ReadProof(q)
<1>0. Other \notin Device /\ Foul \notin Device /\ Foul # Other
  BY CeremonyAssumption
<1>1. CASE q \in NextTable
  <2>1. q = Card(Other) \/ q = Card(Foul) => ReadCard(q)
    BY DEF ReadCard, Party
  <2>2. ASSUME NEW b, q = Info(Other, Other, b)
        PROVE  ReadInfo(q)
    BY <1>0, <2>2 DEF ReadInfo, Party
  <2>3. ASSUME NEW p, q = Proof(p),
               p = [by |-> Other, cards |-> {Other, Foul}, nonces |-> {Other, Foul}]
        PROVE  ReadProof(q)
    BY <1>0, <2>3 DEF ReadProof, Strange
  <2> QED
    BY <1>1, <2>1, <2>2, <2>3 DEF NextTable
<1>3. CASE heldUp /\ q \in Recombined
  <2>0. Nonces \subseteq Party
    BY DEF Nonces, Shown, Party
  <2>1. ASSUME NEW x \in Party, q = Card(x)
        PROVE  ReadCard(q)
    BY <2>1 DEF ReadCard
  <2>2. ASSUME NEW n \in Nonces, q = Info(n, Other, NoBox)
        PROVE  ReadInfo(q)
    BY <1>0, <1>3, <2>0, <2>2 DEF ReadInfo, Party
  <2>3. ASSUME NEW n \in Nonces, NEW x \in Party \cup {Foul}, NEW b, q = Info(n, x, b),
               q.by \in Device => q.box \in Seen(q.by)
        PROVE  ReadInfo(q)
    <3>1. x \in Device => b \in Signed(x)
      BY <1>0, <2>3 DEF Signed, Seen, Info
    <3> QED
      BY <1>3, <2>0, <2>3, <3>1 DEF ReadInfo
  <2>4. ASSUME NEW e, NEW n, q = OwnProof(e, n)
        PROVE  ReadProof(q)
    <3> DEFINE p == [by |-> Other, cards |-> {Other, e}, nonces |-> {e, n}]
    <3>1. p.by = Other
      OBVIOUS
    <3> HIDE DEF p
    <3>2. Strange(p)
      BY <1>0, <1>3, <3>1 DEF Strange
    <3>3. q = Proof(p)
      BY <2>4 DEF p, OwnProof
    <3> QED
      BY <3>2, <3>3 DEF ReadProof
  <2>5. ASSUME NEW e \in Device, dev[e].proved, q = Proof(Transcript(e, dev[e]))
        PROVE  ReadProof(q)
    BY <2>5 DEF ReadProof, Genuine
  <2>6. CASE q \in { Card(x) : x \in Party }
    BY <2>1, <2>6
  <2>7. CASE q \in { Info(n, Other, NoBox) : n \in Nonces }
    BY <2>2, <2>7
  <2>8. CASE q \in { r \in { Info(n, x, b) : n \in Nonces, x \in Party \cup {Foul}, b \in Box } :
                     r.by \in Device => r.box \in Seen(r.by) }
    <3>1. PICK n \in Nonces, x \in Party \cup {Foul}, b \in Box : q = Info(n, x, b)
      BY <2>8
    <3>2. q.by \in Device => q.box \in Seen(q.by)
      BY <2>8
    <3> QED
      BY <2>3, <3>1, <3>2
  <2>9. CASE q \in { OwnProof(e, n) : e \in Shown, n \in Nonces }
    BY <2>4, <2>9
  <2>10. CASE q \in { Proof(Transcript(e, dev[e])) : e \in { e \in Device : dev[e].proved } }
    BY <2>5, <2>10
  <2> QED
    BY <1>3, <2>6, <2>7, <2>8, <2>9, <2>10 DEF Recombined
<1>2. CASE q \in Screens
  <2>1. PICK e \in Device : q \in dev[e].playlist
    BY <1>2 DEF Screens
  <2>2. q \in Own(e) \/ (dev[e].proved /\ q = Proof(Transcript(e, dev[e])))
    BY <2>1 DEF CeremonyInv, Whole, ShowsOwn
  <2>3. q = Card(e) => ReadCard(q)
    BY DEF ReadCard, Party
  <2>4. q = Info(e, e, inbox[e]) => ReadInfo(q)
    BY <1>0 DEF ReadInfo, Party, Signed
  <2>5. dev[e].proved /\ q = Proof(Transcript(e, dev[e])) => ReadProof(q)
    BY DEF ReadProof, Genuine
  <2> QED
    BY <2>2, <2>3, <2>4, <2>5 DEF Own
<1> QED
  BY <1>1, <1>2, <1>3 DEF Around

-----------------------------------------------------------------------------
(* What each step makes of a session.                                       *)

\* The pairing session, and what it has signed.
Pairing(w) == <<w.card, w.nonce, w.box, w.pending, w.proof, w.proved>>

(* When the pairing session is as it was, only the phase is left to say.    *)
LEMMA SamePairing ==
  ASSUME CeremonyInv, NEW d \in Device, NEW w, Shaped(w), Pairing(w) = Pairing(dev[d]),
         Turns(d, w), w.playlist \subseteq dev[d].playlist,
         Trusting(d, w) => Trusting(d, dev[d])
  PROVE  Sound(d, w)
<1>1. /\ w.card = dev[d].card /\ w.nonce = dev[d].nonce /\ w.box = dev[d].box
      /\ w.pending = dev[d].pending /\ w.proof = dev[d].proof /\ w.proved = dev[d].proved
  BY DEF Pairing
<1>2. Session(d, dev[d]) /\ ShowsOwn(d, dev[d]) /\ ProofIsReal(dev[d])
  BY DEF CeremonyInv, Whole
<1>3. Session(d, w)
  BY <1>1, <1>2 DEF Session, Welded
<1>4. ShowsOwn(d, w)
  BY <1>1, <1>2 DEF ShowsOwn, Transcript
<1>5. ProofIsReal(w)
  BY <1>1, <1>2 DEF ProofIsReal
<1>6. Keeps(d, w)
  BY <1>1 DEF Keeps
<1> QED
  BY <1>3, <1>4, <1>5, <1>6 DEF Sound

LEMMA HandsOff ==
  ASSUME CeremonyInv, NEW d \in Device, Up(d, "show")
  PROVE  Sound(d, IF role[d] = "scan-first" THEN ToScan(dev[d], 3, {"proof"})
                  ELSE IF dev[d].step = 1 THEN ToScan(dev[d], 2, {"card", "info", "proof"})
                  ELSE [dev[d] EXCEPT !.phase = "compare"])
<1> DEFINE w == dev[d]
<1>0. Shaped(w) /\ Turns(d, w) /\ w.phase = "show"
  BY DEF CeremonyInv, Whole, Up
<1> HIDE DEF w
<1>1. CASE role[d] = "scan-first"
  <2> DEFINE c == ToScan(w, 3, {"proof"})
  <2>1. /\ Shaped(c) /\ Pairing(c) = Pairing(w) /\ c.playlist = {} /\ c.phase = "scan"
        /\ c.expecting = {"proof"} /\ c.words = w.words /\ c.task = w.task
        /\ c.commits = w.commits
    BY <1>0 DEF Shaped, Fields, ToScan, Pairing
  <2> HIDE DEF c
  <2>2. Turns(d, c)
    BY <1>0, <1>1, <2>1 DEF Turns
  <2>3. Trusting(d, c) => Trusting(d, w)
    BY <1>1, <2>1 DEF Trusting
  <2>4. Sound(d, c)
    BY <2>1, <2>2, <2>3, SamePairing DEF w
  <2> QED
    BY <1>1, <2>4 DEF c, w
<1>2. CASE role[d] # "scan-first" /\ w.step = 1
  <2> DEFINE c == ToScan(w, 2, {"card", "info", "proof"})
  <2>1. /\ Shaped(c) /\ Pairing(c) = Pairing(w) /\ c.playlist = {} /\ c.phase = "scan"
        /\ c.step = 2 /\ c.words = w.words /\ c.task = w.task /\ c.commits = w.commits
    BY <1>0 DEF Shaped, Fields, ToScan, Pairing
  <2> HIDE DEF c
  <2>2. /\ c.card = w.card /\ c.nonce = w.nonce /\ c.box = w.box /\ c.pending = w.pending
        /\ c.proved = w.proved
    BY <2>1 DEF Pairing
  <2>3. role[d] = "show-first"
    BY <1>2 DEF CeremonyInv
  <2>4. Blank(w) /\ ~w.proved
    BY <1>0, <1>2, <2>3 DEF Turns
  <2>5. Turns(d, c)
    BY <1>0, <1>2, <2>1, <2>2, <2>4 DEF Turns, Blank
  <2>6. Trusting(d, c) => Trusting(d, w)
    BY <2>1 DEF Trusting
  <2>7. Sound(d, c)
    BY <2>1, <2>5, <2>6, SamePairing DEF w
  <2> QED
    BY <1>2, <2>7 DEF c, w
<1>3. CASE role[d] # "scan-first" /\ w.step # 1
  <2> DEFINE c == [w EXCEPT !.phase = "compare"]
  <2>1. /\ Shaped(c) /\ Pairing(c) = Pairing(w) /\ c.playlist = w.playlist
        /\ c.phase = "compare" /\ c.step = w.step /\ c.task = w.task /\ c.proved = w.proved
    BY <1>0 DEF Shaped, Fields, Pairing
  <2> HIDE DEF c
  <2>2. role[d] = "show-first" /\ w.step = 3
    BY <1>0, <1>3 DEF CeremonyInv, Turns
  <2>3. Turns(d, c)
    BY <1>0, <2>1, <2>2 DEF Turns
  <2>4. Trusting(d, w)
    BY <2>2 DEF Trusting
  <2>5. Sound(d, c)
    BY <2>1, <2>3, <2>4, SamePairing DEF w
  <2> QED
    BY <1>3, <2>5 DEF c, w
<1> QED
  BY <1>1, <1>2, <1>3 DEF w

(* A refusal takes the words and the codes away, and nothing else.          *)
LEMMA Refuses ==
  ASSUME CeremonyInv, NEW d \in Device, NEW w, Shaped(w), Pairing(w) = Pairing(dev[d]),
         w.step = dev[d].step, w.commits = dev[d].commits,
         w.task = dev[d].task \/ w.task = "none"
  PROVE  Sound(d, Refuse(w)) /\ Refuse(w).phase = "refused"
<1> DEFINE c == Refuse(w)
<1>1. /\ Shaped(c) /\ Pairing(c) = Pairing(dev[d]) /\ c.playlist = {} /\ c.words = {}
      /\ c.phase = "refused" /\ c.step = dev[d].step /\ c.commits = dev[d].commits
      /\ c.task = w.task /\ c.proved = dev[d].proved
  BY DEF Shaped, Fields, Refuse, Pairing
<1> HIDE DEF c
<1>2. Turns(d, dev[d])
  BY DEF CeremonyInv, Whole
<1>3. Turns(d, c)
  BY <1>1, <1>2 DEF Turns
<1>4. Trusting(d, c) => Trusting(d, dev[d])
  BY <1>1 DEF Trusting
<1>5. Sound(d, c)
  BY <1>1, <1>3, <1>4, SamePairing
<1> QED
  BY <1>1, <1>5 DEF c

-----------------------------------------------------------------------------
(* A camera's payload: the session it leaves, and the phase's bookkeeping.  *)

\* An expected payload of the phase, and not refused.
Offered(d, q) ==
  /\ dev[d].phase = "scan" /\ q.kind \in dev[d].expecting \ dev[d].collected
  /\ ~Refused(d, dev[d], q)

(* The session alone: a card, a coordinate or a proof, each read once.      *)
LEMMA CardKept ==
  ASSUME CeremonyInv, NEW d \in Device, NEW q, Offered(d, q), ReadCard(q)
  PROVE  LET k == Keep(dev[d], q)
         IN  /\ Shaped(k) /\ Session(d, k) /\ k.proof = dev[d].proof /\ ~dev[d].proved
             /\ (k.nonce = dev[d].nonce)
             /\ (dev[d].pending = NoLink => k.box = dev[d].box /\ k.pending = NoLink)
<1> DEFINE w == dev[d]
<1>1. Shaped(w) /\ Session(d, w) /\ Turns(d, w)
  BY DEF CeremonyInv, Whole
<1>2. PICK x \in Party \cup {Foul} : q = Card(x)
  BY DEF ReadCard
<1>3. q.kind = "card" /\ q.of = x
  BY <1>2 DEF Card
<1>4. w.card = Foul /\ ~w.proved /\ w.box = NoBox /\ w.phase = "scan"
  BY <1>1, <1>3 DEF Offered, Turns, Session
<1>5. x # Foul /\ x # d /\ Settled([w EXCEPT !.card = x])
  BY <1>3 DEF Offered, Refused
<1> HIDE DEF w
<1> DEFINE c == [w EXCEPT !.card = x]
<1>6. /\ Shaped(c) /\ c.card = x /\ c.nonce = w.nonce /\ c.box = NoBox
      /\ c.pending = w.pending /\ c.proof = w.proof
  BY <1>1, <1>4 DEF Shaped, Fields
<1>7. Keep(w, q) = Settle(c)
  BY <1>3 DEF Keep
<1>8. Settled(c)
  BY <1>5
<1> HIDE DEF c
<1>9. CASE w.pending = NoLink
  <2>1. Keep(w, q) = c
    BY <1>6, <1>7, <1>9 DEF Settle
  <2>2. Session(d, c)
    BY <1>1, <1>2, <1>4, <1>5, <1>6, <1>9 DEF Session, Welded, NoLink
  <2> QED
    BY <1>4, <1>6, <1>9, <2>1, <2>2 DEF w
<1>10. CASE w.pending # NoLink
  <2> DEFINE k == [c EXCEPT !.box = c.pending.out, !.pending = NoLink]
  <2>1. Keep(w, q) = k
    BY <1>5, <1>6, <1>7, <1>10 DEF Settle
  <2>2. /\ Shaped(k) /\ k.card = x /\ k.nonce = w.nonce /\ k.box = w.pending.out
        /\ k.pending = NoLink /\ k.proof = w.proof
    BY <1>6 DEF Shaped, Fields
  <2> HIDE DEF k
  <2>3. w.pending.in = x
    BY <1>5, <1>6, <1>8, <1>10 DEF Settled
  <2>4. x = Peer(d) => w.pending.out \in Signed(Peer(d))
    BY <1>1, <1>10, <2>3 DEF Session
  <2>5. ASSUME ~heldUp
        PROVE  Welded(d, k)
    BY <1>1, <1>10, <2>2, <2>3, <2>5 DEF Session, Welded, NoLink
  <2>6. Session(d, k)
    BY <1>1, <1>2, <1>5, <2>2, <2>4, <2>5 DEF Session, NoLink
  <2> QED
    BY <1>4, <1>10, <2>1, <2>2, <2>6 DEF w
<1> QED
  BY <1>9, <1>10

LEMMA InfoKept ==
  ASSUME CeremonyInv, NEW d \in Device, NEW q, Offered(d, q), ReadInfo(q)
  PROVE  LET k == Keep(dev[d], q)
         IN  /\ Shaped(k) /\ Session(d, k) /\ k.proof = dev[d].proof /\ ~dev[d].proved
             /\ k.card = dev[d].card
<1> DEFINE w == dev[d]
<1>1. Shaped(w) /\ Session(d, w) /\ Turns(d, w)
  BY DEF CeremonyInv, Whole
<1>2. PICK n \in Party, x \in Party \cup {Foul} : \E b :
        /\ q = Info(n, x, b)
        /\ x \in Device /\ b # NoBox => b \in Signed(x)
        /\ ~heldUp => x = n /\ (x \in Device => b = inbox[x])
  BY DEF ReadInfo
<1>21. PICK b :
        /\ q = Info(n, x, b)
        /\ x \in Device /\ b # NoBox => b \in Signed(x)
        /\ ~heldUp => x = n /\ (x \in Device => b = inbox[x])
  BY <1>2
<1>3. q.kind = "info" /\ q.of = n /\ q.by = x /\ q.box = b
  BY <1>21 DEF Info
<1>4. /\ w.nonce = Foul /\ w.box = NoBox /\ w.pending = NoLink /\ ~w.proved
      /\ w.phase = "scan"
  BY <1>1, <1>3 DEF Offered, Turns
<1>5. b = NoBox \/ Settled([w EXCEPT !.pending = [in |-> x, out |-> b]])
  BY <1>3 DEF Offered, Refused
<1>6. /\ x = Peer(d) /\ b # NoBox => b \in Signed(Peer(d))
      /\ ~heldUp => x = n /\ (x = Peer(d) => b = inbox[Peer(d)])
  BY <1>21, TwoDevices
<1> HIDE DEF w
<1>7. CASE b = NoBox
  <2> DEFINE k == [w EXCEPT !.nonce = n, !.pending = NoLink]
  <2>1. Keep(w, q) = k
    BY <1>3, <1>7 DEF Keep
  <2>2. /\ Shaped(k) /\ k.card = w.card /\ k.nonce = n /\ k.box = NoBox
        /\ k.pending = NoLink /\ k.proof = w.proof
    BY <1>1, <1>4 DEF Shaped, Fields
  <2> HIDE DEF k
  <2>3. Session(d, k)
    BY <1>1, <1>2, <1>6, <1>7, <2>2 DEF Session, Welded
  <2> QED
    BY <1>4, <2>1, <2>2, <2>3 DEF w
<1>8. CASE b # NoBox
  <2> DEFINE l == [in |-> x, out |-> b]
             c == [w EXCEPT !.nonce = n, !.pending = l]
  <2>1. l.in = x /\ l.out = b /\ l # NoLink
    BY <1>8 DEF NoLink
  <2>2. Keep(w, q) = Settle(c)
    BY <1>3, <1>8 DEF Keep
  <2>3. /\ Shaped(c) /\ c.card = w.card /\ c.nonce = n /\ c.box = NoBox
        /\ c.pending = l /\ c.proof = w.proof
    BY <1>1, <1>4 DEF Shaped, Fields
  <2>4. w.card = Foul \/ x = w.card
    <3>1. Settled([w EXCEPT !.pending = l])
      BY <1>5, <1>8
    <3>2. [w EXCEPT !.pending = l].pending = l /\ [w EXCEPT !.pending = l].card = w.card
      BY <1>1 DEF Shaped, Fields
    <3> HIDE DEF l
    <3> QED
      BY <2>1, <3>1, <3>2 DEF Settled
  <2>5. ~heldUp /\ x = Peer(d) => l = [in |-> Peer(d), out |-> inbox[Peer(d)]]
    BY <1>6
  <2> HIDE DEF c, l
  <2>6. CASE w.card = Foul
    <3>1. Keep(w, q) = c
      BY <2>2, <2>3, <2>6 DEF Settle
    <3>2. Session(d, c)
      BY <1>1, <1>2, <1>6, <1>8, <2>1, <2>3, <2>5, <2>6 DEF Session, Welded
    <3> QED
      BY <1>4, <2>3, <3>1, <3>2 DEF w
  <2>7. CASE w.card # Foul
    <3> DEFINE k == [c EXCEPT !.box = c.pending.out, !.pending = NoLink]
    <3>1. Keep(w, q) = k
      BY <2>1, <2>2, <2>3, <2>7 DEF Settle
    <3>2. /\ Shaped(k) /\ k.card = w.card /\ k.nonce = n /\ k.box = b
          /\ k.pending = NoLink /\ k.proof = w.proof
      BY <2>1, <2>3 DEF Shaped, Fields
    <3> HIDE DEF k
    <3>3. Session(d, k)
      BY <1>1, <1>2, <1>6, <1>8, <2>4, <2>7, <3>2 DEF Session, Welded
    <3> QED
      BY <1>4, <3>1, <3>2, <3>3 DEF w
  <2> QED
    BY <2>6, <2>7
<1> QED
  BY <1>7, <1>8

LEMMA ProofKept ==
  ASSUME CeremonyInv, NEW d \in Device, NEW q, ReadProof(q)
  PROVE  LET k == Keep(dev[d], q)
         IN  /\ Shaped(k) /\ Session(d, k) /\ ProofIsReal(k)
             /\ k.card = dev[d].card /\ k.nonce = dev[d].nonce
             /\ k.box = dev[d].box /\ k.pending = dev[d].pending
<1> DEFINE w == dev[d]
<1>1. Shaped(w) /\ Session(d, w)
  BY DEF CeremonyInv, Whole
<1>2. PICK p : q = Proof(p) /\ (Strange(p) \/ Genuine(p))
  BY DEF ReadProof
<1>3. q.kind = "proof" /\ q.proof = p
  BY <1>2 DEF Proof
<1> HIDE DEF w
<1> DEFINE k == [w EXCEPT !.proof = p]
<1>4. Keep(w, q) = k
  BY <1>3 DEF Keep
<1>5. /\ Shaped(k) /\ k.card = w.card /\ k.nonce = w.nonce /\ k.box = w.box
      /\ k.pending = w.pending /\ k.proof = p
  BY <1>1 DEF Shaped, Fields
<1> HIDE DEF k
<1>6. Session(d, k)
  BY <1>1, <1>5 DEF Session, Welded
<1>7. ProofIsReal(k)
  BY <1>2, <1>5 DEF ProofIsReal, Genuine
<1> QED
  BY <1>4, <1>5, <1>6, <1>7 DEF w

(* Keeping a payload leaves the phase and what was signed alone.            *)
Phase(w) ==
  <<w.phase, w.step, w.playlist, w.expecting, w.collected, w.proved, w.words, w.task,
    w.commits, w.screen>>

LEMMA SettlesOnly ==
  ASSUME NEW w, Shaped(w)
  PROVE  Phase(Settle(w)) = Phase(w)
<1> DEFINE k == [w EXCEPT !.box = w.pending.out, !.pending = NoLink]
<1>1. Phase(k) = Phase(w)
  BY DEF Shaped, Fields, Phase
<1> HIDE DEF k
<1> QED
  BY <1>1 DEF Settle, k

LEMMA KeepsOnly ==
  ASSUME NEW w, NEW q, Shaped(w)
  PROVE  Phase(Keep(w, q)) = Phase(w)
<1> DEFINE c1 == [w EXCEPT !.card = q.of]
           c2 == [w EXCEPT !.proof = q.proof]
           c3 == [w EXCEPT !.nonce = q.of, !.pending = NoLink]
           c4 == [w EXCEPT !.nonce = q.of, !.pending = [in |-> q.by, out |-> q.box]]
<1>1. Shaped(c1) /\ Phase(c1) = Phase(w)
  BY DEF Shaped, Fields, Phase
<1>2. Phase(c2) = Phase(w)
  BY DEF Shaped, Fields, Phase
<1>3. Phase(c3) = Phase(w)
  BY DEF Shaped, Fields, Phase
<1>4. Shaped(c4) /\ Phase(c4) = Phase(w)
  BY DEF Shaped, Fields, Phase
<1>5. Keep(w, q) \in {Settle(c1), c2, c3, Settle(c4)}
  BY DEF Keep
<1> HIDE DEF c1, c2, c3, c4
<1> QED
  BY <1>1, <1>2, <1>3, <1>4, <1>5, SettlesOnly

(* What a device becomes by a payload it keeps.                             *)
Collected(d, q) == [Keep(dev[d], q) EXCEPT !.collected = @ \cup {q.kind}]

Tasked(v, t) == [v EXCEPT !.task = t]

LEMMA Collects ==
  ASSUME CeremonyInv, NEW d \in Device, NEW q, Offered(d, q),
         ReadCard(q) \/ ReadInfo(q) \/ ReadProof(q), NEW t,
         t = "prove" => role[d] = "scan-first",
         NEW u, u = Collected(d, q) \/ u = Tasked(Collected(d, q), t)
  PROVE  Sound(d, u) /\ u.phase = "scan"
<1> DEFINE w == dev[d]
           k == Keep(w, q)
           v == Collected(d, q)
<1>1. Shaped(w) /\ Session(d, w) /\ Turns(d, w) /\ ShowsOwn(d, w) /\ ProofIsReal(w)
  BY DEF CeremonyInv, Whole
<1>2. w.phase = "scan" /\ q.kind \in w.expecting \ w.collected
  BY DEF Offered
<1>3. Phase(k) = Phase(w)
  BY <1>1, KeepsOnly
<1>4. /\ Shaped(k) /\ Session(d, k) /\ ProofIsReal(k)
      /\ w.proved => k.card = w.card /\ k.nonce = w.nonce
      /\ "card" \in w.expecting \ (w.collected \cup {q.kind}) => k.card = Foul
      /\ "info" \in w.expecting \ (w.collected \cup {q.kind}) =>
           k.nonce = Foul /\ k.box = NoBox /\ k.pending = NoLink
  <2>1. CASE ReadCard(q)
    <3>1. q.kind = "card"
      BY <2>1 DEF ReadCard, Card
    <3>2. /\ Shaped(k) /\ Session(d, k) /\ k.proof = w.proof /\ ~w.proved
          /\ k.nonce = w.nonce
          /\ (w.pending = NoLink => k.box = w.box /\ k.pending = NoLink)
      BY <2>1, CardKept
    <3> HIDE DEF w, k
    <3> QED
      BY <1>1, <1>2, <3>1, <3>2 DEF Turns, ProofIsReal
  <2>2. CASE ReadInfo(q)
    <3>1. q.kind = "info"
      BY <2>2 DEF ReadInfo, Info
    <3>2. /\ Shaped(k) /\ Session(d, k) /\ k.proof = w.proof /\ ~w.proved
          /\ k.card = w.card
      BY <2>2, InfoKept
    <3> HIDE DEF w, k
    <3> QED
      BY <1>1, <1>2, <3>1, <3>2 DEF Turns, ProofIsReal
  <2>3. CASE ReadProof(q)
    <3>1. q.kind = "proof"
      BY <2>3 DEF ReadProof, Proof
    <3>2. /\ Shaped(k) /\ Session(d, k) /\ ProofIsReal(k)
          /\ k.card = w.card /\ k.nonce = w.nonce /\ k.box = w.box /\ k.pending = w.pending
      BY <2>3, ProofKept
    <3> HIDE DEF w, k
    <3> QED
      BY <1>1, <1>2, <3>1, <3>2 DEF Turns
  <2> QED
    BY <2>1, <2>2, <2>3
<1> HIDE DEF w, k, v
<1>5. /\ k.phase = w.phase /\ k.step = w.step /\ k.playlist = w.playlist
      /\ k.expecting = w.expecting /\ k.collected = w.collected /\ k.proved = w.proved
      /\ k.words = w.words /\ k.task = w.task /\ k.commits = w.commits
  BY <1>3 DEF Phase
<1>6. /\ Shaped(v) /\ v.phase = w.phase /\ v.step = w.step /\ v.playlist = w.playlist
      /\ v.expecting = w.expecting /\ v.collected = w.collected \cup {q.kind}
      /\ v.proved = w.proved /\ v.words = w.words /\ v.task = w.task /\ v.commits = w.commits
      /\ v.card = k.card /\ v.nonce = k.nonce /\ v.box = k.box /\ v.pending = k.pending
      /\ v.proof = k.proof
  <2>1. v = [k EXCEPT !.collected = k.collected \cup {q.kind}]
    BY DEF w, k, v, Collected
  <2> QED
    BY <1>4, <1>5, <2>1 DEF Shaped, Fields
<1>7. /\ Shaped(u) /\ u.phase = w.phase /\ u.step = w.step /\ u.playlist = w.playlist
      /\ u.expecting = w.expecting /\ u.collected = w.collected \cup {q.kind}
      /\ u.proved = w.proved /\ u.words = w.words /\ u.task \in {w.task, t}
      /\ u.commits = w.commits
      /\ u.card = k.card /\ u.nonce = k.nonce /\ u.box = k.box /\ u.pending = k.pending
      /\ u.proof = k.proof
  <2>1. u = v \/ u = Tasked(v, t)
    BY DEF v
  <2> QED
    BY <1>6, <2>1 DEF Shaped, Fields, Tasked
<1>8. Session(d, u)
  BY <1>4, <1>7 DEF Session, Welded
<1>9. Turns(d, u)
  BY <1>1, <1>2, <1>4, <1>7 DEF Turns
<1>10. ShowsOwn(d, u)
  BY <1>1, <1>4, <1>7 DEF ShowsOwn, Transcript
<1>11. ProofIsReal(u)
  BY <1>4, <1>7 DEF ProofIsReal
<1>12. Keeps(d, u)
  BY <1>4, <1>7 DEF Keeps, w
<1>13. Trusting(d, u) => Trusting(d, w)
  BY <1>7 DEF Trusting
<1> QED
  BY <1>2, <1>7, <1>8, <1>9, <1>10, <1>11, <1>12, <1>13 DEF Sound, w

-----------------------------------------------------------------------------
(* Every step of a device but the one that pairs it.                        *)
Steps(d) ==
  \E u : Become(d, u) /\ Sound(d, u) /\ (u.phase = "paired" => dev[d].phase = "paired")

LEMMA HandOffSteps ==
  ASSUME CeremonyInv, NEW d \in Device, HandOff(d)
  PROVE  Steps(d)
<1> DEFINE u == IF role[d] = "scan-first" THEN ToScan(dev[d], 3, {"proof"})
                ELSE IF dev[d].step = 1 THEN ToScan(dev[d], 2, {"card", "info", "proof"})
                ELSE [dev[d] EXCEPT !.phase = "compare"]
<1>1. Up(d, "show") /\ Become(d, u)
  BY DEF HandOff
<1>2. Sound(d, u)
  BY <1>1, HandsOff
<1>3. Shaped(dev[d])
  BY DEF CeremonyInv, Whole
<1>4. u.phase \in {"scan", "compare"}
  <2> DEFINE w == dev[d]
  <2> HIDE DEF w
  <2>1. /\ ToScan(w, 3, {"proof"}).phase = "scan"
        /\ ToScan(w, 2, {"card", "info", "proof"}).phase = "scan"
        /\ [w EXCEPT !.phase = "compare"].phase = "compare"
    BY <1>3 DEF w, Shaped, Fields, ToScan
  <2> QED
    BY <2>1 DEF w
<1> HIDE DEF u
<1> QED
  BY <1>1, <1>2, <1>4 DEF Steps

LEMMA RefuseSteps ==
  ASSUME CeremonyInv, NEW d \in Device, Become(d, Refuse(dev[d]))
  PROVE  Steps(d)
<1>1. Shaped(dev[d])
  BY DEF CeremonyInv, Whole
<1>2. Sound(d, Refuse(dev[d])) /\ Refuse(dev[d]).phase = "refused"
  BY <1>1, Refuses
<1> QED
  BY <1>2 DEF Steps

LEMMA OfferSteps ==
  ASSUME CeremonyInv, NEW d \in Device, NEW q \in Screens \cup Around, Offer(d, q)
  PROVE  Steps(d)
<1> DEFINE w == dev[d]
           v == Collected(d, q)
           t == Task(d, w)
           u == IF Complete(w, q.kind) THEN Tasked(v, t) ELSE v
<1>1. /\ w.phase = "scan" /\ q.kind \in w.expecting \ w.collected
      /\ Become(d, IF Refused(d, w, q) THEN Refuse(w) ELSE u)
  BY DEF Offer, Up, Collected, Tasked
<1>2. CASE Refused(d, w, q)
  BY <1>1, <1>2, RefuseSteps
<1>3. CASE ~Refused(d, w, q)
  <2>1. Offered(d, q) /\ (ReadCard(q) \/ ReadInfo(q) \/ ReadProof(q))
    BY <1>1, <1>3, Read DEF Offered
  <2>2. t = "prove" => role[d] = "scan-first"
    BY DEF Task
  <2>3. u = v \/ u = Tasked(v, t)
    OBVIOUS
  <2> HIDE DEF t, u
  <2>4. Sound(d, u) /\ u.phase = "scan"
    BY <2>1, <2>2, <2>3, Collects
  <2> QED
    BY <1>1, <1>3, <2>4 DEF Steps
<1> QED
  BY <1>2, <1>3

LEMMA ProveSteps ==
  ASSUME CeremonyInv, NEW d \in Device, Prove(d)
  PROVE  Steps(d)
<1> DEFINE w == dev[d]
           p == Proof(Transcript(d, w))
           own == Own(d) \cup {p}
           b == [w EXCEPT !.task = "none", !.proved = TRUE, !.screen = "ceremony"]
           u == ToShow(b, 2, own)
<1>1. w.task = "prove" /\ Become(d, u)
  BY DEF Prove
<1>2. Shaped(w) /\ Session(d, w) /\ Turns(d, w) /\ ProofIsReal(w)
  BY DEF CeremonyInv, Whole
<1>3. role[d] = "scan-first"
  BY <1>1, <1>2 DEF Turns
<1>4. \A q \in own : q \in Own(d) \/ q = Proof(Transcript(d, w))
  OBVIOUS
<1> HIDE DEF w, own, p
<1>5. /\ Shaped(b) /\ b.card = w.card /\ b.nonce = w.nonce /\ b.box = w.box
      /\ b.pending = w.pending /\ b.proof = w.proof /\ b.proved = TRUE
      /\ b.task = "none" /\ b.words = w.words /\ b.commits = w.commits
  BY <1>2 DEF Shaped, Fields
<1> HIDE DEF b
<1>6. /\ Shaped(u) /\ u.card = w.card /\ u.nonce = w.nonce /\ u.box = w.box
      /\ u.pending = w.pending /\ u.proof = w.proof /\ u.proved = TRUE
      /\ u.task = "none" /\ u.words = w.words /\ u.commits = w.commits
      /\ u.phase = "show" /\ u.playlist = own
  BY <1>5 DEF Shaped, Fields, ToShow
<1> HIDE DEF u
<1>7. Session(d, u)
  BY <1>2, <1>6 DEF Session, Welded
<1>8. Turns(d, u)
  BY <1>3, <1>6 DEF Turns
<1>9. ShowsOwn(d, u)
  BY <1>4, <1>6 DEF ShowsOwn, Transcript
<1>10. ProofIsReal(u)
  BY <1>2, <1>6 DEF ProofIsReal
<1>11. Keeps(d, u)
  BY <1>6 DEF Keeps, w
<1>12. Trusting(d, u) => Trusting(d, w)
  BY <1>3, <1>6 DEF Trusting
<1>13. Sound(d, u)
  BY <1>6, <1>7, <1>8, <1>9, <1>10, <1>11, <1>12 DEF Sound, w
<1> QED
  BY <1>1, <1>6, <1>13 DEF Steps

(* A proof that fits is the peer's, made of this device's card and nonce, or*)
(* one made under its own name by who holds up a screen.                    *)
LEMMA FittingProof ==
  ASSUME CeremonyInv, NEW d \in Device, NEW w, Session(d, w), ProofIsReal(w),
         Verified(d, w)
  PROVE  \/ w.card = Peer(d) /\ w.nonce = Peer(d) /\ Half(Peer(d), dev[Peer(d)])
         \/ heldUp /\ w.card = Other
<1> DEFINE p == Peer(d)
<1>0. p \in Device /\ p # d /\ Device = {d, p} /\ Peer(p) = d
  BY TwoDevices
<1> HIDE DEF p
<1>1. /\ w.proof.by = w.card /\ w.proof.cards = {d, w.card}
      /\ w.proof.nonces = {d, w.nonce}
  BY DEF Verified
<1>2. Other \notin Device /\ Foul \notin Device
  BY CeremonyAssumption
<1>3. Strange(w.proof) => heldUp /\ w.card = Other
  BY <1>1, <1>2 DEF Strange
<1> SUFFICES ASSUME ~Strange(w.proof)
             PROVE  p = w.card /\ w.nonce = p /\ Half(p, dev[p])
  BY <1>3 DEF p
<1>4. PICK e \in Device : dev[e].proved /\ w.proof = Transcript(e, dev[e])
  BY DEF ProofIsReal
<1>5. /\ w.proof.by = e /\ w.proof.cards = {e, dev[e].card}
      /\ w.proof.nonces = {e, dev[e].nonce}
  BY <1>4 DEF Transcript
<1>6. e = p
  BY <1>0, <1>1, <1>5 DEF Session
<1>7. w.card = p /\ {d, p} = {p, dev[p].card} /\ {d, w.nonce} = {p, dev[p].nonce}
  BY <1>1, <1>5, <1>6
<1>8. dev[p].card = d /\ w.nonce = p /\ dev[p].nonce = d
  BY <1>0, <1>7
<1> QED
  BY <1>0, <1>4, <1>6, <1>7, <1>8 DEF Half, p

LEMMA FinalizeSteps ==
  ASSUME CeremonyInv, NEW d \in Device, Finalize(d)
  PROVE  Steps(d)
<1> DEFINE w == [dev[d] EXCEPT !.task = "none", !.screen = "ceremony"]
           v == [w EXCEPT !.words = {d, w.card}, !.proved = TRUE]
           own == {Proof(Transcript(d, v))}
           u == IF role[d] = "show-first" THEN ToShow(v, 3, own)
                ELSE [v EXCEPT !.phase = "compare"]
<1>1. Become(d, IF ~Verified(d, w) THEN Refuse(w) ELSE u)
  BY DEF Finalize
<1>2. /\ Shaped(dev[d]) /\ Session(d, dev[d]) /\ Turns(d, dev[d])
      /\ ShowsOwn(d, dev[d]) /\ ProofIsReal(dev[d])
  BY DEF CeremonyInv, Whole
<1>3. /\ Shaped(w) /\ Pairing(w) = Pairing(dev[d]) /\ w.task = "none"
      /\ w.step = dev[d].step /\ w.commits = dev[d].commits
      /\ w.phase = dev[d].phase /\ w.playlist = dev[d].playlist
  BY <1>2 DEF Shaped, Fields, Pairing
<1> HIDE DEF w
<1>4. CASE ~Verified(d, w)
  BY <1>1, <1>3, <1>4, Refuses DEF Steps
<1>5. CASE Verified(d, w)
  <2>1. /\ w.card = dev[d].card /\ w.nonce = dev[d].nonce /\ w.box = dev[d].box
        /\ w.pending = dev[d].pending /\ w.proof = dev[d].proof
    BY <1>3 DEF Pairing
  <2>2. Session(d, w) /\ ProofIsReal(w)
    BY <1>2, <2>1 DEF Session, Welded, ProofIsReal
  <2>3. \/ w.card = Peer(d) /\ w.nonce = Peer(d) /\ Half(Peer(d), dev[Peer(d)])
        \/ heldUp /\ w.card = Other
    BY <1>5, <2>2, FittingProof
  <2>4. /\ Shaped(v) /\ v.card = w.card /\ v.nonce = w.nonce /\ v.box = w.box
        /\ v.pending = w.pending /\ v.proof = w.proof /\ v.proved = TRUE /\ v.task = "none"
        /\ v.playlist = w.playlist
    BY <1>3 DEF Shaped, Fields
  <2> DEFINE p == Proof(Transcript(d, v))
  <2>5. p = Proof(Transcript(d, w)) /\ own = {p}
    BY <2>4 DEF Transcript
  <2> HIDE DEF v, own, p
  <2>6. /\ Shaped(u) /\ u.card = w.card /\ u.nonce = w.nonce /\ u.box = w.box
        /\ u.pending = w.pending /\ u.proof = w.proof /\ u.proved = TRUE /\ u.task = "none"
    BY <2>4 DEF Shaped, Fields, ToShow
  <2>7. /\ role[d] = "show-first" => u.phase = "show" /\ u.step = 3 /\ u.playlist = own
        /\ role[d] # "show-first" => u.phase = "compare" /\ u.playlist = w.playlist
    BY <2>4 DEF Shaped, Fields, ToShow
  <2> HIDE DEF u
  <2>8. Session(d, u)
    BY <2>2, <2>6 DEF Session, Welded
  <2>9. Turns(d, u)
    BY <2>6, <2>7 DEF Turns
  <2>10. ShowsOwn(d, u)
    <3>1. \A q \in w.playlist : q \in Own(d) \/ q = Proof(Transcript(d, u))
      BY <1>2, <1>3, <2>1, <2>6 DEF ShowsOwn, Transcript
    <3>2. p = Proof(Transcript(d, u))
      BY <2>5, <2>6 DEF Transcript
    <3> QED
      BY <2>5, <2>6, <2>7, <3>1, <3>2 DEF ShowsOwn
  <2>11. ProofIsReal(u)
    BY <2>2, <2>6 DEF ProofIsReal
  <2>12. Keeps(d, u)
    BY <2>1, <2>6 DEF Keeps
  <2>13. Facing(d, u)
    BY <2>3, <2>6 DEF Facing, Met, Half
  <2>14. Sound(d, u)
    BY <2>6, <2>8, <2>9, <2>10, <2>11, <2>12, <2>13 DEF Sound
  <2> QED
    BY <1>1, <1>5, <2>7, <2>14 DEF Steps
<1> QED
  BY <1>4, <1>5

(* A step that changes neither the session nor the phase.                   *)
LEMMA StayingSteps ==
  ASSUME CeremonyInv, NEW d \in Device, NEW u, Become(d, u), Shaped(u),
         Pairing(u) = Pairing(dev[d]),
         /\ u.phase = dev[d].phase /\ u.step = dev[d].step /\ u.playlist = dev[d].playlist
         /\ u.expecting = dev[d].expecting /\ u.collected = dev[d].collected
         /\ u.words = dev[d].words,
         u.task = dev[d].task \/ u.task = "none",
         u.commits > 0 => Trusting(d, dev[d])
  PROVE  Steps(d)
<1>1. Turns(d, dev[d])
  BY DEF CeremonyInv, Whole
<1>2. /\ u.card = dev[d].card /\ u.nonce = dev[d].nonce /\ u.box = dev[d].box
      /\ u.pending = dev[d].pending /\ u.proved = dev[d].proved
  BY DEF Pairing
<1>3. Turns(d, u)
  BY <1>1, <1>2 DEF Turns, Blank
<1>4. Trusting(d, u) => Trusting(d, dev[d])
  BY DEF Trusting
<1>5. Sound(d, u)
  BY <1>3, <1>4, SamePairing
<1> QED
  BY <1>5 DEF Steps

LEMMA KeysThrowSteps ==
  ASSUME CeremonyInv, NEW d \in Device, KeysThrow(d)
  PROVE  Steps(d)
<1> DEFINE u == [dev[d] EXCEPT !.task = "none"]
<1>1. Shaped(dev[d])
  BY DEF CeremonyInv, Whole
<1>2. /\ Shaped(u) /\ Pairing(u) = Pairing(dev[d])
      /\ u.phase = dev[d].phase /\ u.step = dev[d].step /\ u.playlist = dev[d].playlist
      /\ u.expecting = dev[d].expecting /\ u.collected = dev[d].collected
      /\ u.words = dev[d].words /\ u.task = "none" /\ u.commits = dev[d].commits
  BY <1>1 DEF Shaped, Fields, Pairing
<1>3. Become(d, u)
  BY DEF KeysThrow
<1> HIDE DEF u
<1> QED
  BY <1>2, <1>3, StayingSteps DEF Trusting

LEMMA LockSteps ==
  ASSUME CeremonyInv, NEW d \in Device, Lock(d)
  PROVE  Steps(d)
<1> DEFINE u == [dev[d] EXCEPT !.screen = "locked"]
<1>1. Shaped(dev[d])
  BY DEF CeremonyInv, Whole
<1>2. /\ Shaped(u) /\ Pairing(u) = Pairing(dev[d])
      /\ u.phase = dev[d].phase /\ u.step = dev[d].step /\ u.playlist = dev[d].playlist
      /\ u.expecting = dev[d].expecting /\ u.collected = dev[d].collected
      /\ u.words = dev[d].words /\ u.task = dev[d].task /\ u.commits = dev[d].commits
  BY <1>1 DEF Shaped, Fields, Pairing
<1>3. Become(d, u)
  BY DEF Lock
<1> HIDE DEF u
<1> QED
  BY <1>2, <1>3, StayingSteps DEF Trusting

LEMMA ConfirmSteps ==
  ASSUME CeremonyInv, NEW d \in Device, ConfirmMatch(d)
  PROVE  Steps(d)
<1> DEFINE u == [dev[d] EXCEPT !.commits = @ + 1]
<1>1. Shaped(dev[d]) /\ dev[d].phase = "compare"
  BY DEF CeremonyInv, Whole, ConfirmMatch, Up
<1>2. /\ Shaped(u) /\ Pairing(u) = Pairing(dev[d])
      /\ u.phase = dev[d].phase /\ u.step = dev[d].step /\ u.playlist = dev[d].playlist
      /\ u.expecting = dev[d].expecting /\ u.collected = dev[d].collected
      /\ u.words = dev[d].words /\ u.task = dev[d].task
  BY <1>1 DEF Shaped, Fields, Pairing
<1>3. Become(d, Refuse(dev[d])) \/ Become(d, u)
  BY DEF ConfirmMatch
<1> HIDE DEF u
<1>4. Trusting(d, dev[d])
  BY <1>1 DEF Trusting
<1> QED
  BY <1>2, <1>3, <1>4, StayingSteps, RefuseSteps

LEMMA FailSteps ==
  ASSUME CeremonyInv, NEW d \in Device, CommitFails(d)
  PROVE  Steps(d)
<1> DEFINE w == [dev[d] EXCEPT !.commits = @ - 1]
           u == IF w.screen = "locked" THEN w ELSE [w EXCEPT !.screen = "failed"]
<1>1. Shaped(dev[d]) /\ dev[d].commits > 0 /\ Become(d, u)
  BY DEF CeremonyInv, Whole, CommitFails
<1>2. /\ Shaped(w) /\ Pairing(w) = Pairing(dev[d])
      /\ w.phase = dev[d].phase /\ w.step = dev[d].step /\ w.playlist = dev[d].playlist
      /\ w.expecting = dev[d].expecting /\ w.collected = dev[d].collected
      /\ w.words = dev[d].words /\ w.task = dev[d].task
  BY <1>1 DEF Shaped, Fields, Pairing
<1> HIDE DEF w
<1>3. /\ Shaped(u) /\ Pairing(u) = Pairing(dev[d])
      /\ u.phase = dev[d].phase /\ u.step = dev[d].step /\ u.playlist = dev[d].playlist
      /\ u.expecting = dev[d].expecting /\ u.collected = dev[d].collected
      /\ u.words = dev[d].words /\ u.task = dev[d].task
  BY <1>2 DEF Shaped, Fields, Pairing
<1> HIDE DEF u
<1>4. Trusting(d, dev[d])
  BY <1>1 DEF Trusting
<1> QED
  BY <1>1, <1>3, <1>4, StayingSteps

-----------------------------------------------------------------------------
(* The commit of a device that met its peer links the mailboxes of both.    *)
LEMMA LandsOK ==
  ASSUME CeremonyInv, NEW d \in Device, CommitLands(d)
  PROVE  CeremonyInv'
<1> DEFINE p == Peer(d)
           w == [dev[d] EXCEPT !.commits = @ - 1, !.phase = "paired"]
           u == IF w.screen = "locked" THEN w ELSE [w EXCEPT !.screen = "ceremony"]
<1>1. /\ dev[d].commits > 0 /\ Become(d, u) /\ heldUp' = heldUp /\ role' = role /\ inbox' = inbox
      /\ DOMAIN pin' = DOMAIN pin
      /\ link' = [link EXCEPT ![d] =
           IF w.card # p \/ MailboxPairing(d, w) = NoLink THEN @ ELSE MailboxPairing(d, w)]
  BY DEF CommitLands
<1>2. Shaped(dev[d]) /\ Session(d, dev[d]) /\ Turns(d, dev[d]) /\ Facing(d, dev[d])
  BY <1>1 DEF CeremonyInv, Whole, Trusting
<1>3. /\ Shaped(w) /\ Pairing(w) = Pairing(dev[d])
      /\ w.box = dev[d].box /\ w.card = dev[d].card
      /\ w.phase = "paired" /\ w.step = dev[d].step /\ w.playlist = dev[d].playlist
      /\ w.task = dev[d].task /\ w.words = dev[d].words
  BY <1>2 DEF Shaped, Fields, Pairing
<1>4. w.card = p /\ MailboxPairing(d, w) # NoLink =>
        /\ MailboxPairing(d, w) = [in |-> inbox[d], out |-> w.box]
        /\ w.box \in Signed(p) \ {inbox[d]}
  <2> HIDE DEF w
  <2> QED
    BY <1>2, <1>3 DEF MailboxPairing, Session
<1>41. ~heldUp => w.card = p /\ MailboxPairing(d, w) = Agreed(d)
  <2> SUFFICES ASSUME ~heldUp
               PROVE  w.card = p /\ MailboxPairing(d, w) = Agreed(d)
    OBVIOUS
  <2>0. p # Foul
    BY TwoDevices, CeremonyAssumption
  <2>1. dev[d].card = p /\ dev[d].nonce = p /\ dev[d].pending = NoLink
    BY <1>2, <2>0 DEF Facing, Met, Half, Session
  <2>2. inbox[p] # NoBox => dev[d].box = inbox[p]
    BY <1>2, <2>1 DEF Session, Welded, NoLink
  <2>3. dev[d].box = inbox[p]
    BY <1>2, <2>1, <2>2 DEF Session, Welded
  <2> HIDE DEF w
  <2> QED
    BY <1>3, <2>1, <2>3 DEF MailboxPairing, Agreed
<1> HIDE DEF w
<1>5. /\ Shaped(u) /\ Pairing(u) = Pairing(dev[d])
      /\ u.phase = "paired" /\ u.step = dev[d].step /\ u.playlist = dev[d].playlist
      /\ u.task = dev[d].task /\ u.proved = dev[d].proved
  BY <1>3 DEF Shaped, Fields, Pairing
<1> HIDE DEF u
<1>6. Turns(d, u)
  BY <1>2, <1>5 DEF Turns
<1>7. Trusting(d, dev[d])
  BY <1>1 DEF Trusting
<1>8. Sound(d, u)
  BY <1>5, <1>6, <1>7, SamePairing
<1>9. DOMAIN dev' = Device /\ \A e \in Device : Whole(e, dev[e])'
  BY <1>1, <1>8, OneSteps
<1>10. link' = [e \in Device |-> link'[e]]
  BY <1>1 DEF CeremonyInv
<1>11. LinksAgree'
  <2>1. \A e \in Device : Agreed(e)' = Agreed(e) /\ Signed(e)' = Signed(e)
    BY <1>1 DEF Agreed, Signed
  <2>2. \A e \in Device : e # d => link'[e] = link[e] /\ dev'[e] = dev[e]
    BY <1>1 DEF CeremonyInv, Become
  <2>3. \/ link'[d] = link[d]
        \/ w.card = p /\ MailboxPairing(d, w) # NoLink /\ link'[d] = MailboxPairing(d, w)
    BY <1>1 DEF CeremonyInv
  <2>4. link'[d] # NoLink =>
          /\ link'[d] = [in |-> inbox[d], out |-> link'[d].out]
          /\ link'[d].out \in Signed(p) \ {inbox[d]}
    BY <1>4, <2>3 DEF CeremonyInv, LinksAgree
  <2>5. ~heldUp => link'[d] = Agreed(d)
    BY <1>1, <1>41 DEF CeremonyInv, LinksAgree
  <2>6. p \in Device
    BY TwoDevices
  <2> QED
    BY <1>1, <2>1, <2>2, <2>4, <2>5, <2>6, TwoDevices DEF CeremonyInv, LinksAgree
<1> QED
  BY <1>1, <1>9, <1>10, <1>11 DEF CeremonyInv

LEMMA InitOK == Init => CeremonyInv
<1> SUFFICES ASSUME Init
             PROVE  CeremonyInv
  OBVIOUS
<1>1. ASSUME NEW d \in Device
      PROVE  Whole(d, dev[d])
  <2> DEFINE w == dev[d]
  <2>0. w = Begun(d, role[d])
    BY DEF Init
  <2>1. /\ Shaped(w) /\ w.card = Foul /\ w.nonce = Foul /\ w.box = NoBox
        /\ w.pending = NoLink /\ w.proof = NoProof /\ w.proved = FALSE /\ w.words = {}
        /\ w.task = "none" /\ w.commits = 0 /\ w.step = 1
        /\ w.playlist \subseteq Own(d) /\ w.phase \in {"show", "scan"}
    <3>1. Shaped(w)
      BY <2>0 DEF Begun, Shaped, Fields
    <3>2. w.playlist \subseteq Own(d) /\ w.phase \in {"show", "scan"}
      BY <2>0 DEF Begun
    <3>3. /\ w.card = Foul /\ w.nonce = Foul /\ w.box = NoBox
          /\ w.pending = NoLink /\ w.proof = NoProof /\ w.proved = FALSE /\ w.words = {}
          /\ w.task = "none" /\ w.commits = 0 /\ w.step = 1
      BY <2>0 DEF Begun
    <3> QED
      BY <3>1, <3>2, <3>3
  <2> HIDE DEF w
  <2>2. Peer(d) # Foul /\ d # Foul /\ Foul \notin Device
    BY TwoDevices, CeremonyAssumption
  <2>3. Session(d, w)
    BY <2>1, <2>2 DEF Session, Welded
  <2>4. Turns(d, w)
    BY <2>1 DEF Turns, Blank
  <2>5. ShowsOwn(d, w)
    BY <2>1 DEF ShowsOwn
  <2>6. ProofIsReal(w)
    BY <2>1, <2>2 DEF ProofIsReal, Strange, NoProof
  <2>7. ~Trusting(d, w)
    BY <2>1 DEF Trusting
  <2> QED
    BY <2>1, <2>3, <2>4, <2>5, <2>6, <2>7 DEF Whole, w
<1>2. LinksAgree
  <2>1. \A d \in Device : link[d] = NoLink /\ dev[d].phase # "paired"
    BY DEF Init, Begun
  <2> QED
    BY <2>1 DEF LinksAgree
<1> QED
  BY <1>1, <1>2 DEF Init, CeremonyInv

LEMMA StepOK == CeremonyInv /\ [Next]_vars => CeremonyInv'
<1> SUFFICES ASSUME CeremonyInv, [Next]_vars
             PROVE  CeremonyInv'
  OBVIOUS
<1>1. CASE UNCHANGED vars
  <2>1. UNCHANGED <<heldUp, role, inbox, pin, dev, link>>
    BY <1>1 DEF vars
  <2>2. ASSUME NEW d \in Device, Whole(d, dev[d])
        PROVE  Whole(d, dev[d])'
    <3>1. Shaped(dev[d])' /\ Session(d, dev[d])' /\ Turns(d, dev[d])' /\ ShowsOwn(d, dev[d])'
      BY <2>1, <2>2 DEF Whole, Shaped, Session, Welded, Signed, Turns, Blank, ShowsOwn, Own
    <3>2. ProofIsReal(dev[d])'
      BY <2>1, <2>2 DEF Whole, ProofIsReal, Strange
    <3>3. Trusting(d, dev[d])' => Facing(d, dev[d])'
      BY <2>1, <2>2 DEF Whole, Trusting, Facing, Met, Half
    <3> QED
      BY <3>1, <3>2, <3>3 DEF Whole
  <2>3. LinksAgree'
    BY <2>1 DEF CeremonyInv, LinksAgree, Agreed, Signed
  <2> QED
    BY <2>1, <2>2, <2>3 DEF CeremonyInv
<1>2. ASSUME NEW d \in Device, Steps(d), UNCHANGED <<heldUp, role, inbox, pin, link>>
      PROVE  CeremonyInv'
  <2>1. PICK u : /\ Become(d, u) /\ Sound(d, u)
                 /\ u.phase = "paired" => dev[d].phase = "paired"
    BY <1>2 DEF Steps
  <2>2. DOMAIN dev' = Device /\ \A e \in Device : Whole(e, dev[e])'
    BY <1>2, <2>1, OneSteps
  <2>3. \A e \in Device : dev'[e].phase = "paired" => dev[e].phase = "paired"
    BY <2>1 DEF CeremonyInv, Become
  <2>4. \A e \in Device : Agreed(e)' = Agreed(e) /\ Signed(e)' = Signed(e)
    BY <1>2 DEF Agreed, Signed
  <2>5. LinksAgree'
    BY <1>2, <2>3, <2>4, TwoDevices DEF CeremonyInv, LinksAgree
  <2> QED
    BY <1>2, <2>2, <2>5 DEF CeremonyInv
<1>3. ASSUME NEW d \in Device,
             \/ HandOff(d)
             \/ \E q \in Screens \cup Around : Offer(d, q)
             \/ Prove(d) \/ Finalize(d) \/ KeysThrow(d)
             \/ ConfirmMatch(d) \/ CommitLands(d) \/ CommitFails(d)
             \/ ConfirmMismatch(d) \/ Cancel(d)
             \/ Lock(d)
      PROVE  CeremonyInv'
  <2>1. CASE HandOff(d)
    BY <1>2, <2>1, HandOffSteps DEF HandOff
  <2>2. ASSUME NEW q \in Screens \cup Around, Offer(d, q)
        PROVE  CeremonyInv'
    BY <1>2, <2>2, OfferSteps DEF Offer
  <2>3. CASE Prove(d)
    BY <1>2, <2>3, ProveSteps DEF Prove
  <2>4. CASE Finalize(d)
    BY <1>2, <2>4, FinalizeSteps DEF Finalize
  <2>5. CASE KeysThrow(d)
    BY <1>2, <2>5, KeysThrowSteps DEF KeysThrow
  <2>6. CASE ConfirmMatch(d)
    BY <1>2, <2>6, ConfirmSteps DEF ConfirmMatch
  <2>7. CASE CommitLands(d)
    BY <2>7, LandsOK
  <2>8. CASE CommitFails(d)
    BY <1>2, <2>8, FailSteps DEF CommitFails
  <2>9. CASE ConfirmMismatch(d) \/ Cancel(d)
    BY <1>2, <2>9, RefuseSteps DEF ConfirmMismatch, Cancel
  <2>10. CASE Lock(d)
    BY <1>2, <2>10, LockSteps DEF Lock
  <2> QED
    BY <1>3, <2>1, <2>2, <2>3, <2>4, <2>5, <2>6, <2>7, <2>8, <2>9, <2>10
<1> QED
  BY <1>1, <1>3 DEF Next

(* In every ceremony a session holds what the cards and coordinates it read *)
(* once can leave, a proof is what its signer still holds, and nothing that *)
(* only follows a proof is there before both have met.                      *)
THEOREM SessionsAreWhole == Spec => []CeremonyInv
<1> QED
  BY InitOK, StepOK, PTL DEF Spec

(* Words on a screen: the peer is in this ceremony, and has this device's   *)
(* card and nonce, unless the card is that of one who holds up a screen     *)
(* (pairing-session.ts runPairing).                                         *)
THEOREM WordsMeanAlive == Spec => []ProvenAlive
<1>1. CeremonyInv => ProvenAlive
  <2> SUFFICES ASSUME CeremonyInv, NEW d \in Device, dev[d].words # {}
               PROVE  /\ dev[d].card = Peer(d) \/ (heldUp /\ dev[d].card = Other)
                      /\ dev[d].card = Peer(d) =>
                           dev[Peer(d)].card = d /\ dev[Peer(d)].nonce = d
    BY DEF ProvenAlive
  <2>1. Facing(d, dev[d])
    BY DEF CeremonyInv, Whole, Trusting
  <2>2. Peer(Peer(d)) = d /\ Peer(d) # Other
    BY TwoDevices, CeremonyAssumption
  <2> QED
    BY <2>1, <2>2 DEF Facing, Met, Half
<1> QED
  BY <1>1, SessionsAreWhole, PTL

(* A mailbox filed for the other is one the other signed, whatever screens  *)
(* are held up; with none, two that paired write to the mailbox the other   *)
(* reads, or neither does (pairing-session.ts settlePendingMailbox and      *)
(* mailboxPairing, contacts.ts commit).                                     *)
THEOREM LinksCross == Spec => []MailboxesCross
<1>1. CeremonyInv => MailboxesCross
  <2> SUFFICES ASSUME CeremonyInv
               PROVE  MailboxesCross
    OBVIOUS
  <2>1. ASSUME NEW d \in Device, link[d] # NoLink
        PROVE  /\ link[d].in = inbox[d] /\ link[d].in # link[d].out
               /\ link[d].out \in Signed(Peer(d))
               /\ ~heldUp => link[d].out = inbox[Peer(d)]
    BY <2>1 DEF CeremonyInv, LinksAgree, Agreed
  <2>2. ASSUME ~heldUp, NEW d \in Device, dev[d].phase = "paired", dev[Peer(d)].phase = "paired"
        PROVE  link[d] = NoLink <=> link[Peer(d)] = NoLink
    <3>1. Peer(d) \in Device /\ Peer(Peer(d)) = d
      BY TwoDevices
    <3>2. link[d] = Agreed(d) /\ link[Peer(d)] = Agreed(Peer(d))
      BY <2>2, <3>1 DEF CeremonyInv, LinksAgree
    <3> QED
      BY <3>1, <3>2 DEF Agreed, NoLink
  <2> QED
    BY <2>1, <2>2 DEF MailboxesCross
<1> QED
  BY <1>1, SessionsAreWhole, PTL

(* A refusal stands once nothing it interrupted is awaited (ceremony.ts     *)
(* assertPhase, the screens' buttons).                                      *)
THEOREM RefusedForGood == Spec => RefusalStands
<1> DEFINE Standing(d) ==
      dev[d].phase = "refused" /\ dev[d].task = "none" /\ dev[d].commits = 0 =>
        /\ dev'[d].phase = "refused" /\ dev'[d].playlist = {} /\ dev'[d].words = {}
        /\ pin'[d] = pin[d] /\ link'[d] = link[d]
<1>1. CeremonyInv /\ [Next]_vars => [\A d \in Device : Standing(d)]_vars
  <2> SUFFICES ASSUME CeremonyInv, Next, NEW d \in Device,
                      dev[d].phase = "refused", dev[d].task = "none", dev[d].commits = 0
               PROVE  /\ dev'[d].phase = "refused" /\ dev'[d].playlist = {}
                      /\ dev'[d].words = {} /\ pin'[d] = pin[d] /\ link'[d] = link[d]
    OBVIOUS
  <2>0. Shaped(dev[d]) /\ dev[d].playlist = {} /\ dev[d].words = {}
    BY DEF CeremonyInv, Whole, Turns
  <2>1. PICK e \in Device :
          \/ HandOff(e)
          \/ \E q \in Screens \cup Around : Offer(e, q)
          \/ Prove(e) \/ Finalize(e) \/ KeysThrow(e)
          \/ ConfirmMatch(e) \/ CommitLands(e) \/ CommitFails(e)
          \/ ConfirmMismatch(e) \/ Cancel(e)
          \/ Lock(e)
    BY DEF Next
  <2>2. CASE e # d
    <3>1. \E w : dev' = [dev EXCEPT ![e] = w]
      BY <2>1 DEF HandOff, Offer, Prove, Finalize, KeysThrow, ConfirmMatch, CommitLands,
                  CommitFails, ConfirmMismatch, Cancel, Lock, Become
    <3>2. dev'[d] = dev[d]
      BY <2>2, <3>1 DEF CeremonyInv
    <3>3. \/ UNCHANGED <<pin, link>>
          \/ CommitLands(e)
      BY <2>1 DEF HandOff, Offer, Prove, Finalize, KeysThrow, ConfirmMatch,
                  CommitFails, ConfirmMismatch, Cancel, Lock
    <3>4. pin'[d] = pin[d] /\ link'[d] = link[d]
      BY <2>2, <3>3 DEF CommitLands, CeremonyInv
    <3> QED
      BY <2>0, <3>2, <3>4
  <2>3. CASE e = d
    <3>1. Lock(d)
      <4>1. ~HandOff(d) /\ ~ConfirmMatch(d) /\ ~ConfirmMismatch(d) /\ ~Cancel(d)
        BY DEF HandOff, ConfirmMatch, ConfirmMismatch, Cancel, Up
      <4>2. \A q : ~Offer(d, q)
        BY DEF Offer, Up
      <4>3. ~Prove(d) /\ ~Finalize(d) /\ ~KeysThrow(d)
        BY DEF Prove, Finalize, KeysThrow
      <4>4. ~CommitLands(d) /\ ~CommitFails(d)
        BY DEF CommitLands, CommitFails
      <4> QED
        BY <2>1, <2>3, <4>1, <4>2, <4>3, <4>4
    <3> DEFINE u == [dev[d] EXCEPT !.screen = "locked"]
    <3>2. dev'[d] = u /\ pin' = pin /\ link' = link
      BY <3>1 DEF Lock, Become, CeremonyInv
    <3>3. u.phase = "refused" /\ u.playlist = {} /\ u.words = {}
      BY <2>0 DEF Shaped, Fields
    <3> HIDE DEF u
    <3> QED
      BY <3>2, <3>3
  <2> QED
    BY <2>2, <2>3
<1>2. Spec => [][\A d \in Device : Standing(d)]_vars
  BY <1>1, SessionsAreWhole, PTL DEF Spec
<1> QED
  BY <1>2 DEF RefusalStands

-----------------------------------------------------------------------------
(* Types: what a phase is collecting, and that no commit is without a press.*)
Booked(w, n) ==
  /\ w.phase \in {"show", "scan", "compare", "paired", "refused"}
  /\ w.step \in 1..3
  /\ w.phase \in {"show", "scan"} => w.collected \subseteq w.expecting
  /\ w.expecting \subseteq {"card", "info", "proof"}
  /\ w.words \subseteq Party
  /\ w.task \in {"none", "prove", "finalize"}
  /\ w.commits \in Nat /\ w.commits <= n
  /\ w.screen \in {"ceremony", "failed", "locked"}

Booking ==
  /\ heldUp \in BOOLEAN
  /\ inbox \in [Device -> Box \cup {NoBox}]
  /\ pin \in [Device -> {"new", "same", "supersede", "rejected"}]
  /\ presses \in [Device -> 0..MaxPresses]
  /\ \A d \in Device : Booked(dev[d], presses[d])

Books(d) == \E u : Become(d, u) /\ Booked(u, presses'[d])

LEMMA RefuseBooks ==
  ASSUME NEW w, NEW n, Shaped(w), Booked(w, n)
  PROVE  Booked(Refuse(w), n)
<1> DEFINE u == Refuse(w)
<1>1. /\ u.phase = "refused" /\ u.step = w.step /\ u.expecting = {} /\ u.words = {}
      /\ u.task = w.task /\ u.commits = w.commits /\ u.screen = w.screen
  BY DEF Shaped, Fields, Refuse
<1> HIDE DEF u
<1>2. Booked(u, n)
  BY <1>1 DEF Booked
<1> QED
  BY <1>2 DEF u

LEMMA OfferBooks ==
  ASSUME CeremonyInv, NEW d \in Device, NEW q \in Screens \cup Around, Offer(d, q),
         Booked(dev[d], presses[d])
  PROVE  Books(d)
<1> DEFINE w == dev[d]
           v == Collected(d, q)
           t == Task(d, w)
           u == IF Complete(w, q.kind) THEN Tasked(v, t) ELSE v
<1>0. Shaped(w) /\ presses' = presses
  BY DEF CeremonyInv, Whole, Offer
<1>1. /\ w.phase = "scan" /\ q.kind \in w.expecting \ w.collected
      /\ Become(d, IF Refused(d, w, q) THEN Refuse(w) ELSE u)
  BY DEF Offer, Up, Collected, Tasked
<1>2. CASE Refused(d, w, q)
  BY <1>0, <1>1, <1>2, RefuseBooks DEF Books
<1>3. CASE ~Refused(d, w, q)
  <2> DEFINE k == Keep(w, q)
  <2>1. Phase(k) = Phase(w)
    BY <1>0, KeepsOnly
  <2>2. Shaped(k)
    <3>1. Offered(d, q) /\ (ReadCard(q) \/ ReadInfo(q) \/ ReadProof(q))
      BY <1>1, <1>3, Read DEF Offered
    <3> QED
      BY <3>1, CardKept, InfoKept, ProofKept
  <2>3. v = [k EXCEPT !.collected = k.collected \cup {q.kind}]
    BY DEF Collected
  <2>4. t \in {"prove", "finalize"}
    BY DEF Task
  <2> HIDE DEF w, k, v, t
  <2>5. /\ k.phase = w.phase /\ k.step = w.step /\ k.expecting = w.expecting
        /\ k.collected = w.collected /\ k.words = w.words /\ k.task = w.task
        /\ k.commits = w.commits /\ k.screen = w.screen
    BY <2>1 DEF Phase
  <2>6. /\ Shaped(v) /\ v.phase = w.phase /\ v.step = w.step /\ v.expecting = w.expecting
        /\ v.collected = w.collected \cup {q.kind} /\ v.words = w.words /\ v.task = w.task
        /\ v.commits = w.commits /\ v.screen = w.screen
    BY <2>2, <2>3, <2>5 DEF Shaped, Fields
  <2>7. /\ u.phase = w.phase /\ u.step = w.step /\ u.expecting = w.expecting
        /\ u.collected = w.collected \cup {q.kind} /\ u.words = w.words
        /\ u.task \in {w.task, t} /\ u.commits = w.commits /\ u.screen = w.screen
    BY <2>6 DEF Shaped, Fields, Tasked
  <2> HIDE DEF u
  <2>8. Booked(u, presses'[d])
    BY <1>0, <1>1, <2>4, <2>7 DEF Booked, w
  <2> QED
    BY <1>1, <1>3, <2>8 DEF Books
<1> QED
  BY <1>2, <1>3

(* The other steps, whose sessions change in few fields.                    *)
LEMMA OthersBook ==
  ASSUME CeremonyInv, Booking, NEW d \in Device,
         \/ HandOff(d) \/ Prove(d) \/ Finalize(d) \/ KeysThrow(d)
         \/ ConfirmMatch(d) \/ CommitLands(d) \/ CommitFails(d)
         \/ ConfirmMismatch(d) \/ Cancel(d) \/ Lock(d)
  PROVE  Books(d)
<1> DEFINE w == dev[d]
           n == presses[d]
<1>0. Shaped(w) /\ Booked(w, n) /\ n \in 0..MaxPresses
  BY DEF CeremonyInv, Whole, Booking
<1>1. ASSUME NEW m, NEW u, Become(d, u), presses'[d] = m, Booked(u, m)
      PROVE  Books(d)
  BY <1>1 DEF Books
<1>2. ASSUME Become(d, Refuse(w)), presses'[d] = n
      PROVE  Books(d)
  BY <1>0, <1>1, <1>2, RefuseBooks
<1>3. CASE HandOff(d)
  <2>1. PICK u :
          /\ Become(d, u)
          /\ u \in {ToScan(w, 3, {"proof"}), ToScan(w, 2, {"card", "info", "proof"}),
                    [w EXCEPT !.phase = "compare"]}
    BY <1>3 DEF HandOff
  <2>2. presses'[d] = n
    BY <1>3 DEF HandOff
  <2> HIDE DEF w, n
  <2>3. /\ u.phase \in {"scan", "compare"} /\ u.step \in {w.step, 2, 3}
        /\ u.expecting \in {w.expecting, {"proof"}, {"card", "info", "proof"}}
        /\ u.phase = "scan" => u.collected = {}
        /\ u.words = w.words /\ u.task = w.task /\ u.commits = w.commits
        /\ u.screen = w.screen
    BY <1>0, <2>1 DEF Shaped, Fields, ToScan
  <2>4. Booked(u, n)
    BY <1>0, <2>3 DEF Booked
  <2> QED
    BY <1>1, <2>1, <2>2, <2>4
<1>4. CASE Prove(d)
  <2> DEFINE own == Own(d) \cup {Proof(Transcript(d, w))}
             b == [w EXCEPT !.task = "none", !.proved = TRUE, !.screen = "ceremony"]
             u == ToShow(b, 2, own)
  <2>1. Become(d, u) /\ presses'[d] = n
    BY <1>4 DEF Prove
  <2> HIDE DEF w, own, n
  <2>2. /\ Shaped(b) /\ b.task = "none" /\ b.screen = "ceremony" /\ b.words = w.words
        /\ b.commits = w.commits
    BY <1>0 DEF Shaped, Fields
  <2> HIDE DEF b
  <2>3. /\ u.phase = "show" /\ u.step = 2 /\ u.expecting = {} /\ u.collected = {}
        /\ u.words = w.words /\ u.task = "none" /\ u.commits = w.commits
        /\ u.screen = "ceremony"
    BY <2>2 DEF Shaped, Fields, ToShow
  <2> HIDE DEF u
  <2>4. Booked(u, n)
    BY <1>0, <2>3 DEF Booked
  <2> QED
    BY <1>1, <2>1, <2>4
<1>5. CASE Finalize(d)
  <2> DEFINE b == [w EXCEPT !.task = "none", !.screen = "ceremony"]
             v == [b EXCEPT !.words = {d, b.card}, !.proved = TRUE]
             own == {Proof(Transcript(d, v))}
             u == IF role[d] = "show-first" THEN ToShow(v, 3, own)
                  ELSE [v EXCEPT !.phase = "compare"]
  <2>1. Become(d, IF ~Verified(d, b) THEN Refuse(b) ELSE u) /\ presses'[d] = n
    BY <1>5 DEF Finalize
  <2>2. /\ Shaped(b) /\ b.phase = w.phase /\ b.step = w.step /\ b.expecting = w.expecting
        /\ b.collected = w.collected /\ b.words = w.words /\ b.task = "none"
        /\ b.commits = w.commits /\ b.screen = "ceremony"
        /\ b.card = w.card /\ b.proof = w.proof
    BY <1>0 DEF Shaped, Fields
  <2> HIDE DEF b
  <2>3. CASE ~Verified(d, b)
    <3>1. Booked(b, n)
      BY <1>0, <2>2 DEF Booked
    <3> QED
      BY <1>1, <2>1, <2>2, <2>3, <3>1, RefuseBooks
  <2>4. CASE Verified(d, b)
    <3>1. {d, b.card} \subseteq Party
      <4>1. Session(d, w) /\ ProofIsReal(w)
        BY DEF CeremonyInv, Whole
      <4>2. w.card # Foul
        <5>1. w.proof.by = Foul /\ w.proof.cards = {d, Foul} => FALSE
          BY <4>1, CeremonyAssumption DEF ProofIsReal, Strange, Transcript
        <5> QED
          BY <2>2, <2>4, <5>1 DEF Verified
      <4> QED
        BY <2>2, <4>1, <4>2 DEF Session, Party
    <3>2. /\ Shaped(v) /\ v.step = w.step /\ v.expecting = w.expecting
          /\ v.words = {d, b.card} /\ v.task = "none" /\ v.commits = w.commits
          /\ v.screen = "ceremony"
      BY <2>2 DEF Shaped, Fields
    <3> HIDE DEF v, own, w, n
    <3>3. /\ u.phase \in {"show", "compare"} /\ u.step \in {w.step, 3}
          /\ u.expecting \in {w.expecting, {}} /\ (u.phase = "show" => u.collected = {})
          /\ u.words = {d, b.card} /\ u.task = "none" /\ u.commits = w.commits
          /\ u.screen = "ceremony"
      BY <3>2 DEF Shaped, Fields, ToShow
    <3> HIDE DEF u
    <3>4. Booked(u, n)
      BY <1>0, <3>1, <3>3 DEF Booked
    <3> QED
      BY <1>1, <2>1, <2>4, <3>4
  <2> QED
    BY <2>3, <2>4
<1>6. CASE KeysThrow(d)
  <2> DEFINE u == [w EXCEPT !.task = "none"]
  <2>1. Become(d, u) /\ presses'[d] = n
    BY <1>6 DEF KeysThrow
  <2>2. Booked(u, n)
    BY <1>0 DEF Shaped, Fields, Booked
  <2> QED
    BY <1>1, <2>1, <2>2
<1>7. CASE Lock(d)
  <2> DEFINE u == [w EXCEPT !.screen = "locked"]
  <2>1. Become(d, u) /\ presses'[d] = n
    BY <1>7 DEF Lock
  <2>2. Booked(u, n)
    BY <1>0 DEF Shaped, Fields, Booked
  <2> QED
    BY <1>1, <2>1, <2>2
<1>8. CASE ConfirmMatch(d)
  <2> DEFINE u == [w EXCEPT !.commits = @ + 1]
  <2>1. presses'[d] = n + 1 /\ (Become(d, Refuse(w)) \/ Become(d, u))
    BY <1>8 DEF ConfirmMatch, Booking
  <2>2. Booked(w, n + 1) /\ Booked(u, n + 1)
    BY <1>0 DEF Shaped, Fields, Booked
  <2> QED
    BY <1>0, <1>1, <2>1, <2>2, RefuseBooks
<1>9. CASE CommitLands(d)
  <2> DEFINE b == [w EXCEPT !.commits = @ - 1, !.phase = "paired"]
             u == IF b.screen = "locked" THEN b ELSE [b EXCEPT !.screen = "ceremony"]
  <2>1. Become(d, u) /\ presses'[d] = n /\ w.commits > 0
    BY <1>9 DEF CommitLands
  <2> HIDE DEF w, n
  <2>2. Shaped(b) /\ b.phase = "paired" /\ Booked(b, n)
    <3>1. /\ Shaped(b) /\ b.phase = "paired" /\ b.step = w.step
          /\ b.expecting = w.expecting /\ b.words = w.words /\ b.task = w.task
          /\ b.commits = w.commits - 1 /\ b.screen = w.screen
      BY <1>0 DEF Shaped, Fields
    <3> HIDE DEF b
    <3> QED
      BY <1>0, <2>1, <3>1 DEF Booked
  <2> HIDE DEF b
  <2>3. Booked(u, n)
    BY <2>2 DEF Shaped, Fields, Booked
  <2> QED
    BY <1>1, <2>1, <2>3
<1>10. CASE CommitFails(d)
  <2> DEFINE b == [w EXCEPT !.commits = @ - 1]
             u == IF b.screen = "locked" THEN b ELSE [b EXCEPT !.screen = "failed"]
  <2>1. Become(d, u) /\ presses'[d] = n /\ w.commits > 0
    BY <1>10 DEF CommitFails
  <2>2. Shaped(b) /\ Booked(b, n)
    BY <1>0, <2>1 DEF Shaped, Fields, Booked
  <2> HIDE DEF b
  <2>3. Booked(u, n)
    BY <2>2 DEF Shaped, Fields, Booked
  <2> QED
    BY <1>1, <2>1, <2>3
<1>11. CASE ConfirmMismatch(d) \/ Cancel(d)
  BY <1>2, <1>11 DEF ConfirmMismatch, Cancel
<1> QED
  BY <1>3, <1>4, <1>5, <1>6, <1>7, <1>8, <1>9, <1>10, <1>11

LEMMA BookingStep == CeremonyInv /\ Booking /\ [Next]_vars => Booking'
<1> SUFFICES ASSUME CeremonyInv, Booking, [Next]_vars
             PROVE  Booking'
  OBVIOUS
<1>1. CASE UNCHANGED vars
  <2>1. UNCHANGED <<heldUp, inbox, pin, dev, presses>>
    BY <1>1 DEF vars
  <2> QED
    BY <2>1 DEF Booking
<1>2. ASSUME NEW d \in Device, Books(d),
             UNCHANGED <<heldUp, inbox>>,
             pin' = pin \/ \E s \in {"same", pin[d]} : pin' = [pin EXCEPT ![d] = s],
             presses' = presses
               \/ (presses[d] < MaxPresses /\ presses' = [presses EXCEPT ![d] = @ + 1])
      PROVE  Booking'
  <2>1. pin' \in [Device -> {"new", "same", "supersede", "rejected"}]
    BY <1>2 DEF Booking
  <2>2. /\ presses' \in [Device -> 0..MaxPresses]
        /\ \A e \in Device : e # d => presses'[e] = presses[e]
    BY <1>2, CeremonyAssumption DEF Booking
  <2>3. PICK u : Become(d, u) /\ Booked(u, presses'[d])
    BY <1>2 DEF Books
  <2>4. dev'[d] = u /\ \A e \in Device : e # d => dev'[e] = dev[e]
    BY <2>3 DEF Become, CeremonyInv
  <2>5. \A e \in Device : Booked(dev'[e], presses'[e])
    BY <2>2, <2>3, <2>4 DEF Booking
  <2> QED
    BY <1>2, <2>1, <2>2, <2>5 DEF Booking
<1>3. ASSUME NEW d \in Device, NEW q \in Screens \cup Around, Offer(d, q)
      PROVE  Booking'
  BY <1>2, <1>3, OfferBooks DEF Offer, Booking
<1>4. ASSUME NEW d \in Device,
             \/ HandOff(d) \/ Prove(d) \/ Finalize(d) \/ KeysThrow(d)
             \/ ConfirmMatch(d) \/ CommitLands(d) \/ CommitFails(d)
             \/ ConfirmMismatch(d) \/ Cancel(d) \/ Lock(d)
      PROVE  Booking'
  <2>1. Books(d)
    BY <1>4, OthersBook
  <2>2. heldUp' = heldUp /\ inbox' = inbox
    BY <1>4 DEF HandOff, Prove, Finalize, KeysThrow, ConfirmMatch, CommitLands, CommitFails,
                ConfirmMismatch, Cancel, Lock
  <2>3. pin' = pin \/ \E s \in {"same", pin[d]} : pin' = [pin EXCEPT ![d] = s]
    BY <1>4 DEF HandOff, Prove, Finalize, KeysThrow, ConfirmMatch, CommitLands, CommitFails,
                ConfirmMismatch, Cancel, Lock
  <2>4. presses' = presses
          \/ (presses[d] < MaxPresses /\ presses' = [presses EXCEPT ![d] = @ + 1])
    BY <1>4 DEF HandOff, Prove, Finalize, KeysThrow, ConfirmMatch, CommitLands, CommitFails,
                ConfirmMismatch, Cancel, Lock
  <2> QED
    BY <1>2, <2>1, <2>2, <2>3, <2>4
<1> QED
  BY <1>1, <1>3, <1>4 DEF Next

(* The types of the ceremony: what is shown, collected and linked.          *)
THEOREM CeremonyTypes == Spec => []TypeOK
<1>1. Init => Booking
  <2> SUFFICES ASSUME Init
               PROVE  Booking
    OBVIOUS
  <2>1. heldUp \in BOOLEAN /\ inbox \in [Device -> Box \cup {NoBox}]
    BY DEF Init
  <2>11. pin \in [Device -> {"new", "same", "supersede", "rejected"}]
    <3>1. \A d \in Device : pin[d] \in Known
      BY DEF Init
    <3> QED
      BY <3>1, CeremonyAssumption DEF Init
  <2>12. presses \in [Device -> 0..MaxPresses]
    BY CeremonyAssumption DEF Init
  <2>2. ASSUME NEW d \in Device
        PROVE  Booked(dev[d], presses[d])
    <3>1. dev[d] = Begun(d, role[d]) /\ presses[d] = 0
      BY DEF Init
    <3> QED
      BY <3>1 DEF Begun, Booked
  <2> QED
    BY <2>1, <2>11, <2>12, <2>2 DEF Booking
<1>2. CeremonyInv /\ Booking => TypeOK
  <2> SUFFICES ASSUME CeremonyInv, Booking
               PROVE  TypeOK
    OBVIOUS
  <2>1. link \in [Device -> [in : Box \cup {NoBox}, out : Box \cup {NoBox}]]
    <3>1. \A d \in Device : Signed(Peer(d)) \subseteq Box
      BY TwoDevices, CeremonyAssumption DEF Booking, Signed
    <3>2. ASSUME NEW d \in Device
          PROVE  link[d] \in [in : Box \cup {NoBox}, out : Box \cup {NoBox}]
      BY <3>1 DEF CeremonyInv, LinksAgree, NoLink, Booking
    <3> QED
      BY <3>2 DEF CeremonyInv
  <2>2. ASSUME NEW d \in Device
        PROVE  /\ \A q \in dev[d].playlist : q \in Payloads
               /\ dev[d].commits \in 0..MaxPresses
    <3>1. Session(d, dev[d]) /\ ShowsOwn(d, dev[d]) /\ Booked(dev[d], presses[d])
          /\ inbox[d] \in Box \cup {NoBox} /\ presses[d] \in 0..MaxPresses
      BY DEF CeremonyInv, Whole, Booking
    <3>2. Card(d) \in Payloads /\ Info(d, d, inbox[d]) \in Payloads
      BY <3>1 DEF Card, Info, Payloads, Party
    <3>3. Proof(Transcript(d, dev[d])) \in Payloads
      BY <3>1 DEF Session, Proof, Transcript, Payloads, Party
    <3> QED
      BY <3>1, <3>2, <3>3, CeremonyAssumption DEF ShowsOwn, Own, Booked
  <2>3. ASSUME NEW d \in Device
        PROVE  /\ dev[d].phase \in {"show", "scan", "compare", "paired", "refused"}
               /\ dev[d].step \in 1..3
               /\ dev[d].phase \in {"show", "scan"} => dev[d].collected \subseteq dev[d].expecting
               /\ dev[d].expecting \subseteq {"card", "info", "proof"}
               /\ dev[d].words \subseteq Party
               /\ dev[d].task \in {"none", "prove", "finalize"}
               /\ dev[d].screen \in {"ceremony", "failed", "locked"}
    BY DEF Booking, Booked
  <2> QED
    BY <2>1, <2>2, <2>3 DEF TypeOK, Booking, CeremonyInv
<1>3. Spec => []Booking
  BY <1>1, BookingStep, SessionsAreWhole, PTL DEF Spec
<1> QED
  BY <1>2, <1>3, SessionsAreWhole, PTL
=============================================================================
