--------------------------- MODULE PairingCeremony ---------------------------
(***************************************************************************)
(* Two devices pairing face to face: the state machine of                  *)
(* client/src/ui/ceremony.ts over the session of pairing-session.ts, as    *)
(* the screens of ui/app.ts drive it.                                      *)
(*                                                                         *)
(* Devices talk by showing codes and scanning them. A camera reads any     *)
(* code in the room in any order: the peer's, its own reflected, those of  *)
(* the pair at the next table, those of a screen held up between the two.  *)
(* People press what their screen offers, when they like. A signature is   *)
(* what it signs, and only its signer can have made it.                    *)
(***************************************************************************)
EXTENDS Naturals

CONSTANTS
  Device,      \* the two devices
  Other,       \* a bystander whose codes are in the room
  Bystander,   \* whether it is there
  Past,        \* Past[d]: mailboxes d published in earlier ceremonies
  Known,       \* what a store may say of the other's card at first
  Box,         \* mailboxes the relay may reserve
  NoBox,       \* reserveInbox found no relay
  Foul,        \* bytes that read as a card and are none
  MaxPresses   \* bound: times one person presses "They match"

ASSUME CeremonyAssumption ==
  /\ \E d, e \in Device : d # e /\ Device = {d, e}
  /\ Other \notin Device
  /\ Bystander \in BOOLEAN
  /\ NoBox \notin Box
  /\ Past \in [Device -> SUBSET Box]
  /\ Known \subseteq {"new", "same", "supersede", "rejected"}
  /\ Foul \notin Device \cup {Other}
  /\ MaxPresses \in Nat

VARIABLES
  heldUp,    \* whether a bystander holds a screen into what these two show
  role,      \* show-first or scan-first
  inbox,     \* the mailbox each device reserved before the ceremony
  pin,       \* what each device's store knows of the other
  dev,       \* each device's ceremony and pairing session
  link,      \* the mailboxes each device has filed for the other
  presses    \* presses of "They match"

vars == <<heldUp, role, inbox, pin, dev, link, presses>>

Party == Device \cup {Other}
NoLink == [in |-> NoBox, out |-> NoBox]
NoProof == [by |-> Foul, cards |-> {}, nonces |-> {}]

Peer(d) == CHOOSE e \in Device : e # d

-----------------------------------------------------------------------------
(* Payloads. A nonce is named by whose it is. The coordinate beside it is a *)
(* mailbox and who signed it, which nothing ties to the nonce.              *)

Card(x) == [kind |-> "card", of |-> x]
Info(nonce, signer, box) == [kind |-> "info", of |-> nonce, by |-> signer, box |-> box]
Proof(p) == [kind |-> "proof", proof |-> p]

\* pairingTranscript: both cards and both nonces, in an order both ends share.
Transcript(d, w) == [by |-> d, cards |-> {d, w.card}, nonces |-> {d, w.nonce}]

\* Slip: the nonces are not signed.
VerifiedStale(d, w) ==
  /\ w.proof.by = w.card
  /\ w.proof.cards = {d, w.card}

\* runPairing: the proof is the peer's, over this session's transcript.
Verified(d, w) ==
  /\ w.proof.by = w.card
  /\ w.proof.cards = {d, w.card}
  /\ w.proof.nonces = {d, w.nonce}

Own(d) == {Card(d), Info(d, d, inbox[d])}

\* What the bystander shows: a pairing of its own, with its own mailbox or none.
NextTable ==
  {Card(Other), Card(Foul), Info(Other, Other, NoBox), Info(Other, Other, CHOOSE b \in Box : TRUE),
   Proof([by |-> Other, cards |-> {Other, Foul}, nonces |-> {Other, Foul}])}

\* A nonce and a coordinate are known to the room once they were shown.
Shown == { d \in Device : role[d] = "show-first" \/ dev[d].proved }
Nonces == Shown \cup {Other}
Signed(x) == IF x = Other THEN Box ELSE Past[x] \cup ({inbox[x]} \ {NoBox})

Seen(x) == IF x \in Shown THEN Signed(x) ELSE Past[x]

\* A proof under the bystander's own key, over a device's card.
OwnProof(d, n) == Proof([by |-> Other, cards |-> {Other, d}, nonces |-> {d, n}])

\* What a screen held up shows: the parts these two have shown, those of other
\* days, its own, in any combination; its own proofs, those it has seen.
Recombined ==
  { Card(x) : x \in Party }
    \cup { Info(n, Other, NoBox) : n \in Nonces }
    \cup { q \in { Info(n, x, b) : n \in Nonces, x \in Party \cup {Foul}, b \in Box } :
            q.by \in Device => q.box \in Seen(q.by) }
    \cup { OwnProof(d, n) : d \in Shown, n \in Nonces }
    \cup { Proof(Transcript(d, dev[d])) : d \in { e \in Device : dev[e].proved } }

Around ==
  (IF Bystander THEN NextTable ELSE {}) \cup (IF heldUp THEN Recombined ELSE {})

-----------------------------------------------------------------------------
(* Phases. *)

Begun(d, r) ==
  [phase |-> IF r = "show-first" THEN "show" ELSE "scan",
   step |-> 1,
   playlist |-> IF r = "show-first" THEN Own(d) ELSE {},
   expecting |-> IF r = "show-first" THEN {} ELSE {"card", "info"},
   collected |-> {},
   card |-> Foul, nonce |-> Foul, box |-> NoBox, pending |-> NoLink, proof |-> NoProof,
   proved |-> FALSE, words |-> {}, task |-> "none", commits |-> 0, screen |-> "ceremony"]

ToScan(w, step, expecting) ==
  [w EXCEPT !.phase = "scan", !.step = step, !.expecting = expecting,
            !.collected = {}, !.playlist = {}]

ToShow(w, step, playlist) ==
  [w EXCEPT !.phase = "show", !.step = step, !.playlist = playlist,
            !.expecting = {}, !.collected = {}]

Refuse(w) ==
  [w EXCEPT !.phase = "refused", !.playlist = {}, !.expecting = {}, !.words = {}]

\* contacts.ts classify, of the one card each identity has here.
Classify(d, x) == IF x = Peer(d) THEN pin[d] ELSE "new"

\* Both halves or nothing, and never one box for both directions.
MailboxPairing(d, w) ==
  IF inbox[d] = NoBox \/ w.box = NoBox \/ inbox[d] = w.box
  THEN NoLink
  ELSE [in |-> inbox[d], out |-> w.box]

-----------------------------------------------------------------------------
Init ==
  /\ heldUp \in BOOLEAN
  /\ role \in [Device -> {"show-first", "scan-first"}]
  /\ inbox \in [Device -> Box \cup {NoBox}]
  /\ pin \in [Device -> Known]
  /\ dev = [d \in Device |-> Begun(d, role[d])]
  /\ link = [d \in Device |-> NoLink]
  /\ presses = [d \in Device |-> 0]

\* Slip: the screen's buttons and the camera are not asked for the phase.
UpInAnyPhase(d, phase) == dev[d].screen = "ceremony"

\* assertPhase, of the ceremony the screen shows.
Up(d, phase) == dev[d].screen = "ceremony" /\ dev[d].phase = phase

Screens == UNION { dev[d].playlist : d \in { e \in Device : Up(e, "show") } }

Become(d, w) == dev' = [dev EXCEPT ![d] = w]

\* handOff: the person says that the other camera has it.
HandOff(d) ==
  /\ Up(d, "show")
  /\ Become(d, IF role[d] = "scan-first" THEN ToScan(dev[d], 3, {"proof"})
               ELSE IF dev[d].step = 1 THEN ToScan(dev[d], 2, {"card", "info", "proof"})
               ELSE [dev[d] EXCEPT !.phase = "compare"])
  /\ UNCHANGED <<heldUp, role, inbox, pin, link, presses>>

\* Slip: the coordinate's signature is not checked.
SettledUnsigned(w) == TRUE

\* settlePendingMailbox: a coordinate waits for the card that must have signed it.
Settled(w) == w.pending = NoLink \/ w.card = Foul \/ w.pending.in = w.card

Settle(w) ==
  IF w.pending = NoLink \/ w.card = Foul
  THEN w
  ELSE [w EXCEPT !.box = w.pending.out, !.pending = NoLink]

\* What a payload does to the pairing session. pending.in is its signer.
Keep(w, q) ==
  IF q.kind = "card" THEN Settle([w EXCEPT !.card = q.of])
  ELSE IF q.kind = "proof" THEN [w EXCEPT !.proof = q.proof]
  ELSE IF q.box = NoBox THEN [w EXCEPT !.nonce = q.of, !.pending = NoLink]
  ELSE Settle([w EXCEPT !.nonce = q.of, !.pending = [in |-> q.by, out |-> q.box]])

Refused(d, w, q) ==
  \/ /\ q.kind = "card"
     /\ \/ q.of \in {Foul, d}
        \/ Classify(d, q.of) = "rejected"
        \/ ~Settled([w EXCEPT !.card = q.of])
  \/ /\ q.kind = "info"
     /\ q.box # NoBox
     /\ ~Settled([w EXCEPT !.pending = [in |-> q.by, out |-> q.box]])

\* Slip: the last payload is looked for among those before it.
CompleteTooLate(w, kind) == w.expecting \subseteq w.collected

Complete(w, kind) == w.expecting \subseteq w.collected \cup {kind}

\* completeScan: scan-first's first scan proves, every other one verifies.
Task(d, w) == IF role[d] = "scan-first" /\ w.step = 1 THEN "prove" ELSE "finalize"

\* offer, up to completeScan's await: unexpected and repeated payloads are ignored.
Offer(d, q) ==
  LET w == dev[d]
      v == [Keep(w, q) EXCEPT !.collected = @ \cup {q.kind}]
  IN  /\ Up(d, "scan")
      /\ q.kind \in w.expecting \ w.collected
      /\ Become(d, IF Refused(d, w, q) THEN Refuse(w)
                   ELSE IF Complete(w, q.kind) THEN [v EXCEPT !.task = Task(d, w)]
                   ELSE v)
      /\ UNCHANGED <<heldUp, role, inbox, pin, link, presses>>

\* The signature is made: three codes to show.
Prove(d) ==
  LET w == dev[d]
  IN  /\ w.task = "prove"
      /\ w.screen # "locked"
      /\ Become(d, ToShow([w EXCEPT !.task = "none", !.proved = TRUE, !.screen = "ceremony"],
                          2, Own(d) \cup {Proof(Transcript(d, w))}))
      /\ UNCHANGED <<heldUp, role, inbox, pin, link, presses>>

\* The proof is checked: a refusal, or the words.
Finalize(d) ==
  LET w == [dev[d] EXCEPT !.task = "none", !.screen = "ceremony"]
      v == [w EXCEPT !.words = {d, w.card}, !.proved = TRUE]
  IN  /\ dev[d].task = "finalize"
      /\ dev[d].screen # "locked"
      /\ Become(d, IF ~Verified(d, w) THEN Refuse(w)
                   ELSE IF role[d] = "show-first"
                        THEN ToShow(v, 3, {Proof(Transcript(d, v))})
                        ELSE [v EXCEPT !.phase = "compare"])
      /\ UNCHANGED <<heldUp, role, inbox, pin, link, presses>>

\* Locked keys throw, whatever was being signed.
KeysThrow(d) ==
  /\ dev[d].task # "none"
  /\ dev[d].screen = "locked"
  /\ Become(d, [dev[d] EXCEPT !.task = "none"])
  /\ UNCHANGED <<heldUp, role, inbox, pin, link, presses>>

-----------------------------------------------------------------------------
(* The people's decision. *)

\* confirmMatch up to its await: classified again, then committed.
ConfirmMatch(d) ==
  /\ Up(d, "compare")
  /\ presses[d] < MaxPresses
  /\ presses' = [presses EXCEPT ![d] = @ + 1]
  /\ Become(d, IF Classify(d, dev[d].card) = "rejected"
               THEN Refuse(dev[d])
               ELSE [dev[d] EXCEPT !.commits = @ + 1])
  /\ UNCHANGED <<heldUp, role, inbox, pin, link>>

CommitLands(d) ==
  LET w == [dev[d] EXCEPT !.commits = @ - 1, !.phase = "paired"]
  IN  /\ dev[d].commits > 0
      /\ Become(d, IF w.screen = "locked" THEN w ELSE [w EXCEPT !.screen = "ceremony"])
      /\ pin' = [pin EXCEPT ![d] = IF w.card = Peer(d) THEN "same" ELSE @]
      /\ link' = [link EXCEPT ![d] =
           IF w.card # Peer(d) \/ MailboxPairing(d, w) = NoLink THEN @ ELSE MailboxPairing(d, w)]
      /\ UNCHANGED <<heldUp, role, inbox, presses>>

\* The write is refused: the screen says so; the machine stays where it was.
CommitFails(d) ==
  LET w == [dev[d] EXCEPT !.commits = @ - 1]
  IN  /\ dev[d].commits > 0
      /\ Become(d, IF w.screen = "locked" THEN w ELSE [w EXCEPT !.screen = "failed"])
      /\ UNCHANGED <<heldUp, role, inbox, pin, link, presses>>

ConfirmMismatch(d) ==
  /\ Up(d, "compare")
  /\ Become(d, Refuse(dev[d]))
  /\ UNCHANGED <<heldUp, role, inbox, pin, link, presses>>

\* The cancel buttons are on the show and scan screens.
Cancel(d) ==
  /\ Up(d, "show") \/ Up(d, "scan")
  /\ Become(d, Refuse(dev[d]))
  /\ UNCHANGED <<heldUp, role, inbox, pin, link, presses>>

Lock(d) ==
  /\ dev[d].screen # "locked"
  /\ Become(d, [dev[d] EXCEPT !.screen = "locked"])
  /\ UNCHANGED <<heldUp, role, inbox, pin, link, presses>>

Next ==
  \E d \in Device :
    \/ HandOff(d)
    \/ \E q \in Screens \cup Around : Offer(d, q)
    \/ Prove(d) \/ Finalize(d) \/ KeysThrow(d)
    \/ ConfirmMatch(d) \/ CommitLands(d) \/ CommitFails(d)
    \/ ConfirmMismatch(d) \/ Cancel(d)
    \/ Lock(d)

Spec == Init /\ [][Next]_vars

(* Two people who pair: one of them starts by showing, each hands the turn  *)
(* over when the other camera has it all, and both say that the words match.*)
Captured(d) ==
  \A q \in dev[d].playlist :
    \/ q.kind \in dev[Peer(d)].collected
    \/ q.kind = "proof" /\ dev[Peer(d)].proof # NoProof
    \/ q.kind # "proof" /\ dev[Peer(d)].proved

Together ==
  \E d \in Device :
    \/ HandOff(d) /\ Captured(d)
    \/ \E q \in Screens : Offer(d, q)
    \/ Prove(d) \/ Finalize(d)
    \/ ConfirmMatch(d) \/ CommitLands(d)

TogetherInit ==
  /\ Init
  /\ ~heldUp
  /\ \A d \in Device : role[d] # role[Peer(d)] /\ pin[d] # "rejected"

TogetherSpec == TogetherInit /\ [][Together]_vars /\ WF_vars(Together)

-----------------------------------------------------------------------------
(* Properties. *)

Payloads ==
  [kind : {"card"}, of : Party \cup {Foul}]
    \cup [kind : {"info"}, of : Party, by : Party \cup {Foul}, box : Box \cup {NoBox}]
    \cup [kind : {"proof"}, proof : [by : Party, cards : SUBSET (Party \cup {Foul}),
                                     nonces : SUBSET (Party \cup {Foul})]]

TypeOK ==
  /\ heldUp \in BOOLEAN
  /\ role \in [Device -> {"show-first", "scan-first"}]
  /\ inbox \in [Device -> Box \cup {NoBox}]
  /\ pin \in [Device -> {"new", "same", "supersede", "rejected"}]
  /\ link \in [Device -> [in : Box \cup {NoBox}, out : Box \cup {NoBox}]]
  /\ presses \in [Device -> 0..MaxPresses]
  /\ \A d \in Device :
       /\ dev[d].phase \in {"show", "scan", "compare", "paired", "refused"}
       /\ dev[d].step \in 1..3
       /\ \A q \in dev[d].playlist : q \in Payloads
       /\ dev[d].phase \in {"show", "scan"} => dev[d].collected \subseteq dev[d].expecting
       /\ dev[d].expecting \subseteq {"card", "info", "proof"}
       /\ dev[d].words \subseteq Party
       /\ dev[d].task \in {"none", "prove", "finalize"}
       /\ dev[d].commits \in 0..MaxPresses
       /\ dev[d].screen \in {"ceremony", "failed", "locked"}

(* Words on a screen are those of a pairing whose other end is alive in this*)
(* ceremony: it holds the card and the nonce this device is using now, and  *)
(* signed both. Nobody but the other device is at that end, unless somebody *)
(* holds up a screen of their own and pairs, under their own name.          *)
ProvenAlive ==
  \A d \in Device :
    dev[d].words # {} =>
      /\ dev[d].card = Peer(d) \/ (heldUp /\ dev[d].card = Other)
      /\ dev[d].card = Peer(d) => dev[Peer(d)].card = d /\ dev[Peer(d)].nonce = d

(* A mailbox a device would write to is one the other published itself, in  *)
(* this ceremony or, where a screen held up replays it, an earlier one, and *)
(* never the one it reads. With no such screen two devices that paired agree*)
(* about them: each writes to the one the other reads, or neither can write.*)
MailboxesCross ==
  \A d \in Device :
    /\ link[d] # NoLink =>
         /\ link[d].in = inbox[d] /\ link[d].in # link[d].out
         /\ link[d].out \in Signed(Peer(d))
    /\ ~heldUp =>
         /\ link[d] # NoLink => link[d].out = inbox[Peer(d)]
         /\ dev[d].phase = "paired" /\ dev[Peer(d)].phase = "paired" =>
              (link[d] = NoLink <=> link[Peer(d)] = NoLink)

(* Two people who do as the screens say are both paired in the end.         *)
BothPair == <>(\A d \in Device : dev[d].phase = "paired" /\ dev[d].commits = 0)

(* A refusal stands once nothing it interrupted is still being awaited: the *)
(* device pins nobody, links no mailbox and shows nothing more, whatever    *)
(* its person presses and its camera reads. While a signature, a check or a *)
(* commit is in flight it does not: the await's end sets the phase whatever *)
(* was pressed meanwhile.                                                   *)
RefusalStands ==
  [][\A d \in Device :
       dev[d].phase = "refused" /\ dev[d].task = "none" /\ dev[d].commits = 0 =>
         /\ dev'[d].phase = "refused" /\ dev'[d].playlist = {} /\ dev'[d].words = {}
         /\ pin'[d] = pin[d] /\ link'[d] = link[d]]_vars
=============================================================================
