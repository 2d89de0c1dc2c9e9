-------------------------- MODULE OpticalReceiver --------------------------
(***************************************************************************)
(* client/src/optical.ts over vendor/decimen/frame.ts and fountain.ts: the *)
(* frames a code is shown as, the two walls a scanned frame passes, and    *)
(* the fountain decoder that puts a payload together again. All of it is   *)
(* functions; OpticalScan holds their state.                               *)
(*                                                                         *)
(* The content of a block is the pair of its payload and its number, and   *)
(* the XOR of blocks is the symmetric difference of sets of such pairs.    *)
(***************************************************************************)
EXTENDS Integers, FiniteSets, Sequences

CONSTANTS
  Payload,       \* what the other device shows
  Length,        \* Length[p] in bytes
  Session,       \* Session[p]: the 16-bit id drawn for p's frames
  Checksum,      \* Checksum[p]: its FNV-1a
  SeqSpace,      \* 2^32, the range of a frame's number
  Indices,       \* Indices[session][k][seq]: the blocks mixed into a frame
  MaxK, MaxBlockLen, MaxTotalLen, TargetBlocks, MinBlockLen

ASSUME SizesAssumption ==
  /\ {MaxK, MaxBlockLen, MaxTotalLen, TargetBlocks, MinBlockLen} \subseteq Nat \ {0}
  /\ Length \in [Payload -> 1 .. MaxTotalLen]

Seq32 == 0 .. SeqSpace - 1
Least(x, y) == IF x < y THEN x ELSE y
Most(x, y) == IF x < y THEN y ELSE x
CeilDiv(n, d) == (n + d - 1) \div d

-----------------------------------------------------------------------------
(* The sender *)

DefaultBlockLen(total) ==
  Least(MaxBlockLen, Most(MinBlockLen, CeilDiv(total, TargetBlocks)))

\* buildFrameStream refuses the rest.
Encodable(total, block) ==
  /\ total \in 1 .. MaxTotalLen
  /\ block \in 1 .. MaxBlockLen
  /\ CeilDiv(total, block) <= MaxK

\* The shape a stream declares: blocks, bytes in each, bytes in all.
Shape(total, block) ==
  [k |-> CeilDiv(total, block), blockLen |-> block, totalLen |-> total]

\* The header of every frame of p, its number apart.
HeaderOf(p) ==
  [shape |-> Shape(Length[p], DefaultBlockLen(Length[p])),
   session |-> Session[p], fnv |-> Checksum[p]]

\* frameIndices draws from the k blocks there are. Two codes that agree in
\* session, length and checksum are taken to be one.
ASSUME StreamsAssumption ==
  /\ \A p \in Payload, q \in Seq32 :
       LET k == HeaderOf(p).shape.k IN Indices[Session[p]][k][q] \subseteq 1 .. k
  /\ \A p, r \in Payload :
       Session[p] = Session[r] /\ Length[p] = Length[r] /\ Checksum[p] = Checksum[r] => p = r

\* encode: the XOR of the blocks the number stands for.
Encode(p, q) == { <<p, b>> : b \in Indices[Session[p]][HeaderOf(p).shape.k][q] }

FrameOf(p, q) == [head |-> HeaderOf(p), seq |-> q, words |-> Encode(p, q)]

-----------------------------------------------------------------------------
(* The two walls *)

\* parseFrame, on a symbol that is one of ours in length and magic.
ParseAccepts(h) ==
  /\ h.k # 0 /\ h.blockLen # 0 /\ h.totalLen # 0
  /\ h.k <= MaxK /\ h.blockLen <= MaxBlockLen /\ h.totalLen <= MaxTotalLen
  /\ h.totalLen <= h.k * h.blockLen
  /\ h.totalLen > (h.k - 1) * h.blockLen

\* headerRefusal returns null.
HeaderAccepts(h) ==
  /\ h.k \in 1 .. MaxK
  /\ h.blockLen \in 1 .. MaxBlockLen
  /\ h.totalLen \in 1 .. MaxTotalLen
  /\ h.totalLen <= h.k * h.blockLen
  /\ ~(h.totalLen <= (h.k - 1) * h.blockLen)

-----------------------------------------------------------------------------
(* The decoder: solved blocks, frames still waiting for two blocks or more, *)
(* and the numbers of the frames it was given.                              *)

NoDecoder == [solved |-> <<>>, waiting |-> {}, seen |-> {}]

\* The XOR of w with every word of solved[B]: what an odd number of them holds.
Xor(w, B, solved) ==
  { x \in w \cup UNION { solved[b] : b \in B } :
      (Cardinality({ b \in B : x \in solved[b] }) % 2 = 0) <=> x \in w }

\* What frame [idx, words] comes to once the blocks of B, as in solved, are out.
Reduced(f, B, solved) ==
  [idx |-> f.idx \ B, words |-> Xor(f.words, f.idx \cap B, solved)]

Put(solved, b, w) == [c \in DOMAIN solved \cup {b} |-> IF c = b THEN w ELSE solved[c]]

Ready(d) == { f \in d.waiting : Cardinality(f.idx) = 1 }

\* One turn of resolve's loop. In which order it takes ready frames makes no
\* difference to what is solved: equal index sets carry equal words.
Peel(d) ==
  LET f == CHOOSE g \in Ready(d) : TRUE
      b == CHOOSE c \in f.idx : TRUE
      solved == Put(d.solved, b, f.words)
      rest == { Reduced(g, {b}, solved) : g \in d.waiting }
  IN  [d EXCEPT !.solved = solved, !.waiting = { g \in rest : g.idx # {} }]

\* Slip: the cascade stops after the block that started it.
PeelOnce(d, k) == IF Ready(d) = {} THEN d ELSE Peel(d)

\* resolve: a block solved may leave others waiting for one block only.
PeelAll(d, k) ==
  LET after[n \in 0 .. k] ==
        IF n = 0 THEN d
        ELSE IF Ready(after[n - 1]) = {} THEN after[n - 1] ELSE Peel(after[n - 1])
  IN  after[k]

Complete(d, k) == Cardinality(DOMAIN d.solved) >= k

AddFrame(d, f) ==
  LET k == f.head.shape.k
      fresh == [d EXCEPT !.seen = @ \cup {f.seq}]
      frame == [idx |-> Indices[f.head.session][k][f.seq], words |-> f.words]
      left == Reduced(frame, DOMAIN d.solved, d.solved)
  IN  IF f.seq \in d.seen THEN d
      ELSE IF Complete(d, k) \/ left.idx = {} THEN fresh
      ELSE PeelAll([fresh EXCEPT !.waiting = @ \cup {left}], k)

\* The words of the blocks in order, cut to length.
Assemble(d, k) == [b \in 1 .. k |-> d.solved[b]]

Whole(p) == [b \in 1 .. HeaderOf(p).shape.k |-> {<<p, b>>}]

-----------------------------------------------------------------------------
(* The receiver *)

Unlocked == [identity |-> <<>>, decoder |-> NoDecoder, payload |-> <<>>]

\* Slip: the checksum is left out of the identity.
IdentityShort(h) == <<h.session, h.shape>>

\* streamIdentity: all a header says.
Identity(h) == <<h.session, h.shape, h.fnv>>

\* A frame of another stream starts over. A stream once complete stays complete.
Feed(r, f) ==
  LET base == IF r.identity = Identity(f.head) THEN r
              ELSE [Unlocked EXCEPT !.identity = Identity(f.head)]
      k == f.head.shape.k
      d == AddFrame(base.decoder, f)
  IN  IF ~ParseAccepts(f.head.shape) \/ ~HeaderAccepts(f.head.shape) THEN r
      ELSE IF base.payload # <<>> THEN base
      ELSE [base EXCEPT !.decoder = d,
                        !.payload = IF Complete(d, k) THEN Assemble(d, k) ELSE <<>>]

-----------------------------------------------------------------------------
(* What a decoder can know *)

\* The least set of blocks closed under: of a frame with one block missing,
\* that block too.
Closure(frames, k) ==
  LET Closed(B) == \A idx \in frames : Cardinality(idx \ B) # 1
  IN  { b \in 1 .. k : \A B \in SUBSET (1 .. k) : Closed(B) => b \in B }
=============================================================================
