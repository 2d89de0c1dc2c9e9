------------------------- MODULE OpticalScanProofs -------------------------
(***************************************************************************)
(* For any number of scanners, workers, codes and frames, any caps and any *)
(* choice of the blocks a frame mixes: who holds the camera (a scanner     *)
(* that was stopped holds nothing, and a camera that is on can be turned   *)
(* off by the app unless an abandoned attempt failed late), and what it    *)
(* reads (the fountain decoder solves all that peeling can, and what it    *)
(* puts together is what was shown).                                       *)
(***************************************************************************)
EXTENDS OpticalScan, FiniteSetTheorems, TLAPS

-----------------------------------------------------------------------------
(* The caps on a frame's header, for every value of the caps.              *)

(* Rounding up gives the one k with (k - 1) * d < n <= k * d: the relation  *)
(* both walls ask of k, blockLen and totalLen.                              *)
LEMMA CeilLemma ==
  ASSUME NEW n \in Nat \ {0}, NEW d \in Nat \ {0}
  PROVE  /\ CeilDiv(n, d) \in Nat \ {0}
         /\ n <= CeilDiv(n, d) * d
         /\ n > (CeilDiv(n, d) - 1) * d
<1> DEFINE q == CeilDiv(n, d)
<1>1. q \in Int /\ d * q <= n + d - 1 /\ n + d - 1 < d * (q + 1)
  BY SMTT(30) DEF CeilDiv
<1> HIDE DEF q
<1>2. q \in Nat \ {0}
  BY <1>1, SMTT(60)
<1>3. n <= q * d /\ n > (q - 1) * d
  BY <1>1, SMTT(60)
<1> QED BY <1>2, <1>3 DEF q

(* optical.ts:25-27: the caps are written out in two places, and both must  *)
(* pass before a decoder exists. They draw the same line on every header a  *)
(* frame can declare, so neither wall lets through what the other stops.    *)
THEOREM WallsAgree ==
  ASSUME NEW k \in Nat, NEW block \in Nat, NEW total \in Nat
  PROVE  LET h == [k |-> k, blockLen |-> block, totalLen |-> total]
         IN  ParseAccepts(h) <=> HeaderAccepts(h)
<1> DEFINE h == [k |-> k, blockLen |-> block, totalLen |-> total]
           below == (k - 1) * block
           full == k * block
<1>1. below \in Int /\ full \in Int
  OBVIOUS
<1>2. MaxK \in Nat /\ MaxBlockLen \in Nat /\ MaxTotalLen \in Nat
  BY SizesAssumption
<1>3. ParseAccepts(h) <=> /\ k # 0 /\ block # 0 /\ total # 0
                          /\ k <= MaxK /\ block <= MaxBlockLen /\ total <= MaxTotalLen
                          /\ total <= full /\ total > below
  BY DEF ParseAccepts
<1>4. HeaderAccepts(h) <=> /\ k \in 1 .. MaxK /\ block \in 1 .. MaxBlockLen
                           /\ total \in 1 .. MaxTotalLen
                           /\ total <= full /\ ~(total <= below)
  BY DEF HeaderAccepts
<1> HIDE DEF below, full, h
<1>5. ParseAccepts(h) <=> HeaderAccepts(h)
  BY <1>1, <1>2, <1>3, <1>4
<1> QED BY <1>5 DEF h

(* Whatever buildFrameStream agrees to encode, at whichever block length,   *)
(* the receiver agrees to decode.                                           *)
THEOREM SentIsRead ==
  ASSUME NEW total, NEW block, Encodable(total, block)
  PROVE  ParseAccepts(Shape(total, block)) /\ HeaderAccepts(Shape(total, block))
<1> DEFINE k == CeilDiv(total, block)
<1>1. total \in Nat \ {0} /\ total <= MaxTotalLen /\ block \in Nat \ {0}
      /\ block <= MaxBlockLen /\ k <= MaxK
  BY SizesAssumption DEF Encodable
<1>2. k \in Nat \ {0} /\ total <= k * block /\ total > (k - 1) * block
  BY <1>1, CeilLemma
<1> HIDE DEF k
<1>3. LET h == [k |-> k, blockLen |-> block, totalLen |-> total]
      IN  ParseAccepts(h)
  BY <1>1, <1>2 DEF ParseAccepts
<1>4. LET h == [k |-> k, blockLen |-> block, totalLen |-> total]
      IN  HeaderAccepts(h)
  BY <1>1, <1>2, <1>3, WallsAgree
<1> QED BY <1>3, <1>4 DEF Shape, k

-----------------------------------------------------------------------------
Fields == {"at", "try", "screen", "stopped", "gen", "loop", "lit", "pool",
           "receiver", "emitted"}

\* A scanner's record; what is in its pool, receiver and memory does not matter.
Shaped(c) ==
  /\ c = [f \in Fields |-> c[f]]
  /\ c.stopped \in BOOLEAN /\ c.lit \in BOOLEAN

Dark(c) == ~c.lit /\ c.pool = <<>> /\ c.receiver = Unlocked /\ c.emitted = <<>>

Waiting == {"asking", "focusing", "playing", "live"}

Alive(s) == sc[s].at \in Waiting /\ ~sc[s].stopped

Owned(s) == held = s /\ screen = sc[s].screen

LateBefore(s) == \E t \in 1 .. s - 1 : sc[t].at = "late"

Shapes ==
  /\ sc = [s \in Scanner |-> sc[s]]
  /\ \A s \in Scanner : Shaped(sc[s])

\* One scanner alone: dark when stopped, blank before it is made, and lit only
\* from the grant on, while its start() or its loop goes on.
Sound(c) ==
  /\ c.stopped => Dark(c)
  /\ c.at = "unborn" => c = Unborn
  /\ c.lit => c.at \in Waiting \ {"asking"}

\* Scanners are made in order, and app.scanner is the last or none.
Order ==
  /\ held # None => held \in Scanner /\ sc[held].at # "unborn"
  /\ \A s \in Scanner : sc[s].at # "unborn" => held = None \/ s <= held

AliveIsOwned == \A s \in Scanner : Alive(s) => Owned(s) \/ LateBefore(s)

CameraInv ==
  /\ Shapes
  /\ \A s \in Scanner : Sound(sc[s])
  /\ Order
  /\ AliveIsOwned

-----------------------------------------------------------------------------
(* stop() leaves a scanner dark, wherever its start() is.                   *)
LEMMA StopLemma ==
  ASSUME NEW c, Shaped(c)
  PROVE  /\ Shaped(Stopped(c)) /\ Dark(Stopped(c)) /\ Stopped(c).stopped
         /\ Stopped(c).at = c.at /\ Stopped(c).screen = c.screen
  BY DEF Shaped, Stopped, Dark, Fields

(* A step of one scanner that has been made: the others stay as they are,   *)
(* and an attempt that failed late stays so.                                *)
LEMMA OneScanner ==
  ASSUME CameraInv, NEW s \in Scanner, NEW c, Shaped(c), Sound(c),
         sc' = [sc EXCEPT ![s] = c],
         sc[s].at # "unborn", c.at # "unborn", c.screen = sc[s].screen,
         sc[s].at = "late" => c.at = "late"
  PROVE  /\ Shapes'
         /\ \A t \in Scanner : Sound(sc'[t])
         /\ sc'[s] = c
         /\ \A t \in Scanner : t # s => sc'[t] = sc[t]
         /\ \A t \in Scanner : sc'[t].screen = sc[t].screen
         /\ \A t \in Scanner : (sc'[t].at = "unborn") <=> (sc[t].at = "unborn")
         /\ \A t \in Scanner : LateBefore(t) => LateBefore(t)'
<1>1. sc'[s] = c /\ \A t \in Scanner : t # s => sc'[t] = sc[t]
  BY DEF CameraInv, Shapes
<1>2. Shapes'
  <2>1. sc' = [t \in Scanner |-> sc'[t]]
    BY DEF CameraInv, Shapes
  <2> QED BY <1>1, <2>1 DEF CameraInv, Shapes
<1>3. \A t \in Scanner : Sound(sc'[t])
  BY <1>1 DEF CameraInv
<1>4. \A t \in Scanner : sc[t].at = "late" => sc'[t].at = "late"
  BY <1>1
<1>5. \A t \in Scanner : LateBefore(t) => LateBefore(t)'
  <2> SUFFICES ASSUME NEW t \in Scanner, LateBefore(t) PROVE LateBefore(t)'
    OBVIOUS
  <2>1. PICK u \in 1 .. t - 1 : sc[u].at = "late"
    BY DEF LateBefore
  <2>2. u \in Scanner
    BY ScanAssumption DEF Scanner
  <2> QED BY <2>1, <2>2, <1>4 DEF LateBefore
<1> QED BY <1>1, <1>2, <1>3, <1>5

(* Such a step leaves the camera owned when it leaves the app alone and     *)
(* brings nothing to life.                                                  *)
LEMMA AppAlone ==
  ASSUME CameraInv, NEW s \in Scanner, NEW c, Shaped(c), Sound(c),
         sc' = [sc EXCEPT ![s] = c],
         sc[s].at # "unborn", c.at # "unborn", c.screen = sc[s].screen,
         sc[s].at = "late" => c.at = "late",
         c.at \in Waiting /\ ~c.stopped => Alive(s),
         UNCHANGED <<screen, held>>
  PROVE  CameraInv'
<1>1. /\ Shapes'
      /\ \A t \in Scanner : Sound(sc'[t])
      /\ sc'[s] = c
      /\ \A t \in Scanner : t # s => sc'[t] = sc[t]
      /\ \A t \in Scanner : sc'[t].screen = sc[t].screen
      /\ \A t \in Scanner : (sc'[t].at = "unborn") <=> (sc[t].at = "unborn")
      /\ \A t \in Scanner : LateBefore(t) => LateBefore(t)'
  BY OneScanner
<1>2. Order'
  BY <1>1 DEF CameraInv, Order
<1>3. AliveIsOwned'
  <2> SUFFICES ASSUME NEW t \in Scanner, Alive(t)' PROVE Owned(t)' \/ LateBefore(t)'
    BY DEF AliveIsOwned
  <2>1. Alive(t)
    BY <1>1 DEF Alive
  <2>2. Owned(t) \/ LateBefore(t)
    BY <2>1 DEF CameraInv, AliveIsOwned
  <2> QED BY <1>1, <2>2 DEF Owned
<1> QED BY <1>1, <1>2, <1>3 DEF CameraInv

(* When start() throws, whatever the reason, the catch lets go of           *)
(* app.scanner. That is its own scanner, or it had been stopped and is late *)
(* from then on.                                                            *)
LEMMA ThrowLemma ==
  ASSUME CameraInv, NEW s \in Scanner, NEW c, NEW kind,
         sc[s].at \in Waiting,
         c = sc[s] \/ c = Stopped(sc[s]), ~c.lit,
         Threw(s, c), Caught(s, kind)
  PROVE  CameraInv'
<1> DEFINE d == [c EXCEPT !.at = IF sc[s].stopped THEN "late" ELSE "failed"]
<1>1. Shaped(sc[s]) /\ Sound(sc[s])
  BY DEF CameraInv, Shapes
<1>2. Shaped(c) /\ c.screen = sc[s].screen /\ (c.stopped => Dark(c))
  BY <1>1, StopLemma DEF Sound
<1>3. /\ Shaped(d) /\ d.screen = sc[s].screen /\ ~d.lit
      /\ d.stopped => Dark(d)
      /\ d.at = IF sc[s].stopped THEN "late" ELSE "failed"
  BY <1>2 DEF Shaped, Dark, Fields
<1>4. Sound(d) /\ d.at # "unborn" /\ d.at \notin Waiting
  BY <1>3 DEF Sound, Waiting
<1>5. sc' = [sc EXCEPT ![s] = d] /\ sc[s].at # "unborn" /\ sc[s].at # "late"
  BY DEF Threw, Waiting
<1> HIDE DEF d
<1>6. /\ Shapes'
      /\ \A t \in Scanner : Sound(sc'[t])
      /\ sc'[s] = d
      /\ \A t \in Scanner : t # s => sc'[t] = sc[t]
      /\ \A t \in Scanner : sc'[t].screen = sc[t].screen
      /\ \A t \in Scanner : (sc'[t].at = "unborn") <=> (sc[t].at = "unborn")
      /\ \A t \in Scanner : LateBefore(t) => LateBefore(t)'
  BY <1>3, <1>4, <1>5, OneScanner
<1>7. held' = None /\ screen' = screen
  BY DEF Caught
<1>8. Order'
  BY <1>6, <1>7 DEF Order
<1>9. AliveIsOwned'
  <2> SUFFICES ASSUME NEW t \in Scanner, Alive(t)' PROVE LateBefore(t)'
    BY DEF AliveIsOwned
  <2>1. t # s /\ Alive(t)
    BY <1>4, <1>6 DEF Alive
  <2>2. CASE LateBefore(t)
    BY <2>2, <1>6
  <2>3. CASE ~LateBefore(t)
    <3>1. held = t
      BY <2>1, <2>3 DEF CameraInv, AliveIsOwned, Owned
    <3>2. s <= t /\ t # None
      BY <1>5, <3>1 DEF CameraInv, Order, Scanner, None
    <3>3. s < t
      BY <2>1, <3>2 DEF Scanner
    <3>4. CASE sc[s].stopped
      <4>1. sc'[s].at = "late"
        BY <1>3, <1>6, <3>4
      <4>2. s \in 1 .. t - 1
        BY <3>3, ScanAssumption DEF Scanner
      <4> QED BY <4>1, <4>2 DEF LateBefore
    <3>5. CASE ~sc[s].stopped
      <4>1. Owned(s) \/ LateBefore(s)
        BY <3>5 DEF CameraInv, AliveIsOwned, Alive
      <4>2. ~Owned(s)
        BY <3>1, <2>1 DEF Owned
      <4>3. LateBefore(t)
        BY <4>1, <4>2, <3>3, ScanAssumption DEF LateBefore, Scanner
      <4> QED BY <4>3, <2>3
    <3> QED BY <3>4, <3>5
  <2> QED BY <2>2, <2>3
<1> QED BY <1>6, <1>8, <1>9 DEF CameraInv

-----------------------------------------------------------------------------
(* teardownOptics: app.scanner goes dark, the others stay as they are.      *)
LEMMA TornDownLemma ==
  ASSUME CameraInv
  PROVE  /\ TornDown = [s \in Scanner |-> TornDown[s]]
         /\ \A s \in Scanner :
              /\ TornDown[s] = IF s = held THEN Stopped(sc[s]) ELSE sc[s]
              /\ Shaped(TornDown[s]) /\ Sound(TornDown[s])
              /\ TornDown[s].at = sc[s].at /\ TornDown[s].screen = sc[s].screen
              /\ s = held => TornDown[s].stopped
<1>1. None \notin Scanner
  BY DEF Scanner, None
<1>2. /\ TornDown = [s \in Scanner |-> TornDown[s]]
      /\ \A s \in Scanner : TornDown[s] = IF s = held THEN Stopped(sc[s]) ELSE sc[s]
  BY <1>1 DEF TornDown, CameraInv, Shapes, Order
<1>3. ASSUME NEW s \in Scanner
      PROVE  /\ Shaped(TornDown[s]) /\ Sound(TornDown[s])
             /\ TornDown[s].at = sc[s].at /\ TornDown[s].screen = sc[s].screen
             /\ s = held => TornDown[s].stopped
  <2>1. Shaped(sc[s]) /\ Sound(sc[s])
    BY DEF CameraInv, Shapes
  <2>2. CASE s # held
    BY <1>2, <2>1, <2>2
  <2>3. CASE s = held
    <3>1. sc[s].at # "unborn"
      BY <1>1, <2>3 DEF CameraInv, Order
    <3>2. /\ Shaped(Stopped(sc[s])) /\ Dark(Stopped(sc[s])) /\ Stopped(sc[s]).stopped
          /\ Stopped(sc[s]).at = sc[s].at /\ Stopped(sc[s]).screen = sc[s].screen
      BY <2>1, StopLemma
    <3>3. Sound(Stopped(sc[s]))
      BY <3>1, <3>2 DEF Sound, Dark
    <3> QED BY <1>2, <2>3, <3>2, <3>3
  <2> QED BY <2>2, <2>3
<1> QED BY <1>2, <1>3

(* A scanner that is stopped, and held before, is alive no more; the rest   *)
(* of the living have a late attempt before them.                           *)
LEMMA LeaveLemma == CameraInv /\ Leave => CameraInv'
<1> SUFFICES ASSUME CameraInv, Leave PROVE CameraInv'
  OBVIOUS
<1>1. sc' = TornDown /\ held' = None /\ screen' = None
  BY DEF Leave
<1>2. /\ TornDown = [s \in Scanner |-> TornDown[s]]
      /\ \A s \in Scanner :
           /\ TornDown[s] = IF s = held THEN Stopped(sc[s]) ELSE sc[s]
           /\ Shaped(TornDown[s]) /\ Sound(TornDown[s])
           /\ TornDown[s].at = sc[s].at /\ TornDown[s].screen = sc[s].screen
           /\ s = held => TornDown[s].stopped
  BY TornDownLemma
<1>3. Shapes' /\ \A s \in Scanner : Sound(sc'[s])
  BY <1>1, <1>2 DEF Shapes
<1>4. Order'
  BY <1>1 DEF Order
<1>5. AliveIsOwned'
  <2> SUFFICES ASSUME NEW s \in Scanner, Alive(s)' PROVE LateBefore(s)'
    BY DEF AliveIsOwned
  <2>1. s # held /\ Alive(s)
    BY <1>1, <1>2 DEF Alive
  <2>2. LateBefore(s)
    BY <2>1 DEF CameraInv, AliveIsOwned, Owned
  <2>3. PICK t \in 1 .. s - 1 : sc[t].at = "late"
    BY <2>2 DEF LateBefore
  <2>4. t \in Scanner
    BY ScanAssumption DEF Scanner
  <2> QED BY <1>1, <1>2, <2>3, <2>4 DEF LateBefore
<1> QED BY <1>3, <1>4, <1>5 DEF CameraInv

(* The scanner begun is the last one made and the one the app holds.        *)
LEMMA BeginLemma ==
  ASSUME CameraInv, NEW s \in Scanner, NEW n, Begin(s, n)
  PROVE  CameraInv'
<1> DEFINE c == [TornDown[s] EXCEPT !.at = "asking", !.try = 1, !.screen = n]
<1>1. /\ \A t \in Scanner : (sc[t].at = "unborn") <=> (t >= s)
      /\ sc' = [TornDown EXCEPT ![s] = c]
      /\ held' = s /\ screen' = n
  BY DEF Begin
<1>2. /\ TornDown = [t \in Scanner |-> TornDown[t]]
      /\ \A t \in Scanner :
           /\ TornDown[t] = IF t = held THEN Stopped(sc[t]) ELSE sc[t]
           /\ Shaped(TornDown[t]) /\ Sound(TornDown[t])
           /\ TornDown[t].at = sc[t].at /\ TornDown[t].screen = sc[t].screen
           /\ t = held => TornDown[t].stopped
  BY TornDownLemma
<1>3. s # None /\ sc[s].at = "unborn"
  BY <1>1 DEF Scanner, None
<1>4. s # held /\ TornDown[s] = Unborn
  BY <1>2, <1>3 DEF CameraInv, Order, Sound
<1>5. /\ Shaped(c) /\ c.at = "asking" /\ c.screen = n /\ ~c.stopped /\ ~c.lit
  <2>1. ~Unborn.stopped /\ ~Unborn.lit
    BY DEF Unborn
  <2>2. Shaped(TornDown[s]) /\ ~TornDown[s].stopped /\ ~TornDown[s].lit
    BY <1>2, <1>4, <2>1
  <2> QED BY <2>2 DEF Shaped, Fields
<1>6. Sound(c)
  BY <1>5 DEF Sound
<1> HIDE DEF c
<1>7. /\ sc' = [t \in Scanner |-> sc'[t]]
      /\ sc'[s] = c
      /\ \A t \in Scanner : t # s => sc'[t] = TornDown[t]
  BY <1>1, <1>2
<1>8. Shapes' /\ \A t \in Scanner : Sound(sc'[t])
  BY <1>2, <1>5, <1>6, <1>7 DEF Shapes
<1>9. Order'
  <2>1. held' \in Scanner /\ sc'[s].at # "unborn"
    BY <1>1, <1>5, <1>7
  <2>2. ASSUME NEW t \in Scanner, sc'[t].at # "unborn" PROVE t <= s
    BY <1>1, <1>2, <1>7, <2>2 DEF Scanner
  <2> QED BY <1>1, <2>1, <2>2 DEF Order
<1>10. AliveIsOwned'
  <2> SUFFICES ASSUME NEW t \in Scanner, Alive(t)' PROVE Owned(t)' \/ LateBefore(t)'
    BY DEF AliveIsOwned
  <2>1. CASE t = s
    BY <1>1, <1>5, <1>7, <2>1 DEF Owned
  <2>2. CASE t # s
    <3>1. t # held /\ Alive(t)
      BY <1>2, <1>7, <2>2 DEF Alive
    <3>2. LateBefore(t)
      BY <3>1 DEF CameraInv, AliveIsOwned, Owned
    <3>3. PICK u \in 1 .. t - 1 : sc[u].at = "late"
      BY <3>2 DEF LateBefore
    <3>4. u \in Scanner /\ u # s
      BY <1>3, <3>3, ScanAssumption DEF Scanner
    <3>5. sc'[u].at = "late"
      BY <1>2, <1>7, <3>3, <3>4
    <3> QED BY <3>3, <3>5 DEF LateBefore
  <2> QED BY <2>1, <2>2
<1> QED BY <1>8, <1>9, <1>10 DEF CameraInv

-----------------------------------------------------------------------------
(* What is read touches only a scanner that has workers, so one that runs.  *)
LEMMA ReadLemma ==
  ASSUME CameraInv, NEW s \in Scanner, NEW pool, NEW receiver, NEW emitted,
         sc[s].pool # <<>>, UNCHANGED <<screen, held>>,
         \/ sc' = [sc EXCEPT ![s].pool = pool]
         \/ sc' = [sc EXCEPT ![s].pool = pool, ![s].receiver = receiver,
                             ![s].emitted = emitted]
  PROVE  CameraInv'
<1>1. Shaped(sc[s]) /\ Sound(sc[s])
  BY DEF CameraInv, Shapes
<1>2. Unborn.pool = <<>>
  BY DEF Unborn
<1>3. sc[s].at # "unborn" /\ ~sc[s].stopped
  BY <1>1, <1>2 DEF Sound, Dark
<1>4. ASSUME NEW c, Shaped(c), c.at = sc[s].at, c.screen = sc[s].screen,
             c.stopped = sc[s].stopped, c.lit = sc[s].lit, sc' = [sc EXCEPT ![s] = c]
      PROVE  CameraInv'
  <2>1. Sound(c) /\ (c.at \in Waiting /\ ~c.stopped => Alive(s))
    BY <1>1, <1>3, <1>4 DEF Sound, Alive
  <2> QED BY <1>3, <1>4, <2>1, AppAlone
<1>5. CASE sc' = [sc EXCEPT ![s].pool = pool]
  <2> DEFINE c == [sc[s] EXCEPT !.pool = pool]
  <2>1. /\ Shaped(c) /\ c.at = sc[s].at /\ c.screen = sc[s].screen
        /\ c.stopped = sc[s].stopped /\ c.lit = sc[s].lit
    BY <1>1 DEF Shaped, Fields
  <2>2. sc' = [sc EXCEPT ![s] = c]
    BY <1>5
  <2> HIDE DEF c
  <2> QED BY <1>4, <2>1, <2>2
<1>6. CASE sc' = [sc EXCEPT ![s].pool = pool, ![s].receiver = receiver,
                            ![s].emitted = emitted]
  <2> DEFINE c == [sc[s] EXCEPT !.pool = pool, !.receiver = receiver, !.emitted = emitted]
  <2>1. /\ Shaped(c) /\ c.at = sc[s].at /\ c.screen = sc[s].screen
        /\ c.stopped = sc[s].stopped /\ c.lit = sc[s].lit
    BY <1>1 DEF Shaped, Fields
  <2>2. sc' = [sc EXCEPT ![s] = c]
    BY <1>6
  <2> HIDE DEF c
  <2> QED BY <1>4, <2>1, <2>2
<1> QED BY <1>5, <1>6

(* The steps of one scanner.                                                *)
LEMMA ScannerLemma ==
  ASSUME CameraInv, NEW s \in Scanner,
         Granted(s) \/ Refused(s) \/ Focused(s) \/ Played(s) \/ Tick(s)
           \/ \E i \in Slot : Decoded(s, i)
  PROVE  CameraInv'
<1>1. Shaped(sc[s]) /\ Sound(sc[s])
  BY DEF CameraInv, Shapes
<1>2. sc[s].at \in Waiting => (Alive(s) <=> ~sc[s].stopped)
  BY DEF Alive
<1>3. Stopped(sc[s]).lit = FALSE
  BY <1>1, StopLemma DEF Dark
<1>4. CASE Granted(s)
  <2>1. sc[s].at = "asking" /\ sc[s].at \in Waiting
    BY <1>4 DEF Granted, Waiting
  <2>2. ASSUME NEW next \in {"focusing", "playing"}, ~sc[s].stopped,
               sc' = [sc EXCEPT ![s].at = next, ![s].lit = TRUE],
               UNCHANGED <<screen, held>>
        PROVE  CameraInv'
    <3> DEFINE c == [sc[s] EXCEPT !.at = next, !.lit = TRUE]
    <3>1. Shaped(c) /\ c.at = next /\ ~c.stopped /\ c.screen = sc[s].screen
      BY <1>1, <2>2 DEF Shaped, Fields
    <3>2. Sound(c) /\ c.at # "unborn"
      BY <3>1 DEF Sound, Waiting
    <3>3. sc' = [sc EXCEPT ![s] = c]
      BY <2>2
    <3> HIDE DEF c
    <3> QED BY <1>2, <2>1, <2>2, <3>1, <3>2, <3>3, AppAlone
  <2>3. CASE ~sc[s].stopped /\ Threw(s, Stopped(sc[s])) /\ Caught(s, "no-camera")
    BY <1>3, <2>1, <2>3, ThrowLemma
  <2>4. CASE sc[s].stopped /\ Threw(s, sc[s]) /\ Caught(s, "unknown")
    BY <1>1, <2>1, <2>4, ThrowLemma DEF Sound, Dark
  <2> QED BY <1>4, <2>2, <2>3, <2>4 DEF Granted
<1>5. CASE Refused(s)
  <2>1. sc[s].at = "asking" /\ sc[s].at \in Waiting
    BY <1>5 DEF Refused, Waiting
  <2>2. ~sc[s].lit
    BY <1>1, <2>1 DEF Sound
  <2>3. ASSUME NEW kind, Threw(s, sc[s]), Caught(s, kind) PROVE CameraInv'
    BY <2>1, <2>2, <2>3, ThrowLemma
  <2>4. ASSUME sc' = [sc EXCEPT ![s].try = @ + 1], UNCHANGED <<screen, held>>
        PROVE  CameraInv'
    <3> DEFINE c == [sc[s] EXCEPT !.try = sc[s].try + 1]
    <3>1. /\ Shaped(c) /\ c.at = "asking" /\ c.screen = sc[s].screen
          /\ c.stopped = sc[s].stopped /\ ~c.lit /\ c.pool = sc[s].pool
          /\ c.receiver = sc[s].receiver /\ c.emitted = sc[s].emitted
      BY <1>1, <2>1, <2>2 DEF Shaped, Fields
    <3>2. Sound(c)
      BY <1>1, <3>1 DEF Sound, Dark
    <3>3. sc' = [sc EXCEPT ![s] = c]
      BY <2>4
    <3> HIDE DEF c
    <3> QED BY <1>2, <2>1, <2>4, <3>1, <3>2, <3>3, AppAlone
  <2> QED BY <1>5, <2>3, <2>4 DEF Refused
<1>6. CASE Focused(s)
  <2> DEFINE c == [sc[s] EXCEPT !.at = "playing"]
  <2>1. sc[s].at = "focusing" /\ sc[s].at \in Waiting
    BY <1>6 DEF Focused, Waiting
  <2>2. /\ Shaped(c) /\ c.at = "playing" /\ c.screen = sc[s].screen
        /\ c.stopped = sc[s].stopped /\ c.lit = sc[s].lit /\ c.pool = sc[s].pool
        /\ c.receiver = sc[s].receiver /\ c.emitted = sc[s].emitted
    BY <1>1 DEF Shaped, Fields
  <2>3. Sound(c) /\ c.at \in Waiting
    BY <1>1, <2>2 DEF Sound, Dark, Waiting
  <2>4. sc' = [sc EXCEPT ![s] = c] /\ UNCHANGED <<screen, held>>
    BY <1>6 DEF Focused
  <2> HIDE DEF c
  <2> QED BY <1>2, <2>1, <2>2, <2>3, <2>4, AppAlone
<1>7. CASE Played(s)
  <2>1. sc[s].at = "playing" /\ sc[s].at \in Waiting
    BY <1>7 DEF Played, Waiting
  <2>2. ASSUME ~sc[s].stopped, UNCHANGED <<screen, held>>,
               sc' = [sc EXCEPT ![s].at = "live", ![s].pool = [i \in Slot |-> Nothing],
                                ![s].gen = @ + 1, ![s].loop = sc[s].gen + 1]
        PROVE  CameraInv'
    <3> DEFINE c == [sc[s] EXCEPT !.at = "live", !.pool = [i \in Slot |-> Nothing],
                                  !.gen = @ + 1, !.loop = sc[s].gen + 1]
    <3>1. Shaped(c) /\ c.at = "live" /\ ~c.stopped /\ c.screen = sc[s].screen
      BY <1>1, <2>2 DEF Shaped, Fields
    <3>2. Sound(c)
      BY <3>1 DEF Sound, Waiting
    <3>3. sc' = [sc EXCEPT ![s] = c]
      BY <2>2
    <3> HIDE DEF c
    <3> QED BY <1>2, <2>1, <2>2, <3>1, <3>2, <3>3, AppAlone
  <2>3. CASE Threw(s, Stopped(sc[s])) /\ Caught(s, "unknown")
    BY <1>3, <2>1, <2>3, ThrowLemma
  <2> QED BY <1>7, <2>2, <2>3 DEF Played
<1>8. CASE Tick(s)
  <2>1. CASE UNCHANGED sc
    BY <1>8, <2>1 DEF Tick, CameraInv, Shapes, Order, AliveIsOwned, Alive, Owned, LateBefore
  <2>2. ASSUME NEW c, Shaped(c), c.at = sc[s].at, c.screen = sc[s].screen,
               c.stopped = sc[s].stopped, c.lit = sc[s].lit, Sound(c),
               sc[s].at # "unborn", sc' = [sc EXCEPT ![s] = c]
        PROVE  CameraInv'
    BY <1>2, <1>8, <2>2, AppAlone DEF Tick
  <2>3. CASE sc' = [sc EXCEPT ![s].loop = 0]
    <3> DEFINE c == [sc[s] EXCEPT !.loop = 0]
    <3>1. sc[s].loop # 0 /\ Unborn.loop = 0
      BY <1>8 DEF Tick, Unborn
    <3>2. sc[s].at # "unborn"
      BY <1>1, <3>1 DEF Sound
    <3>3. /\ Shaped(c) /\ c.at = sc[s].at /\ c.screen = sc[s].screen
          /\ c.stopped = sc[s].stopped /\ c.lit = sc[s].lit /\ c.pool = sc[s].pool
          /\ c.receiver = sc[s].receiver /\ c.emitted = sc[s].emitted
      BY <1>1 DEF Shaped, Fields
    <3>4. Sound(c)
      BY <1>1, <3>2, <3>3 DEF Sound, Dark
    <3>5. sc' = [sc EXCEPT ![s] = c]
      BY <2>3
    <3> HIDE DEF c
    <3> QED BY <2>2, <3>2, <3>3, <3>4, <3>5
  <2>4. ASSUME NEW f \in Visible, sc[s].pool # <<>>,
               sc' = [sc EXCEPT ![s].pool = Submitted(@, f)]
        PROVE  CameraInv'
    <3>1. sc' = [sc EXCEPT ![s].pool = Submitted(sc[s].pool, f)]
      BY <2>4
    <3> QED BY <1>8, <2>4, <3>1, ReadLemma DEF Tick
  <2> QED BY <1>8, <2>1, <2>3, <2>4 DEF Tick
<1>9. CASE \E i \in Slot : Decoded(s, i)
  <2>1. PICK i \in Slot : Decoded(s, i)
    BY <1>9
  <2> DEFINE freed == [sc[s].pool EXCEPT ![i] = Nothing]
             r == Feed(sc[s].receiver, sc[s].pool[i])
             longer == Emitted(sc[s].emitted, r.payload)
  <2>2. /\ sc[s].pool # <<>> /\ UNCHANGED <<screen, held>>
        /\ \/ sc' = [sc EXCEPT ![s].pool = freed]
           \/ sc' = [sc EXCEPT ![s].pool = freed, ![s].receiver = r, ![s].emitted = longer]
    BY <2>1 DEF Decoded
  <2> HIDE DEF freed, r, longer
  <2> QED BY <2>2, ReadLemma
<1> QED BY <1>4, <1>5, <1>6, <1>7, <1>8, <1>9

-----------------------------------------------------------------------------
LEMMA CameraInductive == Spec => []CameraInv
<1>1. Init => CameraInv
  <2> SUFFICES ASSUME Init PROVE CameraInv
    OBVIOUS
  <2>1. \A s \in Scanner : sc[s] = Unborn
    BY DEF Init
  <2>2. Shaped(Unborn) /\ Sound(Unborn) /\ Unborn.at = "unborn"
    BY DEF Shaped, Sound, Fields, Unborn
  <2>3. Shapes
    BY <2>1, <2>2 DEF Init, Shapes
  <2>4. Order /\ AliveIsOwned
    BY <2>1, <2>2 DEF Init, Order, AliveIsOwned, Alive, Waiting
  <2> QED BY <2>1, <2>2, <2>3, <2>4 DEF CameraInv
<1>2. CameraInv /\ [Next]_vars => CameraInv'
  <2> SUFFICES ASSUME CameraInv, [Next]_vars PROVE CameraInv'
    OBVIOUS
  <2>1. CASE Leave
    BY <2>1, LeaveLemma
  <2>2. ASSUME NEW s \in Scanner, OpenScan(s) \/ Retry(s) PROVE CameraInv'
    BY <2>2, BeginLemma DEF OpenScan, Retry
  <2>3. ASSUME NEW s \in Scanner, Granted(s) \/ Refused(s) \/ Focused(s) \/ Played(s)
        PROVE  CameraInv'
    BY <2>3, ScannerLemma
  <2>4. ASSUME NEW s \in Scanner, Tick(s) \/ \E i \in Slot : Decoded(s, i)
        PROVE  CameraInv'
    BY <2>4, ScannerLemma
  <2>5. CASE UNCHANGED vars
    BY <2>5 DEF vars, CameraInv, Shapes, Order, AliveIsOwned, Alive, Owned, LateBefore
  <2> QED BY <2>1, <2>2, <2>3, <2>4, <2>5 DEF Next, App, Camera, Reading
<1> QED BY <1>1, <1>2, PTL DEF Spec

(* A stopped scanner holds nothing, whichever await the stop finds it in    *)
(* (camera.ts:136-140, 172): a grant that comes later is given back,        *)
(* and the loop and the workers belong only to one that was not stopped.    *)
THEOREM StoppedDark == Spec => []StoppedIsDark
<1>1. CameraInv => StoppedIsDark
  BY DEF CameraInv, Sound, Dark, StoppedIsDark
<1> QED BY <1>1, CameraInductive, PTL

(* A camera that is on is the one the app would stop on leaving the screen  *)
(* (app.ts:318-320), unless an older attempt, abandoned during its prompt,  *)
(* failed late and let go of it (app.ts:502).                               *)
THEOREM LightOwned == Spec => []LightIsOwned
<1>1. CameraInv => LightIsOwned
  <2> SUFFICES ASSUME CameraInv, NEW s \in Scanner, sc[s].lit
               PROVE  Owned(s) \/ LateBefore(s)
    BY DEF LightIsOwned, Owned, LateBefore
  <2>1. Sound(sc[s]) /\ Shaped(sc[s])
    BY DEF CameraInv, Shapes
  <2>2. Alive(s)
    BY <2>1 DEF Sound, Dark, Alive
  <2> QED BY <2>2 DEF CameraInv, AliveIsOwned
<1> QED BY <1>1, CameraInductive, PTL
-----------------------------------------------------------------------------
(* The fountain decoder, for every k and every choice of indices. Its loops *)
(* are inductions over the turns taken.                                     *)

(* A set of numbers that has 0 and every successor has all of them.         *)
LEMMA EveryTurn ==
  ASSUME NEW S \in SUBSET Nat, 0 \in S, \A n \in S : n + 1 \in S
  PROVE  S = Nat
<1> DEFINE Missing == Nat \ S
           Below(x) == { y \in Missing : y <= x }
           T == { Below(x) : x \in Missing }
<1> SUFFICES ASSUME Missing # {} PROVE FALSE
  OBVIOUS
<1>1. ASSUME NEW x \in Missing, NEW y \in Missing, y < x
      PROVE  <<Below(y), Below(x)>> \in StrictSubsetOrdering(Nat)
  <2>1. x \in Nat /\ y \in Nat
    OBVIOUS
  <2>2. \A z \in Missing : z <= y => z <= x
    BY <1>1, <2>1
  <2>3. x <= x /\ ~ (x <= y)
    BY <1>1, <2>1
  <2>4. x \in Below(x) /\ x \notin Below(y)
    BY <2>3
  <2>5. Below(y) \subseteq Below(x) /\ Below(x) \subseteq Nat
    BY <2>2
  <2> HIDE DEF Below
  <2> QED
    BY <2>4, <2>5 DEF StrictSubsetOrdering
<1>2. T \subseteq FiniteSubsetsOf(Nat)
  <2> SUFFICES ASSUME NEW x \in Missing PROVE IsFiniteSet(Below(x))
    BY DEF FiniteSubsetsOf
  <2> QED
    BY FS_BoundedSetOfNaturals
<1>3. PICK L \in T : \A M \in T : ~ (<<M, L>> \in StrictSubsetOrdering(Nat))
  <2>1. T # {}
    OBVIOUS
  <2> HIDE DEF T
  <2> QED
    BY <1>2, <2>1, WFMin, FS_StrictSubsetOrderingWellFounded
<1>4. PICK x \in Missing : L = Below(x)
  OBVIOUS
<1>5. x \in Nat \ {0} /\ x - 1 \in Nat /\ x - 1 < x
  OBVIOUS
<1>6. x - 1 \notin Missing
  <2> SUFFICES ASSUME x - 1 \in Missing PROVE FALSE
    OBVIOUS
  <2>1. Below(x - 1) \in T
    OBVIOUS
  <2> HIDE DEF T, Below, Missing
  <2> QED
    BY <1>1, <1>3, <1>4, <1>5, <2>1
<1>7. (x - 1) + 1 \in S
  BY <1>5, <1>6
<1> QED
  BY <1>5, <1>7

\* One turn of resolve's loop, and a run of n turns.
Turn(d) == IF Ready(d) = {} THEN d ELSE Peel(d)

Run(d, n, g) == g = [i \in 0 .. n |-> IF i = 0 THEN d ELSE Turn(g[i - 1])]

LEMMA RunsOn == ASSUME NEW d, NEW n \in Nat PROVE \E g : Run(d, n, g)
<1> DEFINE S == { i \in Nat : \E g : Run(d, i, g) }
<1>1. 0 \in S
  <2> DEFINE g == [i \in 0 .. 0 |-> d]
  <2>1. Run(d, 0, g)
    BY DEF Run
  <2> HIDE DEF g
  <2> QED
    BY <2>1
<1>2. ASSUME NEW i \in S PROVE i + 1 \in S
  <2>1. PICK g : Run(d, i, g)
    OBVIOUS
  <2> DEFINE h == [j \in 0 .. i + 1 |-> IF j <= i THEN g[j] ELSE Turn(g[i])]
  <2>2. \A j \in 0 .. i : h[j] = g[j] /\ g[j] = IF j = 0 THEN d ELSE Turn(g[j - 1])
    BY <2>1 DEF Run
  <2>3. h[i + 1] = Turn(g[i])
    OBVIOUS
  <2>4. \A j \in 0 .. i + 1 : h[j] = IF j = 0 THEN d ELSE Turn(h[j - 1])
    <3> TAKE j \in 0 .. i + 1
    <3>1. CASE j = 0
      <4>1. 0 \in 0 .. i
        OBVIOUS
      <4> HIDE DEF h
      <4> QED
        BY <2>2, <3>1, <4>1
    <3>2. CASE j \in 1 .. i
      <4>1. j - 1 \in 0 .. i /\ j \in 0 .. i /\ j # 0
        BY <3>2
      <4> HIDE DEF h
      <4> QED
        BY <2>2, <4>1
    <3>3. CASE j = i + 1
      <4>1. j - 1 = i /\ i \in 0 .. i /\ j # 0
        BY <3>3
      <4> HIDE DEF h
      <4> QED
        BY <2>2, <2>3, <3>3, <4>1
    <3> QED
      BY <3>1, <3>2, <3>3
  <2>5. h = [j \in 0 .. i + 1 |-> h[j]]
    OBVIOUS
  <2> HIDE DEF h
  <2>6. Run(d, i + 1, h)
    BY <2>4, <2>5 DEF Run
  <2> QED
    BY <2>6
<1> HIDE DEF S
<1>3. S = Nat
  <2>1. S \in SUBSET Nat
    BY DEF S
  <2> QED
    BY <1>1, <1>2, <2>1, EveryTurn
<1> QED
  BY <1>3 DEF S

(* The cascade is the end of a run of k turns.                              *)
LEMMA PeelRuns ==
  ASSUME NEW d, NEW k \in Nat
  PROVE  \E g : /\ g[0] = d /\ PeelAll(d, k) = g[k]
                /\ \A n \in 1 .. k : g[n] = Turn(g[n - 1])
<1> DEFINE after == CHOOSE g : g = [n \in 0 .. k |->
             IF n = 0 THEN d ELSE IF Ready(g[n - 1]) = {} THEN g[n - 1] ELSE Peel(g[n - 1])]
<1>1. PeelAll(d, k) = after[k]
  BY DEF PeelAll
<1>2. Run(d, k, after)
  <2>1. \E g : Run(d, k, g)
    BY RunsOn
  <2> QED
    BY <2>1 DEF Run, Turn
<1> HIDE DEF after
<1>3. \A n \in 0 .. k : after[n] = IF n = 0 THEN d ELSE Turn(after[n - 1])
  BY <1>2 DEF Run
<1>4. after[0] = d /\ \A n \in 1 .. k : after[n] = Turn(after[n - 1])
  BY <1>3
<1> QED
  BY <1>1, <1>4

-----------------------------------------------------------------------------
(* One frame: what it holds, and what is left of it when blocks are out.    *)

\* What the blocks of S come to, mixed.
Words(p, S) == { <<p, b>> : b \in S }

\* A frame of p with the blocks of S left in it.
Piece(p, S) == [idx |-> S, words |-> Words(p, S)]

\* The blocks of S are solved, and as they are in p.
Rightly(p, known, S) == \A b \in S : known[b] = Words(p, {b})

FrameK(p) == HeaderOf(p).shape.k

LEMMA FrameShape ==
  ASSUME NEW p \in Payload
  PROVE  /\ FrameK(p) \in Nat \ {0}
         /\ Identity(HeaderOf(p)) = <<Session[p], HeaderOf(p).shape, Checksum[p]>>
         /\ HeaderOf(p).shape.totalLen = Length[p] /\ HeaderOf(p).session = Session[p]
         /\ \A q : FrameOf(p, q) = [head |-> HeaderOf(p), seq |-> q,
                                    words |-> Words(p, Indices[Session[p]][FrameK(p)][q])]
         /\ \A q \in Seq32 : Indices[Session[p]][FrameK(p)][q] \subseteq 1 .. FrameK(p)
<1> DEFINE total == Length[p]
           block == DefaultBlockLen(Length[p])
<1>1. total \in Nat \ {0}
  BY SizesAssumption
<1>2. CeilDiv(total, TargetBlocks) \in Nat
  BY <1>1, SizesAssumption, CeilLemma
<1>3. block \in Nat \ {0}
  BY <1>1, <1>2, SizesAssumption DEF DefaultBlockLen, Least, Most
<1>4. FrameK(p) = CeilDiv(total, block)
  BY DEF FrameK, HeaderOf, Shape
<1> HIDE DEF total, block
<1>5. FrameK(p) \in Nat \ {0}
  BY <1>1, <1>3, <1>4, CeilLemma
<1>6. /\ Identity(HeaderOf(p)) = <<Session[p], HeaderOf(p).shape, Checksum[p]>>
      /\ HeaderOf(p).shape.totalLen = Length[p] /\ HeaderOf(p).session = Session[p]
  BY DEF Identity, HeaderOf, Shape
<1>7. \A q : FrameOf(p, q) = [head |-> HeaderOf(p), seq |-> q,
                              words |-> Words(p, Indices[Session[p]][FrameK(p)][q])]
  BY DEF FrameOf, Encode, Words, FrameK
<1>8. \A q \in Seq32 : Indices[Session[p]][FrameK(p)][q] \subseteq 1 .. FrameK(p)
  BY StreamsAssumption DEF FrameK
<1> QED
  BY <1>5, <1>6, <1>7, <1>8

(* No two codes shown have one identity.                                    *)
LEMMA OneCode ==
  ASSUME NEW p \in Payload, NEW r \in Payload, Identity(HeaderOf(p)) = Identity(HeaderOf(r))
  PROVE  p = r
<1>1. Session[p] = Session[r] /\ HeaderOf(p).shape = HeaderOf(r).shape /\ Checksum[p] = Checksum[r]
  BY FrameShape
<1>2. Length[p] = Length[r]
  BY <1>1, FrameShape
<1> QED
  BY <1>1, <1>2, StreamsAssumption

(* Taking solved blocks out of a frame of p leaves a frame of p.            *)
LEMMA ReducedLemma ==
  ASSUME NEW p, NEW f, NEW B, NEW known, f.words = Words(p, f.idx),
         Rightly(p, known, f.idx \cap B)
  PROVE  Reduced(f, B, known) = Piece(p, f.idx \ B)
<1> DEFINE I == f.idx
           O == I \cap B
           X == Xor(Words(p, I), O, known)
           Out(x) == { b \in O : x \in known[b] }
<1>1. \A c, d : <<p, c>> \in Words(p, {d}) <=> c = d
  BY DEF Words
<1>2. \A S, c : <<p, c>> \in Words(p, S) <=> c \in S
  BY DEF Words
<1>3. \A S, x : x \in Words(p, S) => \E c \in S : x = <<p, c>>
  BY DEF Words
<1>4. \A b \in O : known[b] \subseteq Words(p, I)
  BY <1>2 DEF Words, Rightly
<1>5. \A c, b : b \in O => (b \in Out(<<p, c>>) <=> b = c)
  <2> TAKE c, b
  <2> SUFFICES ASSUME b \in O PROVE <<p, c>> \in known[b] <=> b = c
    OBVIOUS
  <2>1. known[b] = Words(p, {b})
    BY DEF Rightly
  <2> QED
    BY <1>1, <2>1
<1>6. /\ \A c \in O : Out(<<p, c>>) = {c}
      /\ \A c : c \notin O => Out(<<p, c>>) = {}
  <2>1. \A c : Out(<<p, c>>) \subseteq O
    OBVIOUS
  <2> HIDE DEF Out
  <2> QED
    BY <1>5, <2>1
<1>7. Cardinality({}) = 0 /\ \A c : Cardinality({c}) = 1
  BY FS_EmptySet, FS_Singleton
<1>8. X = { x \in Words(p, I) : Cardinality(Out(x)) % 2 = 0 }
  BY <1>4 DEF Xor
<1> HIDE DEF Out, X, O
<1>9. \A c \in I : <<p, c>> \in X <=> c \notin O
  <2> TAKE c \in I
  <2>1. <<p, c>> \in X <=> Cardinality(Out(<<p, c>>)) % 2 = 0
    BY <1>2, <1>8
  <2>2. CASE c \in O
    <3>1. Cardinality(Out(<<p, c>>)) = 1
      BY <1>6, <1>7, <2>2
    <3>2. 1 % 2 # 0
      OBVIOUS
    <3> QED
      BY <2>1, <2>2, <3>1, <3>2
  <2>3. CASE c \notin O
    <3>1. Cardinality(Out(<<p, c>>)) = 0
      BY <1>6, <1>7, <2>3
    <3>2. 0 % 2 = 0
      OBVIOUS
    <3> QED
      BY <2>1, <2>3, <3>1, <3>2
  <2> QED
    BY <2>2, <2>3
<1>10. X = Words(p, I \ B)
  <2>1. X \subseteq Words(p, I)
    BY <1>8
  <2>2. \A c \in I : c \notin O <=> c \in I \ B
    BY DEF O
  <2>3. \A x : x \in X <=> x \in Words(p, I \ B)
    <3> TAKE x
    <3>1. CASE x \in X
      <4>1. PICK c \in I : x = <<p, c>>
        BY <1>3, <2>1, <3>1
      <4> QED
        BY <1>2, <1>9, <2>2, <3>1, <4>1
    <3>2. CASE x \in Words(p, I \ B)
      <4>1. PICK c \in I \ B : x = <<p, c>>
        BY <1>3, <3>2
      <4>2. c \in I /\ c \notin O
        BY <2>2, <4>1
      <4> QED
        BY <1>9, <3>2, <4>1, <4>2
    <3> QED
      BY <3>1, <3>2
  <2> QED
    BY <2>3
<1> QED
  BY <1>10 DEF Reduced, Piece, X, O

-----------------------------------------------------------------------------
(* The decoder of a stream. *)

\* The index sets of the frames of p that were given.
Given(p, seen) == { Indices[Session[p]][FrameK(p)][q] : q \in seen }

\* All that is in d is of p.
Genuine(d, p) ==
  /\ d = [solved |-> d.solved, waiting |-> d.waiting, seen |-> d.seen]
  /\ DOMAIN d.solved \subseteq 1 .. FrameK(p)
  /\ \A b \in DOMAIN d.solved : d.solved[b] = Words(p, {b})
  /\ \A g \in d.waiting :
       /\ g = Piece(p, g.idx)
       /\ g.idx # {} /\ g.idx \subseteq 1 .. FrameK(p) /\ g.idx \cap DOMAIN d.solved = {}

\* What waits is what is left of the frames given, and whoever has all that can
\* be had from these has what is solved.
Thorough(d, G) ==
  /\ \A I \in G : I \subseteq DOMAIN d.solved \/ \E g \in d.waiting : g.idx = I \ DOMAIN d.solved
  /\ \A g \in d.waiting : \E I \in G : g.idx = I \ DOMAIN d.solved
  /\ \A B : (\A I \in G : Cardinality(I \ B) # 1) => DOMAIN d.solved \subseteq B

(* A turn of the loop solves one block more.                                *)
LEMMA PeelLemma ==
  ASSUME NEW p \in Payload, NEW d, NEW G, Genuine(d, p), Thorough(d, G), Ready(d) # {}
  PROVE  /\ Genuine(Peel(d), p) /\ Thorough(Peel(d), G) /\ Peel(d).seen = d.seen
         /\ \E b : b \notin DOMAIN d.solved /\ DOMAIN Peel(d).solved = DOMAIN d.solved \cup {b}
<1> DEFINE D == DOMAIN d.solved
           f == CHOOSE g \in Ready(d) : TRUE
           b == CHOOSE c \in f.idx : TRUE
           solved == Put(d.solved, b, f.words)
           rest == { Reduced(g, {b}, solved) : g \in d.waiting }
           waiting == { g \in rest : g.idx # {} }
           e == [solved |-> solved, waiting |-> waiting, seen |-> d.seen]
<1>1. Peel(d) = e
  <2>1. Peel(d) = [d EXCEPT !.solved = solved, !.waiting = waiting]
    BY DEF Peel
  <2>2. d = [solved |-> d.solved, waiting |-> d.waiting, seen |-> d.seen]
    BY DEF Genuine
  <2> HIDE DEF solved, waiting
  <2> QED
    BY <2>1, <2>2
<1>2. f \in d.waiting /\ Cardinality(f.idx) = 1
  BY DEF Ready
<1> HIDE DEF f
<1>3. f.words = Words(p, f.idx) /\ f.idx \subseteq 1 .. FrameK(p) /\ f.idx \cap D = {}
  <2>1. f = Piece(p, f.idx)
    BY <1>2 DEF Genuine
  <2>2. f.idx \subseteq 1 .. FrameK(p) /\ f.idx \cap D = {}
    BY <1>2 DEF Genuine
  <2> QED
    BY <2>1, <2>2 DEF Piece
<1>4. f.idx = {b}
  <2>1. IsFiniteSet(f.idx)
    <3>1. IsFiniteSet(1 .. FrameK(p))
      BY FrameShape, FS_Interval
    <3>2. f.idx \in SUBSET (1 .. FrameK(p))
      BY <1>3
    <3> QED
      BY <3>1, <3>2, FS_Subset
  <2>2. \E c : f.idx = {c}
    BY <1>2, <2>1, FS_Singleton
  <2> QED
    BY <2>2
<1>5. b \in 1 .. FrameK(p) /\ b \notin D /\ f.words = Words(p, {b})
  BY <1>3, <1>4
<1> HIDE DEF b
<1>6. DOMAIN solved = D \cup {b} /\ \A c \in D \cup {b} : solved[c] = Words(p, {c})
  BY <1>5 DEF Put, Genuine
<1> HIDE DEF solved
<1>7. \A g \in d.waiting : Reduced(g, {b}, solved) = Piece(p, g.idx \ {b})
  <2> TAKE g \in d.waiting
  <2>1. g = Piece(p, g.idx) /\ g.words = Words(p, g.idx)
    BY DEF Genuine, Piece
  <2>2. Rightly(p, solved, g.idx \cap {b})
    BY <1>6 DEF Rightly
  <2> QED
    BY <2>1, <2>2, ReducedLemma
<1>8. waiting = { g \in { Piece(p, h.idx \ {b}) : h \in d.waiting } : g.idx # {} }
  BY <1>7
<1> HIDE DEF rest, waiting
<1>9. \A g \in waiting : /\ g = Piece(p, g.idx)
                         /\ g.idx # {}
                         /\ \E h \in d.waiting : g.idx = h.idx \ {b}
  <2> TAKE g \in waiting
  <2>1. PICK h \in d.waiting : g = Piece(p, h.idx \ {b})
    BY <1>8
  <2>2. g.idx # {}
    BY <1>8
  <2> QED
    BY <2>1, <2>2 DEF Piece
<1>10. \A h \in d.waiting : h.idx \ {b} # {} => \E g \in waiting : g.idx = h.idx \ {b}
  <2> TAKE h \in d.waiting
  <2> DEFINE g == Piece(p, h.idx \ {b})
  <2>1. g.idx = h.idx \ {b}
    BY DEF Piece
  <2> HIDE DEF g
  <2>2. g \in { Piece(p, i.idx \ {b}) : i \in d.waiting }
    BY DEF g
  <2> QED
    BY <1>8, <2>1, <2>2
<1>11. Genuine(e, p)
  <2>1. \A g \in waiting : g.idx \subseteq 1 .. FrameK(p) /\ g.idx \cap (D \cup {b}) = {}
    BY <1>9 DEF Genuine
  <2>2. D \cup {b} \subseteq 1 .. FrameK(p)
    BY <1>5 DEF Genuine
  <2> QED
    BY <1>6, <1>9, <2>1, <2>2 DEF Genuine
<1>12. Thorough(e, G)
  <2>1. ASSUME NEW I \in G
        PROVE  I \subseteq D \cup {b} \/ \E g \in waiting : g.idx = I \ (D \cup {b})
    <3>1. CASE I \subseteq D
      BY <3>1
    <3>2. ASSUME NEW h \in d.waiting, h.idx = I \ D
          PROVE  I \subseteq D \cup {b} \/ \E g \in waiting : g.idx = I \ (D \cup {b})
      <4>1. h.idx \ {b} = I \ (D \cup {b})
        BY <3>2
      <4> QED
        BY <1>10, <4>1
    <3> QED
      BY <3>1, <3>2 DEF Thorough
  <2>2. ASSUME NEW g \in waiting
        PROVE  \E I \in G : g.idx = I \ (D \cup {b})
    <3>1. PICK h \in d.waiting : g.idx = h.idx \ {b}
      BY <1>9
    <3>2. PICK I \in G : h.idx = I \ D
      BY DEF Thorough
    <3>3. g.idx = I \ (D \cup {b})
      BY <3>1, <3>2
    <3> QED
      BY <3>3
  <2>3. ASSUME NEW B, \A I \in G : Cardinality(I \ B) # 1
        PROVE  D \cup {b} \subseteq B
    <3>1. D \subseteq B
      BY <2>3 DEF Thorough
    <3>2. PICK I \in G : f.idx = I \ D
      BY <1>2 DEF Thorough
    <3>3. b \notin B => I \ B = {b}
      BY <1>4, <3>1, <3>2
    <3>4. b \in B
      BY <2>3, <3>3, FS_Singleton
    <3> QED
      BY <3>1, <3>4
  <2> QED
    BY <1>6, <2>1, <2>2, <2>3 DEF Thorough
<1> QED
  BY <1>1, <1>5, <1>6, <1>11, <1>12

\* As many blocks as there are, are all of them.
LEMMA AllSolved ==
  ASSUME NEW p \in Payload, NEW d, Genuine(d, p)
  PROVE  /\ IsFiniteSet(DOMAIN d.solved) /\ Cardinality(DOMAIN d.solved) \in Nat
         /\ Complete(d, FrameK(p)) <=> DOMAIN d.solved = 1 .. FrameK(p)
<1>1. /\ FrameK(p) \in Nat \ {0} /\ IsFiniteSet(1 .. FrameK(p))
      /\ Cardinality(1 .. FrameK(p)) = FrameK(p)
  <2>1. FrameK(p) \in Nat \ {0}
    BY FrameShape
  <2>2. \A k \in Nat \ {0} : IsFiniteSet(1 .. k) /\ Cardinality(1 .. k) = k
    BY FS_Interval
  <2> QED
    BY <2>1, <2>2
<1>2. DOMAIN d.solved \in SUBSET (1 .. FrameK(p))
  BY DEF Genuine
<1>3. /\ IsFiniteSet(DOMAIN d.solved)
      /\ Cardinality(DOMAIN d.solved) <= Cardinality(1 .. FrameK(p))
      /\ Cardinality(1 .. FrameK(p)) = Cardinality(DOMAIN d.solved) => 1 .. FrameK(p) = DOMAIN d.solved
  BY <1>1, <1>2, FS_Subset
<1>4. Cardinality(DOMAIN d.solved) \in Nat
  BY <1>3, FS_CardinalityType
<1> QED
  BY <1>1, <1>3, <1>4 DEF Complete

(* The cascade solves all it can: after as many turns as there are blocks   *)
(* nothing is left to solve, or nothing is ready.                           *)
LEMMA CascadeLemma ==
  ASSUME NEW p \in Payload, NEW d, NEW G, Genuine(d, p), Thorough(d, G)
  PROVE  LET e == PeelAll(d, FrameK(p))
         IN  Genuine(e, p) /\ Thorough(e, G) /\ e.seen = d.seen /\ Ready(e) = {}
<1> DEFINE k == FrameK(p)
<1>1. k \in Nat
  BY FrameShape
<1>2. PICK g : /\ g[0] = d /\ PeelAll(d, k) = g[k]
               /\ \A n \in 1 .. k : g[n] = Turn(g[n - 1])
  <2> HIDE DEF k
  <2> QED
    BY <1>1, PeelRuns
<1> DEFINE Good(e, n) ==
             /\ Genuine(e, p) /\ Thorough(e, G) /\ e.seen = d.seen
             /\ Ready(e) = {} \/ Cardinality(DOMAIN e.solved) >= n
           S == { n \in Nat : n <= k => Good(g[n], n) }
<1>3. 0 \in S
  <2>1. Cardinality(DOMAIN d.solved) >= 0
    BY AllSolved
  <2> QED
    BY <1>2, <2>1
<1>4. ASSUME NEW n \in S PROVE n + 1 \in S
  <2> SUFFICES ASSUME n + 1 <= k PROVE Good(g[n + 1], n + 1)
    OBVIOUS
  <2>1. n \in Nat /\ n <= k /\ n + 1 \in 1 .. k
    BY <1>1
  <2>2. Good(g[n], n) /\ g[n + 1] = Turn(g[n])
    <3>1. (n + 1) - 1 = n
      BY <2>1
    <3> QED
      BY <1>2, <2>1, <3>1
  <2>3. CASE Ready(g[n]) = {}
    BY <2>2, <2>3 DEF Turn
  <2>4. CASE Ready(g[n]) # {}
    <3>1. g[n + 1] = Peel(g[n])
      BY <2>2, <2>4 DEF Turn
    <3>2. /\ Genuine(g[n + 1], p) /\ Thorough(g[n + 1], G) /\ g[n + 1].seen = d.seen
          /\ \E b : b \notin DOMAIN g[n].solved
                    /\ DOMAIN g[n + 1].solved = DOMAIN g[n].solved \cup {b}
      BY <2>2, <2>4, <3>1, PeelLemma
    <3>3. /\ IsFiniteSet(DOMAIN g[n].solved) /\ Cardinality(DOMAIN g[n].solved) \in Nat
          /\ Cardinality(DOMAIN g[n].solved) >= n
      BY <2>2, <2>4, AllSolved
    <3>4. Cardinality(DOMAIN g[n + 1].solved) = Cardinality(DOMAIN g[n].solved) + 1
      BY <3>2, <3>3, FS_AddElement
    <3> QED
      BY <2>1, <3>2, <3>3, <3>4
  <2> QED
    BY <2>3, <2>4
<1>5. k \in S
  <2>1. S \in SUBSET Nat
    OBVIOUS
  <2> HIDE DEF S, k
  <2>2. S = Nat
    BY <1>3, <1>4, <2>1, EveryTurn
  <2> QED
    BY <1>1, <2>2
<1>6. Good(g[k], k)
  BY <1>1, <1>5
<1>7. Ready(g[k]) = {}
  <2> SUFFICES ASSUME Cardinality(DOMAIN g[k].solved) >= k PROVE Ready(g[k]) = {}
    BY <1>6
  <2>1. DOMAIN g[k].solved = 1 .. k
    BY <1>6, AllSolved DEF Complete
  <2>2. g[k].waiting = {}
    BY <1>6, <2>1 DEF Genuine
  <2> QED
    BY <2>2 DEF Ready
<1> QED
  BY <1>2, <1>6, <1>7

\* A decoder between two frames of p.
Settled(d, p) ==
  /\ Genuine(d, p)
  /\ d.seen \subseteq Seq32
  /\ Thorough(d, Given(p, d.seen))
  /\ Ready(d) = {}

LEMMA AddFrameLemma ==
  ASSUME NEW p \in Payload, NEW q \in Seq32, NEW d, Settled(d, p)
  PROVE  Settled(AddFrame(d, FrameOf(p, q)), p)
<1> DEFINE k == FrameK(p)
           D == DOMAIN d.solved
           I == Indices[Session[p]][k][q]
           G == Given(p, d.seen)
           seen == d.seen \cup {q}
           fresh == [solved |-> d.solved, waiting |-> d.waiting, seen |-> seen]
           left == Piece(p, I \ D)
           fuller == [solved |-> d.solved, waiting |-> d.waiting \cup {left}, seen |-> seen]
<1>1. AddFrame(d, FrameOf(p, q)) =
        IF q \in d.seen THEN d
        ELSE IF Complete(d, k) \/ left.idx = {} THEN fresh ELSE PeelAll(fuller, k)
  <2> DEFINE f == FrameOf(p, q)
  <2>1. /\ f.head.shape.k = k /\ f.head.session = Session[p] /\ f.seq = q
        /\ f.words = Words(p, I)
    BY FrameShape DEF FrameK
  <2>2. Reduced(Piece(p, I), D, d.solved) = left
    <3>1. Piece(p, I).words = Words(p, Piece(p, I).idx) /\ Piece(p, I).idx = I
      BY DEF Piece
    <3>2. Rightly(p, d.solved, I \cap D)
      BY DEF Settled, Genuine, Rightly
    <3> QED
      BY <3>1, <3>2, ReducedLemma
  <2>3. d = [solved |-> d.solved, waiting |-> d.waiting, seen |-> d.seen]
    BY DEF Settled, Genuine
  <2> HIDE DEF f, I, left, k
  <2>4. [d EXCEPT !.seen = @ \cup {f.seq}] = fresh
    BY <2>1, <2>3
  <2>5. [fresh EXCEPT !.waiting = @ \cup {left}] = fuller
    OBVIOUS
  <2>6. [idx |-> Indices[f.head.session][f.head.shape.k][f.seq], words |-> f.words] = Piece(p, I)
    BY <2>1 DEF Piece, I
  <2> HIDE DEF fresh, fuller
  <2>7. /\ Reduced([idx |-> Indices[f.head.session][f.head.shape.k][f.seq], words |-> f.words],
                  D, d.solved) = left
        /\ [[d EXCEPT !.seen = @ \cup {f.seq}] EXCEPT !.waiting = @ \cup {left}] = fuller
    BY <2>2, <2>4, <2>5, <2>6
  <2> DEFINE cut == Reduced([idx |-> Indices[f.head.session][f.head.shape.k][f.seq],
                             words |-> f.words], D, d.solved)
             young == [d EXCEPT !.seen = @ \cup {f.seq}]
             old == [young EXCEPT !.waiting = @ \cup {cut}]
  <2>8. AddFrame(d, f) = IF f.seq \in d.seen THEN d
          ELSE IF Complete(d, f.head.shape.k) \/ cut.idx = {} THEN young
          ELSE PeelAll(old, f.head.shape.k)
    BY DEF AddFrame
  <2>9. cut = left /\ young = fresh /\ old = fuller
    BY <2>4, <2>7
  <2> HIDE DEF cut, young, old
  <2>10. AddFrame(d, f) = IF q \in d.seen THEN d
        ELSE IF Complete(d, k) \/ left.idx = {} THEN fresh ELSE PeelAll(fuller, k)
    BY <2>1, <2>8, <2>9
  <2> QED
    BY <2>10 DEF f
<1>2. left.idx = I \ D /\ left = Piece(p, left.idx) /\ I \subseteq 1 .. k
  BY FrameShape DEF Piece
<1>3. Given(p, seen) = G \cup {I} /\ seen \subseteq Seq32
  BY DEF Given, Settled
<1>4. Genuine(d, p) /\ Thorough(d, G) /\ Ready(d) = {}
  BY DEF Settled
<1>5. CASE q \in d.seen
  BY <1>1, <1>5
<1>6. CASE q \notin d.seen /\ (Complete(d, k) \/ left.idx = {})
  <2>1. I \subseteq D
    <3>1. CASE Complete(d, k)
      BY <1>2, <1>4, <3>1, AllSolved
    <3>2. CASE left.idx = {}
      BY <1>2, <3>2
    <3> QED
      BY <1>6, <3>1, <3>2
  <2> HIDE DEF I, G, left, seen
  <2>2. Genuine(fresh, p) /\ Ready(fresh) = {} /\ fresh.seen = seen
    BY <1>4 DEF Genuine, Ready
  <2>3. Thorough(fresh, G \cup {I})
    BY <1>4, <2>1 DEF Thorough
  <2> HIDE DEF fresh, k
  <2> QED
    BY <1>1, <1>3, <1>6, <2>2, <2>3 DEF Settled
<1>7. CASE q \notin d.seen /\ ~(Complete(d, k) \/ left.idx = {})
  <2> HIDE DEF I, G, left, seen
  <2>1. Genuine(fuller, p) /\ fuller.seen = seen
    BY <1>2, <1>4, <1>7 DEF Genuine
  <2>2. Thorough(fuller, G \cup {I})
    <3>1. \A J \in G \cup {I} :
            J \subseteq D \/ \E g \in d.waiting \cup {left} : g.idx = J \ D
      BY <1>2, <1>4 DEF Thorough
    <3>2. \A g \in d.waiting \cup {left} : \E J \in G \cup {I} : g.idx = J \ D
      BY <1>2, <1>4 DEF Thorough
    <3>3. \A B : (\A J \in G \cup {I} : Cardinality(J \ B) # 1) => D \subseteq B
      BY <1>4 DEF Thorough
    <3> QED
      BY <3>1, <3>2, <3>3 DEF Thorough
  <2> HIDE DEF fuller
  <2>3. LET e == PeelAll(fuller, k)
        IN  Genuine(e, p) /\ Thorough(e, G \cup {I}) /\ e.seen = fuller.seen /\ Ready(e) = {}
    BY <2>1, <2>2, CascadeLemma
  <2> HIDE DEF k, fresh
  <2> QED
    BY <1>1, <1>3, <1>7, <2>1, <2>3 DEF Settled
<1> QED
  BY <1>5, <1>6, <1>7

(* When no more turns, what is solved is the closure of what was given.     *)
LEMMA ClosureLemma ==
  ASSUME NEW p \in Payload, NEW d, Settled(d, p)
  PROVE  DOMAIN d.solved = Closure(Given(p, d.seen), FrameK(p))
<1> DEFINE D == DOMAIN d.solved
           G == Given(p, d.seen)
           k == FrameK(p)
<1>1. D \subseteq 1 .. k
  BY DEF Settled, Genuine
<1>2. \A B : (\A I \in G : Cardinality(I \ B) # 1) => D \subseteq B
  BY DEF Settled, Thorough
<1>3. ASSUME NEW I \in G PROVE Cardinality(I \ D) # 1
  <2>1. CASE I \subseteq D
    <3>1. I \ D = {}
      BY <2>1
    <3> QED
      BY <3>1, FS_EmptySet
  <2>2. CASE \E g \in d.waiting : g.idx = I \ D
    BY <2>2 DEF Settled, Ready
  <2> QED
    BY <2>1, <2>2 DEF Settled, Thorough
<1> HIDE DEF D, G, k
<1>4. Closure(G, k) =
        { b \in 1 .. k : \A B \in SUBSET (1 .. k) : (\A I \in G : Cardinality(I \ B) # 1) => b \in B }
  BY DEF Closure
<1>5. D = Closure(G, k)
  BY <1>1, <1>2, <1>3, <1>4
<1> QED
  BY <1>5 DEF D, G, k

-----------------------------------------------------------------------------
(* The receiver *)

Wholes == { Whole(p) : p \in Payload }

\* It has been reading p.
ReadsCode(r, p) ==
  /\ r = [identity |-> Identity(HeaderOf(p)), decoder |-> r.decoder, payload |-> r.payload]
  /\ Settled(r.decoder, p)
  /\ r.payload \in {<<>>, Whole(p)}

Reads(r) == r = Unlocked \/ \E p \in Payload : ReadsCode(r, p)

(* Whatever symbol is read, the receiver goes on reading one code.          *)
LEMMA FeedLemma ==
  ASSUME NEW r, Reads(r), NEW f \in Visible
  PROVE  Reads(Feed(r, f))
<1>1. CASE ~ParseAccepts(f.head.shape) \/ ~HeaderAccepts(f.head.shape)
  BY <1>1 DEF Feed
<1>2. CASE ParseAccepts(f.head.shape) /\ HeaderAccepts(f.head.shape)
  <2>1. PICK p \in Payload, q \in Seq32 : f = FrameOf(p, q)
    <3>1. ASSUME NEW h \in Noise, f = Strange(h) PROVE FALSE
      <4>1. f.head = h
        BY <3>1 DEF Strange
      <4> QED
        BY <1>2, <4>1, NoiseAssumption
    <3> QED
      BY <3>1 DEF Visible
  <2> DEFINE id == Identity(HeaderOf(p))
             base == IF r.identity = id THEN r ELSE [Unlocked EXCEPT !.identity = id]
             d == AddFrame(base.decoder, f)
             k == FrameK(p)
  <2>2. f.head = HeaderOf(p) /\ f.head.shape.k = k
    BY <2>1, FrameShape DEF FrameK
  <2>3. ReadsCode(base, p)
    <3>1. CASE r.identity = id
      <4>1. r # Unlocked
        BY <3>1, FrameShape DEF Unlocked
      <4>2. PICK o \in Payload : ReadsCode(r, o)
        BY <4>1 DEF Reads
      <4>3. r.identity = Identity(HeaderOf(o))
        BY <4>2 DEF ReadsCode
      <4>4. o = p
        BY <3>1, <4>3, OneCode
      <4> QED
        BY <3>1, <4>2, <4>4
    <3>2. CASE r.identity # id
      <4>1. base = [identity |-> id, decoder |-> NoDecoder, payload |-> <<>>]
        BY <3>2 DEF Unlocked
      <4>2. Settled(NoDecoder, p)
        <5>1. /\ NoDecoder = [solved |-> NoDecoder.solved, waiting |-> NoDecoder.waiting,
                              seen |-> NoDecoder.seen]
              /\ DOMAIN NoDecoder.solved = {} /\ NoDecoder.waiting = {} /\ NoDecoder.seen = {}
          BY DEF NoDecoder
        <5> QED
          BY <5>1 DEF Settled, Genuine, Thorough, Given, Ready
      <4> HIDE DEF id, base
      <4> QED
        BY <4>1, <4>2 DEF ReadsCode, id
    <3> QED
      BY <3>1, <3>2
  <2>4. Feed(r, f) = IF base.payload # <<>> THEN base
                     ELSE [base EXCEPT !.decoder = d,
                             !.payload = IF Complete(d, k) THEN Assemble(d, k) ELSE <<>>]
    <3> HIDE DEF k
    <3> QED
      BY <1>2, <2>2 DEF Feed
  <2>5. Settled(d, p)
    BY <2>1, <2>3, AddFrameLemma DEF ReadsCode
  <2>6. Complete(d, k) => Assemble(d, k) = Whole(p)
    <3> SUFFICES ASSUME Complete(d, k) PROVE Assemble(d, k) = Whole(p)
      OBVIOUS
    <3> HIDE DEF d
    <3>1. Genuine(d, p)
      BY <2>5 DEF Settled
    <3>2. DOMAIN d.solved = 1 .. k
      BY <3>1, AllSolved
    <3>3. \A b \in 1 .. k : d.solved[b] = { <<p, b>> }
      BY <3>1, <3>2 DEF Genuine, Words
    <3> QED
      BY <3>3 DEF Assemble, Whole, FrameK
  <2> HIDE DEF id, base, d, k
  <2>7. CASE base.payload # <<>>
    BY <2>3, <2>4, <2>7 DEF Reads
  <2>8. CASE base.payload = <<>>
    <3> DEFINE paid == IF Complete(d, k) THEN Assemble(d, k) ELSE <<>>
    <3>1. paid \in {<<>>, Whole(p)}
      BY <2>6
    <3> HIDE DEF paid
    <3>2. Feed(r, f) = [identity |-> Identity(HeaderOf(p)), decoder |-> d, payload |-> paid]
      <4>1. Feed(r, f) = [base EXCEPT !.decoder = d, !.payload = paid]
        BY <2>4, <2>8 DEF paid
      <4>2. PICK x, y : base = [identity |-> Identity(HeaderOf(p)), decoder |-> x, payload |-> y]
        BY <2>3 DEF ReadsCode
      <4>3. ASSUME NEW i, NEW u, NEW v, NEW b, NEW c,
                   b = [identity |-> i, decoder |-> x, payload |-> y],
                   c = [b EXCEPT !.decoder = u, !.payload = v]
            PROVE  c = [identity |-> i, decoder |-> u, payload |-> v]
        BY <4>3
      <4> QED
        BY <4>1, <4>2, <4>3, Zenon
    <3>3. ReadsCode(Feed(r, f), p)
      BY <2>5, <3>1, <3>2 DEF ReadsCode
    <3> QED
      BY <3>3 DEF Reads
  <2> QED
    BY <2>7, <2>8
<1> QED
  BY <1>1, <1>2

(* A payload read once more, or a new one, or an old one forgotten: the     *)
(* memory holds codes that were shown.                                      *)
LEMMA EmittedLemma ==
  ASSUME NEW emitted \in Seq(Wholes), NEW payload \in Wholes \cup {<<>>}
  PROVE  Emitted(emitted, payload) \in Seq(Wholes)
<1> DEFINE longer == Append(emitted, payload)
<1>1. CASE payload = <<>> \/ Contains(emitted, payload)
  BY <1>1 DEF Emitted
<1>2. CASE ~(payload = <<>> \/ Contains(emitted, payload))
  <2>1. longer \in Seq(Wholes) /\ longer # <<>>
    <3>1. payload \in Wholes
      BY <1>2
    <3> HIDE DEF Wholes
    <3>2. longer \in Seq(Wholes) /\ Len(longer) = Len(emitted) + 1 /\ Len(emitted) \in Nat
      BY <3>1
    <3> HIDE DEF longer
    <3> QED
      BY <3>2
  <2> HIDE DEF longer
  <2>2. Tail(longer) \in Seq(Wholes)
    BY <2>1
  <2>3. Emitted(emitted, payload) = IF Len(longer) > EmittedMemory THEN Tail(longer) ELSE longer
    BY <1>2 DEF Emitted, longer
  <2> QED
    BY <2>1, <2>2, <2>3
<1> QED
  BY <1>1, <1>2

-----------------------------------------------------------------------------
\* A scanner has read nothing but what it was shown.
Honest(c) ==
  /\ c.pool = <<>> \/ c.pool \in [Slot -> Frames]
  /\ Reads(c.receiver)
  /\ c.emitted \in Seq(Wholes)

ScanInv == CameraInv /\ \A s \in Scanner : Honest(sc[s])

LEMMA BlankIsHonest == ASSUME NEW c, Dark(c) PROVE Honest(c)
  BY DEF Dark, Honest, Reads

LEMMA HonestStep ==
  ASSUME ScanInv, NEW s \in Scanner, NEW c, Honest(c), sc' = [sc EXCEPT ![s] = c]
  PROVE  \A t \in Scanner : Honest(sc'[t])
  BY DEF ScanInv, CameraInv, Shapes

(* Only a frame that was queued is decoded, and only what is decoded is     *)
(* read.                                                                    *)
LEMMA ReadingLemma ==
  ASSUME ScanInv, NEW s \in Scanner, Tick(s) \/ \E i \in Slot : Decoded(s, i)
  PROVE  \A t \in Scanner : Honest(sc'[t])
<1>1. Shaped(sc[s]) /\ Honest(sc[s])
  BY DEF ScanInv, CameraInv, Shapes
<1>2. ASSUME NEW pool, pool \in [Slot -> Frames], sc' = [sc EXCEPT ![s].pool = pool]
      PROVE  \A t \in Scanner : Honest(sc'[t])
  <2> DEFINE c == [sc[s] EXCEPT !.pool = pool]
  <2>1. c.pool = pool /\ c.receiver = sc[s].receiver /\ c.emitted = sc[s].emitted
    BY <1>1 DEF Shaped, Fields
  <2>2. sc' = [sc EXCEPT ![s] = c]
    BY <1>2
  <2> HIDE DEF c
  <2>3. Honest(c)
    BY <1>1, <1>2, <2>1 DEF Honest
  <2> QED
    BY <2>2, <2>3, HonestStep
<1>3. CASE Tick(s)
  <2>1. CASE UNCHANGED sc
    BY <2>1 DEF ScanInv
  <2>2. CASE sc' = [sc EXCEPT ![s].loop = 0]
    <3> DEFINE c == [sc[s] EXCEPT !.loop = 0]
    <3>1. c.pool = sc[s].pool /\ c.receiver = sc[s].receiver /\ c.emitted = sc[s].emitted
      BY <1>1 DEF Shaped, Fields
    <3>2. sc' = [sc EXCEPT ![s] = c]
      BY <2>2
    <3> HIDE DEF c
    <3>3. Honest(c)
      BY <1>1, <3>1 DEF Honest
    <3> QED
      BY <3>2, <3>3, HonestStep
  <2>3. ASSUME NEW f \in Visible, sc[s].pool # <<>>,
               sc' = [sc EXCEPT ![s].pool = Submitted(@, f)]
        PROVE  \A t \in Scanner : Honest(sc'[t])
    <3>1. sc' = [sc EXCEPT ![s].pool = Submitted(sc[s].pool, f)]
      BY <2>3
    <3>2. sc[s].pool \in [Slot -> Frames]
      BY <1>1, <2>3 DEF Honest
    <3>3. Submitted(sc[s].pool, f) \in [Slot -> Frames]
      BY <3>2 DEF Submitted, Frames
    <3> QED
      BY <1>2, <3>1, <3>3
  <2> QED
    BY <1>3, <2>1, <2>2, <2>3 DEF Tick
<1>4. CASE \E i \in Slot : Decoded(s, i)
  <2>1. PICK i \in Slot : Decoded(s, i)
    BY <1>4
  <2> DEFINE freed == [sc[s].pool EXCEPT ![i] = Nothing]
             r == Feed(sc[s].receiver, sc[s].pool[i])
             longer == Emitted(sc[s].emitted, r.payload)
  <2>2. /\ sc[s].pool # <<>> /\ sc[s].pool[i] # Nothing
        /\ \/ sc' = [sc EXCEPT ![s].pool = freed]
           \/ sc' = [sc EXCEPT ![s].pool = freed, ![s].receiver = r, ![s].emitted = longer]
    BY <2>1 DEF Decoded
  <2>3. sc[s].pool \in [Slot -> Frames]
    BY <1>1, <2>2 DEF Honest
  <2>4. freed \in [Slot -> Frames]
    BY <2>3 DEF Frames
  <2>5. sc[s].pool[i] \in Visible
    BY <2>2, <2>3 DEF Frames
  <2>6. Reads(r)
    BY <1>1, <2>5, FeedLemma DEF Honest
  <2> HIDE DEF freed, r
  <2>7. r.payload \in Wholes \cup {<<>>}
    <3>1. CASE r = Unlocked
      BY <3>1 DEF Unlocked
    <3>2. ASSUME NEW p \in Payload, ReadsCode(r, p) PROVE r.payload \in Wholes \cup {<<>>}
      BY <3>2 DEF ReadsCode, Wholes
    <3> QED
      BY <2>6, <3>1, <3>2 DEF Reads
  <2>8. longer \in Seq(Wholes)
    BY <1>1, <2>7, EmittedLemma DEF Honest
  <2> HIDE DEF longer
  <2>9. CASE sc' = [sc EXCEPT ![s].pool = freed]
    BY <1>2, <2>4, <2>9
  <2>10. CASE sc' = [sc EXCEPT ![s].pool = freed, ![s].receiver = r, ![s].emitted = longer]
    <3> DEFINE c == [sc[s] EXCEPT !.pool = freed, !.receiver = r, !.emitted = longer]
    <3>1. c.pool = freed /\ c.receiver = r /\ c.emitted = longer
      BY <1>1 DEF Shaped, Fields
    <3>2. sc' = [sc EXCEPT ![s] = c]
      BY <2>10
    <3> HIDE DEF c
    <3>3. Honest(c)
      BY <2>4, <2>6, <2>8, <3>1 DEF Honest
    <3> QED
      BY <3>2, <3>3, HonestStep
  <2> QED
    BY <2>2, <2>9, <2>10
<1> QED
  BY <1>3, <1>4

(* The other steps of a scanner only ever start it over.                    *)
LEMMA CameraKeepsHonest ==
  ASSUME ScanInv, NEW s \in Scanner,
         Granted(s) \/ Refused(s) \/ Focused(s) \/ Played(s)
  PROVE  \A t \in Scanner : Honest(sc'[t])
<1>1. Shaped(sc[s]) /\ Honest(sc[s])
  BY DEF ScanInv, CameraInv, Shapes
<1>2. ASSUME NEW c, sc' = [sc EXCEPT ![s] = c],
             c.pool = sc[s].pool \/ c.pool = <<>> \/ c.pool = [i \in Slot |-> Nothing],
             c.receiver = sc[s].receiver \/ c.receiver = Unlocked,
             c.emitted = sc[s].emitted \/ c.emitted = <<>>
      PROVE  \A t \in Scanner : Honest(sc'[t])
  <2>1. [i \in Slot |-> Nothing] \in [Slot -> Frames]
    BY DEF Frames
  <2>2. c.pool = <<>> \/ c.pool \in [Slot -> Frames]
    BY <1>1, <1>2, <2>1 DEF Honest
  <2>3. Reads(c.receiver)
    BY <1>1, <1>2 DEF Honest, Reads
  <2>4. c.emitted \in Seq(Wholes)
    <3>1. sc[s].emitted \in Seq(Wholes) /\ <<>> \in Seq(Wholes)
      BY <1>1 DEF Honest
    <3>2. CASE c.emitted = <<>>
      BY <3>1, <3>2
    <3>3. CASE c.emitted = sc[s].emitted
      BY <3>1, <3>3
    <3> QED
      BY <1>2, <3>2, <3>3
  <2> QED
    BY <1>2, <2>2, <2>3, <2>4, HonestStep DEF Honest
<1>3. ASSUME NEW c, Threw(s, c), c = sc[s] \/ c = Stopped(sc[s])
      PROVE  \A t \in Scanner : Honest(sc'[t])
  <2> DEFINE d == [c EXCEPT !.at = IF sc[s].stopped THEN "late" ELSE "failed"]
  <2>1. Shaped(Stopped(sc[s])) /\ Dark(Stopped(sc[s]))
    BY <1>1, StopLemma
  <2>2. Shaped(c)
    BY <1>1, <1>3, <2>1
  <2>3. d.pool = c.pool /\ d.receiver = c.receiver /\ d.emitted = c.emitted
    BY <2>2 DEF Shaped, Fields
  <2>4. sc' = [sc EXCEPT ![s] = d]
    BY <1>3 DEF Threw
  <2> HIDE DEF d
  <2> QED
    BY <1>2, <1>3, <2>1, <2>3, <2>4 DEF Dark
<1>4. ASSUME NEW next, sc' = [sc EXCEPT ![s].at = next, ![s].lit = TRUE]
      PROVE  \A t \in Scanner : Honest(sc'[t])
  <2> DEFINE c == [sc[s] EXCEPT !.at = next, !.lit = TRUE]
  <2>1. c.pool = sc[s].pool /\ c.receiver = sc[s].receiver /\ c.emitted = sc[s].emitted
    BY <1>1 DEF Shaped, Fields
  <2>2. sc' = [sc EXCEPT ![s] = c]
    BY <1>4
  <2> HIDE DEF c
  <2> QED
    BY <1>2, <2>1, <2>2
<1>5. ASSUME sc' = [sc EXCEPT ![s].try = @ + 1]
      PROVE  \A t \in Scanner : Honest(sc'[t])
  <2> DEFINE c == [sc[s] EXCEPT !.try = sc[s].try + 1]
  <2>1. c.pool = sc[s].pool /\ c.receiver = sc[s].receiver /\ c.emitted = sc[s].emitted
    BY <1>1 DEF Shaped, Fields
  <2>2. sc' = [sc EXCEPT ![s] = c]
    BY <1>5
  <2> HIDE DEF c
  <2> QED
    BY <1>2, <2>1, <2>2
<1>6. ASSUME sc' = [sc EXCEPT ![s].at = "playing"]
      PROVE  \A t \in Scanner : Honest(sc'[t])
  <2> DEFINE c == [sc[s] EXCEPT !.at = "playing"]
  <2>1. c.pool = sc[s].pool /\ c.receiver = sc[s].receiver /\ c.emitted = sc[s].emitted
    BY <1>1 DEF Shaped, Fields
  <2>2. sc' = [sc EXCEPT ![s] = c]
    BY <1>6
  <2> HIDE DEF c
  <2> QED
    BY <1>2, <2>1, <2>2
<1>7. ASSUME sc' = [sc EXCEPT ![s].at = "live", ![s].pool = [i \in Slot |-> Nothing],
                              ![s].gen = @ + 1, ![s].loop = sc[s].gen + 1]
      PROVE  \A t \in Scanner : Honest(sc'[t])
  <2> DEFINE c == [sc[s] EXCEPT !.at = "live", !.pool = [i \in Slot |-> Nothing],
                                !.gen = @ + 1, !.loop = sc[s].gen + 1]
  <2>1. /\ c.pool = [i \in Slot |-> Nothing]
        /\ c.receiver = sc[s].receiver /\ c.emitted = sc[s].emitted
    BY <1>1 DEF Shaped, Fields
  <2>2. sc' = [sc EXCEPT ![s] = c]
    BY <1>7
  <2> HIDE DEF c
  <2> QED
    BY <1>2, <2>1, <2>2
<1>8. Granted(s) => \A t \in Scanner : Honest(sc'[t])
  BY <1>3, <1>4 DEF Granted
<1>9. Refused(s) => \A t \in Scanner : Honest(sc'[t])
  BY <1>3, <1>5 DEF Refused
<1>10. Focused(s) => \A t \in Scanner : Honest(sc'[t])
  BY <1>6 DEF Focused
<1>11. Played(s) => \A t \in Scanner : Honest(sc'[t])
  BY <1>3, <1>7 DEF Played
<1> QED
  BY <1>8, <1>9, <1>10, <1>11

LEMMA TornDownHonest ==
  ASSUME ScanInv
  PROVE  \A s \in Scanner : Honest(TornDown[s])
<1> TAKE s \in Scanner
<1>1. Shaped(sc[s]) /\ Honest(sc[s]) /\ CameraInv
  BY DEF ScanInv, CameraInv, Shapes
<1>2. TornDown[s] = IF s = held THEN Stopped(sc[s]) ELSE sc[s]
  BY <1>1, TornDownLemma
<1>3. Honest(Stopped(sc[s]))
  BY <1>1, StopLemma, BlankIsHonest
<1> QED
  BY <1>1, <1>2, <1>3

LEMMA ScanInductive == Spec => []ScanInv
<1>1. Init => \A s \in Scanner : Honest(sc[s])
  <2>1. Dark(Unborn)
    BY DEF Dark, Unborn
  <2> QED
    BY <2>1, BlankIsHonest DEF Init
<1>2. ScanInv /\ [Next]_vars => \A s \in Scanner : Honest(sc'[s])
  <2> SUFFICES ASSUME ScanInv, [Next]_vars PROVE \A s \in Scanner : Honest(sc'[s])
    OBVIOUS
  <2>1. CASE Leave
    BY <2>1, TornDownHonest DEF Leave
  <2>2. ASSUME NEW s \in Scanner, NEW n, Begin(s, n) PROVE \A t \in Scanner : Honest(sc'[t])
    <3> DEFINE c == [TornDown[s] EXCEPT !.at = "asking", !.try = 1, !.screen = n]
    <3>1. /\ TornDown = [t \in Scanner |-> TornDown[t]]
          /\ Shaped(TornDown[s])
      BY TornDownLemma DEF ScanInv
    <3>2. /\ c.pool = TornDown[s].pool /\ c.receiver = TornDown[s].receiver
          /\ c.emitted = TornDown[s].emitted
      BY <3>1 DEF Shaped, Fields
    <3>3. sc' = [TornDown EXCEPT ![s] = c]
      BY <2>2 DEF Begin
    <3> HIDE DEF c
    <3>4. Honest(c)
      BY <3>2, TornDownHonest DEF Honest
    <3> QED
      BY <3>1, <3>3, <3>4, TornDownHonest
  <2>3. ASSUME NEW s \in Scanner, OpenScan(s) \/ Retry(s)
        PROVE  \A t \in Scanner : Honest(sc'[t])
    BY <2>2, <2>3 DEF OpenScan, Retry
  <2>4. ASSUME NEW s \in Scanner, Granted(s) \/ Refused(s) \/ Focused(s) \/ Played(s)
        PROVE  \A t \in Scanner : Honest(sc'[t])
    BY <2>4, CameraKeepsHonest
  <2>5. ASSUME NEW s \in Scanner, Tick(s) \/ \E i \in Slot : Decoded(s, i)
        PROVE  \A t \in Scanner : Honest(sc'[t])
    BY <2>5, ReadingLemma
  <2>6. CASE UNCHANGED vars
    BY <2>6 DEF vars, ScanInv
  <2> QED
    BY <2>1, <2>3, <2>4, <2>5, <2>6 DEF Next, App, Camera, Reading
<1>3. (\A s \in Scanner : Honest(sc[s])) /\ CameraInv <=> ScanInv
  BY DEF ScanInv
<1>4. CameraInv /\ (\A s \in Scanner : Honest(sc[s])) /\ [Next]_vars
        => (\A s \in Scanner : Honest(sc[s]))'
  BY <1>2 DEF ScanInv
<1> QED
  BY <1>1, <1>3, <1>4, CameraInductive, PTL DEF Spec

(* A payload handed to the ceremony is, word for word, one that was shown   *)
(* (frame.ts streamIdentity, fountain.ts): however the frames of several    *)
(* codes come in turn, are lost or come twice, the receiver never mixes     *)
(* two of them, and a block it has solved is the sender's.                  *)
THEOREM ReadIsShown == Spec => []Exact
<1>1. ScanInv => Exact
  <2> SUFFICES ASSUME ScanInv, NEW s \in Scanner PROVE ToSet(sc[s].emitted) \subseteq Wholes
    BY DEF Exact, Wholes
  <2>1. sc[s].emitted \in Seq(Wholes)
    BY DEF ScanInv, Honest
  <2> QED
    BY <2>1 DEF ToSet
<1> QED
  BY <1>1, ScanInductive, PTL

(* The decoder has solved exactly what peeling can find in the frames it    *)
(* was given (fountain.ts resolve): the cascade runs until nothing more     *)
(* follows, for any number of blocks and any choice of indices.             *)
THEOREM SolvedIsAll == Spec => []SolvesAllItCan
<1>1. ScanInv => SolvesAllItCan
  <2> SUFFICES ASSUME ScanInv, NEW s \in Scanner, sc[s].receiver.identity # <<>>
               PROVE  LET r == sc[s].receiver
                          k == r.identity[2].k
                          given == { Indices[r.identity[1]][k][q] : q \in r.decoder.seen }
                      IN  DOMAIN r.decoder.solved = Closure(given, k)
    BY DEF SolvesAllItCan
  <2> DEFINE r == sc[s].receiver
  <2>1. Reads(r) /\ r # Unlocked
    BY DEF ScanInv, Honest, Unlocked
  <2> HIDE DEF r
  <2>2. PICK p \in Payload : ReadsCode(r, p)
    BY <2>1 DEF Reads
  <2>3. r.identity = Identity(HeaderOf(p)) /\ Settled(r.decoder, p)
    BY <2>2 DEF ReadsCode
  <2>4. r.identity[1] = Session[p] /\ r.identity[2].k = FrameK(p)
    BY <2>3, FrameShape DEF FrameK
  <2>5. DOMAIN r.decoder.solved = Closure(Given(p, r.decoder.seen), FrameK(p))
    BY <2>3, ClosureLemma
  <2> QED
    BY <2>4, <2>5 DEF Given, r
<1> QED
  BY <1>1, ScanInductive, PTL
=============================================================================
