---------------------------- MODULE OpticalScan ----------------------------
(***************************************************************************)
(* client/src/ui/camera.ts, its pool of decode workers and the part of     *)
(* ui/app.ts that starts and stops it. A scan screen starts a scanner,     *)
(* which asks for the camera, waits for the answer, for the lens and for   *)
(* the picture, and reads frames until it is stopped. The app can be       *)
(* anywhere else by the time one of these waits ends.                      *)
(*                                                                         *)
(* A step runs to the next await or to the end of its callback. A page     *)
(* that is no secure context fails before it asks, and is left out.        *)
(***************************************************************************)
EXTENDS OpticalReceiver, SequencesExt

CONSTANTS
  Scans,          \* bound: how many scanners the app ever makes
  Slot,           \* of the worker pool
  Noise,          \* headers of other symbols the camera may read
  EmittedMemory   \* EMITTED_MEMORY

ASSUME ScanAssumption ==
  /\ Scans \in Nat /\ EmittedMemory \in Nat \ {0}
  /\ Slot # {} /\ IsFiniteSet(Slot) /\ Slot \subseteq Nat

\* Any other symbol is stopped by the first wall.
ASSUME NoiseAssumption == \A h \in Noise : ~ParseAccepts(h.shape)

Scanner == 1 .. Scans
None == 0

VARIABLES
  screen,   \* the scan screen that is up, named by its first scanner, or None
  retry,    \* whether it shows the retry button
  held,     \* app.scanner, or None
  sc        \* sc[s]: the scanner, and where its start() is

vars == <<screen, retry, held, sc>>

\* at: unborn, asking, focusing, playing, live, and how start() threw: failed,
\*   or late when the scanner had been stopped before.
\* loop: the generation the queued frame callback was born in, 0 when none is.
Unborn ==
  [at |-> "unborn", try |-> 0, screen |-> None, stopped |-> FALSE, gen |-> 0,
   loop |-> 0, lit |-> FALSE, pool |-> <<>>, receiver |-> Unlocked, emitted |-> <<>>]

\* A worker is what it has to decode. Its slot is busy while it has something;
\* the ping it sends when its WebAssembly is warm changes nothing.
Nothing == <<>>

Strange(h) == [head |-> h, seq |-> 0, words |-> {}]

\* What the camera may see. The other device's player turns its codes and their
\* frames on its own clock, so at any tick any of them may be on its screen.
Visible ==
  { FrameOf(p, q) : p \in Payload, q \in Seq32 } \cup { Strange(h) : h \in Noise }

Frames == { Nothing } \cup Visible

TypeOK ==
  /\ screen \in Scanner \cup {None} /\ held \in Scanner \cup {None}
  /\ retry \in BOOLEAN
  /\ \A s \in Scanner :
       /\ sc[s].at \in {"unborn", "asking", "focusing", "playing", "live", "failed", "late"}
       /\ sc[s].try \in 0 .. 3 /\ sc[s].loop \in 0 .. sc[s].gen
       /\ sc[s].pool = <<>> \/ sc[s].pool \in [Slot -> Frames]
       /\ Len(sc[s].emitted) <= EmittedMemory

Init ==
  /\ screen = None /\ held = None /\ retry = FALSE
  /\ sc = [s \in Scanner |-> Unborn]

-----------------------------------------------------------------------------
(* Stopping *)

\* stop().
Stopped(c) ==
  [c EXCEPT !.gen = @ + 1, !.stopped = TRUE, !.pool = <<>>, !.lit = FALSE,
            !.receiver = Unlocked, !.emitted = <<>>]

\* teardownOptics, and startScanner's own stop of an earlier attempt.
TornDown == IF held = None THEN sc ELSE [sc EXCEPT ![held] = Stopped(@)]

\* The catch of startScanner, whichever attempt it is that threw.
Caught(s, kind) ==
  /\ held' = None
  /\ retry' = IF screen = sc[s].screen THEN kind = "denied" ELSE retry
  /\ UNCHANGED screen

\* start() throws, from scanner c on.
Threw(s, c) ==
  sc' = [sc EXCEPT ![s] = [c EXCEPT !.at = IF sc[s].stopped THEN "late" ELSE "failed"]]

-----------------------------------------------------------------------------
(* The app *)

\* The next scanner, on screen n, with its first request for the camera out.
Begin(s, n) ==
  /\ \A t \in Scanner : (sc[t].at = "unborn") <=> (t >= s)
  /\ sc' = [TornDown EXCEPT ![s] = [@ EXCEPT !.at = "asking", !.try = 1, !.screen = n]]
  /\ held' = s /\ screen' = n /\ retry' = FALSE

\* renderCeremony on a scan phase: a turn handed over, a ceremony begun by
\* either button, a second one begun while the first was being prepared.
OpenScan(s) == Begin(s, s)

\* The retry button.
Retry(s) == /\ retry /\ screen # None
            /\ Begin(s, screen)

\* Slip: another screen is drawn without teardownOptics.
LeaveLit ==
  /\ screen # None
  /\ screen' = None /\ held' = None /\ retry' = FALSE
  /\ UNCHANGED sc

\* Any other screen: the next phase, cancel, a refusal, a failure, the lock.
Leave ==
  /\ screen # None
  /\ sc' = TornDown
  /\ screen' = None /\ held' = None /\ retry' = FALSE

-----------------------------------------------------------------------------
(* start(): each action is what follows one of its awaits *)

\* Slip: nobody looks whether the scanner was stopped during the prompt.
GrantedBlindly(s) ==
  /\ sc[s].at = "asking"
  /\ \E next \in {"focusing", "playing"} :
       sc' = [sc EXCEPT ![s].at = next, ![s].lit = TRUE]
  /\ UNCHANGED <<screen, retry, held>>

\* getUserMedia answers with a stream. The lens is asked to focus where the
\* camera says it can; a stream without a video track is given back.
Granted(s) ==
  /\ sc[s].at = "asking"
  /\ \/ /\ ~sc[s].stopped
        /\ \E next \in {"focusing", "playing"} :
             sc' = [sc EXCEPT ![s].at = next, ![s].lit = TRUE]
        /\ UNCHANGED <<screen, retry, held>>
     \/ ~sc[s].stopped /\ Threw(s, Stopped(sc[s])) /\ Caught(s, "no-camera")
     \/ sc[s].stopped /\ Threw(s, sc[s]) /\ Caught(s, "unknown")

\* It is refused: by the user for good, by the camera until three shapes of the
\* request have failed.
Refused(s) ==
  /\ sc[s].at = "asking"
  /\ \/ Threw(s, sc[s]) /\ Caught(s, "denied")
     \/ /\ sc[s].try < 3
        /\ sc' = [sc EXCEPT ![s].try = @ + 1]
        /\ UNCHANGED <<screen, retry, held>>
     \/ sc[s].try = 3 /\ Threw(s, sc[s]) /\ Caught(s, "unknown")

\* applyConstraints answers, either way.
Focused(s) ==
  /\ sc[s].at = "focusing"
  /\ sc' = [sc EXCEPT ![s].at = "playing"]
  /\ UNCHANGED <<screen, retry, held>>

\* The picture plays, or does not, or nobody wants it any more.
Played(s) ==
  /\ sc[s].at = "playing"
  /\ \/ /\ ~sc[s].stopped
        /\ sc' = [sc EXCEPT ![s].at = "live", ![s].pool = [i \in Slot |-> Nothing],
                            ![s].gen = @ + 1, ![s].loop = sc[s].gen + 1]
        /\ UNCHANGED <<screen, retry, held>>
     \/ Threw(s, Stopped(sc[s])) /\ Caught(s, "unknown")

-----------------------------------------------------------------------------
(* Reading *)

\* submit: to the first free worker; with none free the frame is dropped.
Submitted(pool, f) ==
  LET free == { i \in Slot : pool[i] = Nothing }
      slot == CHOOSE i \in free : \A j \in free : i <= j
  IN  IF free = {} THEN pool ELSE [pool EXCEPT ![slot] = f]

\* The queued frame callback: a callback of an older generation queues no other.
Tick(s) ==
  /\ sc[s].loop # 0
  /\ \/ /\ sc[s].loop # sc[s].gen
        /\ sc' = [sc EXCEPT ![s].loop = 0]
     \/ /\ sc[s].loop = sc[s].gen
        /\ \/ sc[s].pool = <<>> /\ UNCHANGED sc
           \/ /\ sc[s].pool # <<>>
              /\ \E f \in Visible : sc' = [sc EXCEPT ![s].pool = Submitted(@, f)]
  /\ UNCHANGED <<screen, retry, held>>

\* onDecoded, once the receiver has been fed: a payload not among the last few
\* goes to the ceremony.
Emitted(emitted, payload) ==
  IF payload = <<>> \/ Contains(emitted, payload) THEN emitted
  ELSE LET longer == Append(emitted, payload)
       IN  IF Len(longer) > EmittedMemory THEN Tail(longer) ELSE longer

\* Worker i answers with the bytes it read, or with none.
Decoded(s, i) ==
  /\ sc[s].pool # <<>> /\ sc[s].pool[i] # Nothing
  /\ LET freed == [sc[s].pool EXCEPT ![i] = Nothing]
         r == Feed(sc[s].receiver, sc[s].pool[i])
     IN  \/ sc' = [sc EXCEPT ![s].pool = freed]
         \/ sc' = [sc EXCEPT ![s].pool = freed, ![s].receiver = r,
                             ![s].emitted = Emitted(@, r.payload)]
  /\ UNCHANGED <<screen, retry, held>>

-----------------------------------------------------------------------------
Camera == \E s \in Scanner : Granted(s) \/ Refused(s) \/ Focused(s) \/ Played(s)
App == Leave \/ \E s \in Scanner : OpenScan(s) \/ Retry(s)
Reading == \E s \in Scanner : Tick(s) \/ \E i \in Slot : Decoded(s, i)

Next == Camera \/ App \/ Reading

Spec == Init /\ [][Next]_vars

-----------------------------------------------------------------------------
(* A payload handed to the ceremony is, byte for byte, one that was shown:  *)
(* the decoder never mixes the frames of two streams, even of two with the  *)
(* same session id and the same geometry (frame.ts streamIdentity).         *)
Exact ==
  \A s \in Scanner : ToSet(sc[s].emitted) \subseteq { Whole(p) : p \in Payload }

(* The decoder has solved exactly the blocks that peeling can find in the   *)
(* frames it was given since it locked on: a frame it dropped or a cascade  *)
(* it cut short would need frames the sender may not show again.            *)
SolvesAllItCan ==
  \A s \in Scanner :
    LET r == sc[s].receiver
        k == r.identity[2].k
        given == { Indices[r.identity[1]][k][q] : q \in r.decoder.seen }
    IN  r.identity # <<>> => DOMAIN r.decoder.solved = Closure(given, k)

(* A stopped scanner holds nothing, at whichever of its awaits the stop     *)
(* found it: no light, no workers, nothing read (camera.ts:136-140, 172).   *)
StoppedIsDark ==
  \A s \in Scanner :
    sc[s].stopped => /\ ~sc[s].lit /\ sc[s].pool = <<>>
                     /\ sc[s].receiver = Unlocked /\ sc[s].emitted = <<>>

(* A camera that is on belongs to the screen that is up and to the scanner  *)
(* the app would stop, so that leaving the screen turns it off (app.ts:318).*)
(* There is one exception: an abandoned attempt that fails late takes       *)
(* app.scanner from its successor (app.ts:502), which nothing stops then.   *)
LightIsOwned ==
  \A s \in Scanner :
    sc[s].lit => \/ held = s /\ screen = sc[s].screen
                 \/ \E t \in 1 .. s - 1 : sc[t].at = "late"
=============================================================================
