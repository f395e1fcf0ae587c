--------------------------- MODULE PictureProofs ---------------------------
(***************************************************************************)
(* Proofs about Picture and its three parts, the beam, the ship and the    *)
(* sway of the array, for every timing, screen and span that the           *)
(* assumptions of the parts allow.                                         *)
(***************************************************************************)
EXTENDS Picture, TLAPS

(***************************************************************************)
(* The beam (VgaController).  vs is registered: it tells where the beam    *)
(* was one pixel ago.  The inductive invariant says just that, and counts  *)
(* the two places where vs can rise: the first pixel after a reset and the *)
(* pixel after the pulse.                                                  *)
(***************************************************************************)

(* The beam has not moved since reset. *)
Fresh == first /\ hc = 0 /\ vc = 0

(* The line the beam was on one pixel ago. *)
PreviousLine == IF hc # 0 THEN vc ELSE IF vc = 0 THEN vlines ELSE vc - 1

VsIsRegistered ==
  /\ Fresh => ~vs
  /\ ~Fresh => (vs <=> ~(PreviousLine + 1 \in {VSync, VSync + 1}))

PulsePassed == vc > VSync + 1 \/ (vc = VSync + 1 /\ hc # 0)

TicksCounted ==
  ticks = (IF first /\ ~Fresh THEN 1 ELSE 0) + (IF PulsePassed THEN 1 ELSE 0)

Inv == TypeOK /\ VsIsRegistered /\ TicksCounted

----------------------------------------------------------------------------

LEMMA InitInv == Init => Inv
<1> SUFFICES ASSUME Init PROVE Inv
    OBVIOUS
<1>1. hc = 0 /\ vc = 0 /\ ticks = 0
  BY Zenon DEF Init
<1>2. ~vs /\ first
  BY Zenon DEF Init
<1>3. clkdiv \in BOOLEAN /\ hs \in BOOLEAN /\ vs \in BOOLEAN /\ first \in BOOLEAN
  BY Zenon DEF Init
<1>4. Fresh /\ ~PulsePassed
  BY <1>1, <1>2, TimingAssumption DEF Fresh, PulsePassed
<1>5. VsIsRegistered /\ TicksCounted
  BY <1>1, <1>2, <1>4 DEF VsIsRegistered, TicksCounted
<1> QED BY <1>1, <1>3, <1>5, TimingAssumption DEF Inv, TypeOK

LEMMA ResetInv == Reset => Inv'
<1> SUFFICES ASSUME Reset PROVE Inv'
    OBVIOUS
<1>1. hc' = 0 /\ vc' = 0 /\ ticks' = 0
  BY Zenon DEF Reset
<1>2. ~vs' /\ first'
  BY Zenon DEF Reset
<1>3. clkdiv' \in BOOLEAN /\ hs' \in BOOLEAN /\ vs' \in BOOLEAN /\ first' \in BOOLEAN
  BY Zenon DEF Reset
<1>4. Fresh' /\ ~PulsePassed'
  BY <1>1, <1>2, TimingAssumption DEF Fresh, PulsePassed
<1>5. VsIsRegistered' /\ TicksCounted'
  BY <1>1, <1>2, <1>4 DEF VsIsRegistered, TicksCounted
<1> QED BY <1>1, <1>3, <1>5, TimingAssumption DEF Inv, TypeOK

(* What a pixel does to the Boolean registers. *)
LEMMA PixelFlags ==
  ASSUME Inv, Pixel
  PROVE  /\ hs' \in BOOLEAN /\ vs' \in BOOLEAN /\ first' \in BOOLEAN
         /\ vs' <=> ~(vc + 1 \in {VSync, VSync + 1})
         /\ first' <=> first /\ ~ScanEnds
BY Zenon DEF Inv, TypeOK, Pixel, Hsync, Vsync

(* Where vs rises. *)
LEMMA TickPlaces ==
  ASSUME Inv, Pixel
  PROVE  Tick <=> Fresh \/ (vc = VSync + 1 /\ hc = 0)
<1>1. vs' <=> vc # VSync - 1 /\ vc # VSync
  BY PixelFlags, TimingAssumption DEF Inv, TypeOK
<1>2. Fresh => ~vs
  BY DEF Inv, VsIsRegistered
<1>3. ~Fresh => (vs <=> PreviousLine # VSync - 1 /\ PreviousLine # VSync)
  BY TimingAssumption DEF Inv, TypeOK, VsIsRegistered, PreviousLine
<1> QED
  BY <1>1, <1>2, <1>3, TimingAssumption
     DEF Inv, TypeOK, Fresh, PreviousLine, Tick

LEMMA PixelInv == Inv /\ Pixel /\ clkdiv' \in BOOLEAN => Inv'
<1> SUFFICES ASSUME Inv, Pixel, clkdiv' \in BOOLEAN PROVE Inv'
    OBVIOUS
<1>1. hc' \in 0 .. hpixels /\ vc' \in 0 .. vlines
  BY TimingAssumption DEF Inv, TypeOK, Pixel, Counters
<1>2. hs' \in BOOLEAN /\ vs' \in BOOLEAN /\ first' \in BOOLEAN
  BY PixelFlags
<1>3. ~Fresh'
  BY PixelFlags, TimingAssumption
     DEF Inv, TypeOK, Pixel, Counters, ScanEnds, Fresh
<1>4. PreviousLine' = vc
  BY TimingAssumption DEF Inv, TypeOK, Pixel, Counters, PreviousLine
<1>5. VsIsRegistered'
  BY <1>3, <1>4, PixelFlags DEF VsIsRegistered
<1>6. TicksCounted'
  <2>1. CASE ScanEnds
    <3>1. ~Tick
      BY <2>1, TickPlaces, TimingAssumption DEF ScanEnds, Fresh, Inv, TypeOK
    <3>2. ticks' = 0 /\ vc' = 0
      BY <2>1, <3>1, TimingAssumption DEF Pixel, Counters, ScanEnds
    <3>3. ~first'
      BY <2>1, PixelFlags
    <3> QED BY <3>2, <3>3, TimingAssumption DEF TicksCounted, PulsePassed
  <2>2. CASE ~ScanEnds
    <3>1. ticks' = ticks + (IF Tick THEN 1 ELSE 0)
      BY <2>2 DEF Pixel
    <3>6. first' <=> first
      BY <2>2, PixelFlags
    <3>2. PulsePassed' <=> PulsePassed \/ (vc = VSync + 1 /\ hc = 0)
      BY <2>2, TimingAssumption
         DEF Inv, TypeOK, Pixel, Counters, ScanEnds, PulsePassed
    <3>3. ~(Fresh /\ vc = VSync + 1) /\ ~(PulsePassed /\ vc = VSync + 1 /\ hc = 0)
      BY TimingAssumption DEF Fresh, PulsePassed
    <3>4. ~(Fresh /\ PulsePassed)
      BY TimingAssumption DEF Fresh, PulsePassed
    <3>5. Fresh => first
      BY DEF Fresh
    <3> QED
      BY <1>3, <3>1, <3>2, <3>3, <3>4, <3>5, <3>6, TickPlaces DEF Inv, TicksCounted
  <2> QED BY <2>1, <2>2
<1>7. ticks' \in 0 .. 2
  BY <1>6 DEF TicksCounted
<1> QED BY <1>1, <1>2, <1>5, <1>6, <1>7 DEF Inv, TypeOK

LEMMA ClkEdgeInv == Inv /\ ClkEdge => Inv'
<1> SUFFICES ASSUME Inv, ClkEdge PROVE Inv'
    OBVIOUS
<1>1. clkdiv' \in BOOLEAN
  BY Zenon DEF ClkEdge
<1>2. CASE ~clkdiv /\ Pixel
  BY <1>1, <1>2, PixelInv
<1>3. CASE clkdiv /\ UNCHANGED <<hc, vc, hs, vs, ticks, first>>
  BY <1>1, <1>3
     DEF Inv, TypeOK, VsIsRegistered, TicksCounted, Fresh, PreviousLine, PulsePassed
<1> QED BY <1>2, <1>3 DEF ClkEdge

LEMMA StutterInv == Inv /\ UNCHANGED vars => Inv'
BY DEF Inv, TypeOK, VsIsRegistered, TicksCounted, Fresh, PreviousLine,
       PulsePassed, vars

LEMMA AlwaysInv == Init /\ [][Next]_vars => []Inv
<1>1. Inv /\ [Next]_vars => Inv'
  BY ResetInv, ClkEdgeInv, StutterInv DEF Next
<1> QED BY <1>1, InitInv, PTL

(* The counters stay in their frame and vs never rises more than twice in  *)
(* a scan.                                                                 *)
THEOREM BeamInFrame == Spec => []TypeOK
<1>1. Inv => TypeOK
  BY DEF Inv
<1> QED BY <1>1, AlwaysInv, PTL DEF Spec

(* One frame of the game per picture, two in the picture after a reset.    *)
LEMMA OneTickBeam == Init /\ [][Next]_vars => []OneTickPerScan
<1>1. Inv => OneTickPerScan
  BY TimingAssumption
     DEF Inv, TypeOK, TicksCounted, Fresh, PulsePassed, OneTickPerScan, ScanEnds
<1> QED BY <1>1, AlwaysInv, PTL

(* The game never moves while a picture is being drawn, except at the very *)
(* first pixel after a reset (VGA_controller.sv:98..109 against 113..119). *)
LEMMA TicksOffScreenBeam == Init /\ [][Next]_vars => TickIsOffScreen
<1> DEFINE Quiet == Tick => ~display \/ (first /\ hc = 0 /\ vc = 0)
<1>1. Inv /\ [Next]_vars => [Quiet]_vars
  <2> SUFFICES ASSUME Inv, Next, Tick PROVE Quiet
      OBVIOUS
  <2>1. ~Reset
    BY DEF Reset, Tick
  <2>2. Pixel
    BY <2>1 DEF Next, ClkEdge, Tick
  <2>3. CASE Fresh
    BY <2>3 DEF Fresh
  <2>4. CASE vc = VSync + 1
    BY <2>4, TimingAssumption DEF display
  <2> QED BY <2>2, <2>3, <2>4, TickPlaces
<1> QED BY <1>1, AlwaysInv, PTL DEF TickIsOffScreen

----------------------------------------------------------------------------
(***************************************************************************)
(* The ship (Player), on its own, in whatever frames its clock brings.     *)
(***************************************************************************)

(* Positions on the screen, up to the last quarter of the last pixel.      *)
Screen == 0 .. 4 * RightEdge + 3

LEMMA Quarters ==
  ASSUME NEW p \in Nat, NEW q \in Nat, NEW f \in 0 .. 3, p = 4 * q + f
  PROVE  p \div 4 = q
<1>1. p \div 4 \in Nat /\ p % 4 \in 0 .. 3 /\ p = 4 * (p \div 4) + (p % 4)
  OBVIOUS
<1>. DEFINE d == p \div 4
            r == p % 4
<1>2. d \in Nat /\ r \in 0 .. 3 /\ 4 * d + r = 4 * q + f
  BY <1>1
<1>. HIDE DEF d, r
<1>3. d = q
  BY <1>2
<1>. QED
  BY <1>3 DEF d

LEMMA Split ==
  ASSUME NEW p \in Nat
  PROVE  p \div 4 \in Nat /\ p % 4 \in 0 .. 3 /\ p = 4 * (p \div 4) + (p % 4)
  OBVIOUS

(* The bounds put a position that did not wrap on the screen, where it was *)
(* or to the left of it, and keep it on the same side of the left edge.    *)
LEMMA BoundedSmooth ==
  ASSUME NEW p \in 0 .. 4 * RightEdge + 9
  PROVE  /\ Ship!Bounded(p) \in Screen
         /\ Ship!Bounded(p) \div 4 = IF p \div 4 > RightEdge THEN RightEdge ELSE p \div 4
<1>. USE PositionAssumption
<1>1. p \div 4 \in Nat /\ Ship!Fraction(p) \in 0 .. 3 /\ p = 4 * (p \div 4) + Ship!Fraction(p)
  BY Split DEF Ship!Fraction
<1>2. p \div 4 < Overflow
  BY <1>1
<1>3. CASE p \div 4 = 0
  BY <1>3, <1>2, Quarters DEF Ship!Bounded, Screen
<1>4. CASE p \div 4 > RightEdge
  <2>1. Ship!Bounded(p) = 4 * RightEdge + Ship!Fraction(p)
    BY <1>2, <1>4 DEF Ship!Bounded
  <2>. QED
    BY <2>1, <1>1, <1>4, Quarters DEF Screen
<1>5. CASE p \div 4 # 0 /\ p \div 4 <= RightEdge
  <2>1. Ship!Bounded(p) = p
    BY <1>1, <1>2, <1>5 DEF Ship!Bounded
  <2>. QED
    BY <2>1, <1>1, <1>5 DEF Screen
<1>. QED
  BY <1>1, <1>3, <1>4, <1>5

(* A step of six quarters from a position on the screen, wrapped or not,   *)
(* ends on the screen, at most two pixels away.                            *)
LEMMA SmoothMove ==
  ASSUME subpixel_position \in Screen, NEW keycode \in Ship!Keys
  PROVE  /\ Ship!Bounded(Ship!Steered(keycode)) \in Screen
         /\ Ship!Bounded(Ship!Steered(keycode)) \div 4 <= Ship!x_pos + 2
         /\ Ship!x_pos <= (Ship!Bounded(Ship!Steered(keycode)) \div 4) + 2
<1>. USE PositionAssumption DEF Screen
<1>1. Ship!x_pos \in Nat /\ Ship!x_pos <= RightEdge
  BY DEF Ship!x_pos
<1>2. ASSUME NEW p \in 0 .. 4 * RightEdge + 9, Ship!Steered(keycode) = p,
             p <= subpixel_position + 6, subpixel_position <= p + 6
      PROVE  /\ Ship!Bounded(Ship!Steered(keycode)) \in Screen
             /\ Ship!Bounded(Ship!Steered(keycode)) \div 4 <= Ship!x_pos + 2
             /\ Ship!x_pos <= (Ship!Bounded(Ship!Steered(keycode)) \div 4) + 2
  <2>1. p \div 4 <= Ship!x_pos + 2 /\ Ship!x_pos <= (p \div 4) + 2 /\ p \div 4 \in Nat
    BY <1>2 DEF Ship!x_pos
  <2>. QED
    BY <1>1, <1>2, <2>1, BoundedSmooth
<1>3. CASE keycode = "a" /\ subpixel_position >= 6
  <2>1. Ship!Steered(keycode) = subpixel_position - 6
    BY <1>3 DEF Ship!Steered, Ship!Wrapped
  <2>. QED
    BY <1>3, <2>1, <1>2
<1>4. CASE keycode = "a" /\ subpixel_position < 6
  <2>1. Ship!Steered(keycode) = subpixel_position - 6 + 4 * Pixels
    BY <1>4 DEF Ship!Steered, Ship!Wrapped
  <2>2. Ship!Steered(keycode) \div 4 >= Overflow
    BY <1>4, <2>1
  <2>3. Ship!Bounded(Ship!Steered(keycode)) = 0
    BY <2>2 DEF Ship!Bounded
  <2>4. Ship!x_pos <= 1
    BY <1>4 DEF Ship!x_pos
  <2>. QED
    BY <1>1, <2>3, <2>4, Quarters
<1>5. CASE keycode = "d"
  <2>1. Ship!Steered(keycode) = subpixel_position + 6
    BY <1>5 DEF Ship!Steered, Ship!Wrapped
  <2>. QED
    BY <2>1, <1>2
<1>6. CASE keycode \notin {"a", "d"}
  <2>1. Ship!Steered(keycode) = subpixel_position
    BY <1>6 DEF Ship!Steered
  <2>. QED
    BY <2>1, <1>2
<1>. QED
  BY <1>3, <1>4, <1>5, <1>6

(* Inductive form. *)
ScreenInv == subpixel_position \in Screen

LEMMA ScreenInductive == ScreenInv /\ [Ship!Next]_(Ship!vars) => ScreenInv'
<1>1. ASSUME ScreenInv, Ship!Reset PROVE ScreenInv'
  BY <1>1, PositionAssumption DEF Ship!Reset, ScreenInv, Screen, Ship!Fraction
<1>2. ASSUME ScreenInv, Ship!Frame PROVE ScreenInv'
  BY <1>2, SmoothMove DEF Ship!Frame, Ship!Clock, Ship!Move, ScreenInv
<1>. QED
  BY <1>1, <1>2 DEF Ship!Next, Ship!vars, ScreenInv

LEMMA ScreenInvariant == Ship!Spec => []ScreenInv
<1>1. Ship!Init => ScreenInv
  BY PositionAssumption DEF Ship!Init, ScreenInv, Screen
<1>. QED
  BY <1>1, ScreenInductive, PTL DEF Ship!Spec

(* The ship is always on the screen. *)
LEMMA ShipOnScreen == Ship!Spec => []Ship!OnScreen
<1>1. ScreenInv => Ship!OnScreen
  BY PositionAssumption DEF ScreenInv, Screen, Ship!OnScreen, Ship!x_pos
<1>. QED
  BY <1>1, ScreenInvariant, PTL

(* The wrap at the left edge is caught before it shows. *)
LEMMA ShipSmooth == Ship!Spec => Ship!NoTeleport
<1>1. ScreenInv /\ [Ship!Next]_(Ship!vars)
        => [Ship!Reset \/ (Ship!x_pos' <= Ship!x_pos + 2 /\ Ship!x_pos <= Ship!x_pos' + 2)]_(Ship!vars)
  <2>. SUFFICES ASSUME ScreenInv, Ship!Frame
                PROVE  Ship!x_pos' <= Ship!x_pos + 2 /\ Ship!x_pos <= Ship!x_pos' + 2
    BY DEF Ship!Next
  <2>1. PICK keycode \in Ship!Keys : subpixel_position' = Ship!Bounded(Ship!Steered(keycode))
    BY DEF Ship!Frame, Ship!Clock, Ship!Move
  <2>2. Ship!x_pos' = Ship!Bounded(Ship!Steered(keycode)) \div 4
    BY <2>1 DEF Ship!x_pos
  <2>. QED
    BY <2>2, SmoothMove DEF ScreenInv
<1>. QED
  BY <1>1, ScreenInvariant, PTL DEF Ship!Spec, Ship!NoTeleport

----------------------------------------------------------------------------

(* The registers that hold numbers, then those that hold flags. *)
Ranges ==
  /\ subpixel_position \in 0 .. 4 * Pixels - 1
  /\ health \in 0 .. MaxLives
  /\ invincible_counter \in 0 .. Shield + 1

Flags ==
  /\ pmissile_create \in BOOLEAN /\ invincible \in BOOLEAN
  /\ player_unkillable = invincible

LEMMA TypeParts == Ship!TypeOK <=> Ranges /\ Flags
  BY DEF Ship!TypeOK, Ranges, Flags

LEMMA RangesInductive ==
  ASSUME ScreenInv', Ranges, [Ship!Next]_(Ship!vars)
  PROVE  Ranges'
<1>. USE LivesAssumption, PositionAssumption DEF Ranges, ScreenInv, Screen
<1>1. CASE Ship!Reset
  BY <1>1 DEF Ship!Reset
<1>2. CASE Ship!Frame
  <2>1. ASSUME Ship!Vulnerable, Ship!LoseLife PROVE Ranges'
    BY <2>1 DEF Ship!Vulnerable, Ship!LoseLife
  <2>2. ASSUME invincible_counter <= Shield, Ship!CountShield PROVE Ranges'
    BY <2>2 DEF Ship!CountShield
  <2>3. CASE Ship!DropShield
    BY <2>3 DEF Ship!DropShield
  <2>. QED
    BY <1>2, <2>1, <2>2, <2>3 DEF Ship!Frame, Ship!Clock, Ship!TakeHit
<1>3. CASE UNCHANGED Ship!vars
  BY <1>3 DEF Ship!vars
<1>. QED
  BY <1>1, <1>2, <1>3 DEF Ship!Next

LEMMA FlagsInductive ==
  ASSUME Flags, [Ship!Next]_(Ship!vars)
  PROVE  Flags'
<1>. USE DEF Flags
<1>1. CASE Ship!Reset
  BY <1>1, Zenon DEF Ship!Reset
<1>2. CASE Ship!Frame
  <2>1. PICK keycode \in Ship!Keys, pcollision \in BOOLEAN :
          Ship!Move(keycode) /\ Ship!TakeHit(pcollision)
    BY <1>2 DEF Ship!Frame, Ship!Clock
  <2>2. pmissile_create' \in BOOLEAN
    BY <2>1 DEF Ship!Move
  <2>3. CASE Ship!LoseLife
    BY <2>2, <2>3, Zenon DEF Ship!LoseLife
  <2>4. ASSUME invincible = TRUE, Ship!CountShield PROVE Flags'
    BY <2>2, <2>4, Zenon DEF Ship!CountShield
  <2>5. CASE Ship!DropShield
    BY <2>2, <2>5, Zenon DEF Ship!DropShield
  <2>6. Ship!LoseLife \/ (invincible = TRUE /\ Ship!CountShield) \/ Ship!DropShield
    BY <2>1, Zenon DEF Ship!TakeHit
  <2>. QED
    BY <2>3, <2>4, <2>5, <2>6
<1>3. CASE UNCHANGED Ship!vars
  BY <1>3, Zenon DEF Ship!vars
<1>. QED
  BY <1>1, <1>2, <1>3 DEF Ship!Next

(* Lives never go below zero, the counter never outgrows its register and  *)
(* the flag for the display agrees with the shield.                        *)
THEOREM ShipTypeCorrect == Ship!Spec => []Ship!TypeOK
<1>1. Ship!Init => Ranges /\ Flags
  <2>1. Ship!Init => Ranges
    BY LivesAssumption, PositionAssumption DEF Ship!Init, Ranges
  <2>2. Ship!Init => Flags
    BY Zenon DEF Ship!Init, Flags
  <2>. QED
    BY <2>1, <2>2
<1>2. ScreenInv' /\ (Ranges /\ Flags) /\ [Ship!Next]_(Ship!vars) => (Ranges /\ Flags)'
  BY RangesInductive, FlagsInductive
<1>. QED
  BY <1>1, <1>2, TypeParts, ScreenInvariant, PTL DEF Ship!Spec

----------------------------------------------------------------------------
(***************************************************************************)
(* The sway of the array (EnemyController), on its own, in whatever waves. *)
(***************************************************************************)

(* Division by four, for positions that fit the register. *)
LEMMA PixelParts ==
  ASSUME NEW pos \in Nat
  PROVE  /\ Sway!Pixel(pos) \in Nat /\ Sway!Fraction(pos) \in 0 .. 3
         /\ pos = 4 * Sway!Pixel(pos) + Sway!Fraction(pos)
  BY DEF Sway!Pixel, Sway!Fraction

(* One step of one coordinate: where it ends, in which direction, and how  *)
(* far it went in pixels.                                                  *)
LEMMA OneStep ==
  ASSUME NEW far \in 1 .. 1000, NEW pos \in 0 .. 4 * far + 3,
         NEW forward \in BOOLEAN, ~forward => pos >= 4, NEW step \in 1 .. 3
  PROVE  LET moved == Sway!Moved(pos, forward, step)
             next  == Sway!Clamped(moved, far)
         IN  /\ next \in 0 .. 4 * far + 3
             /\ Sway!Turned(moved, forward, far) \in BOOLEAN
             /\ ~Sway!Turned(moved, forward, far) => next >= 4
             /\ Sway!Pixel(next) <= Sway!Pixel(pos) + 1 /\ Sway!Pixel(pos) <= Sway!Pixel(next) + 1
<1>. DEFINE moved == Sway!Moved(pos, forward, step)
            next  == Sway!Clamped(moved, far)
<1>1. /\ moved \in Nat
      /\ forward => moved = pos + step
      /\ ~forward => moved = pos - step
  <2>1. CASE forward
    <3>1. moved = (pos + step) % 4096
      BY <2>1 DEF Sway!Moved
    <3>2. pos + step \in 1 .. 4095
      OBVIOUS
    <3>3. moved = pos + step /\ moved \in Nat
      BY <3>1, <3>2
    <3>. QED
      BY <2>1, <3>3
  <2>2. CASE ~forward
    <3>1. moved = (pos + 4096 - step) % 4096
      BY <2>2 DEF Sway!Moved
    <3>2. pos - step \in 1 .. 4095
      BY <2>2
    <3>3. moved = pos - step /\ moved \in Nat
      BY <3>1, <3>2
    <3>. QED
      BY <2>2, <3>3
  <2>. QED
    BY <2>1, <2>2
<1>2. moved = 4 * Sway!Pixel(moved) + Sway!Fraction(moved) /\ Sway!Fraction(moved) \in 0 .. 3
      /\ Sway!Pixel(moved) \in Nat
  BY <1>1, PixelParts
<1>3. pos = 4 * Sway!Pixel(pos) + Sway!Fraction(pos) /\ Sway!Fraction(pos) \in 0 .. 3
      /\ Sway!Pixel(pos) \in Nat
  BY PixelParts
<1>4. CASE Sway!Pixel(moved) >= far
  <2>1. next = 4 * far + Sway!Fraction(moved)
    BY <1>4 DEF Sway!Clamped
  <2>2. next \in Nat /\ next \in 0 .. 4 * far + 3 /\ next >= 4
    BY <1>2, <2>1
  <2>3. Sway!Pixel(next) = far
    <3>1. \A f \in 0 .. 3 : (4 * far + f) \div 4 = far
      OBVIOUS
    <3>2. Sway!Pixel(next) = next \div 4
      BY DEF Sway!Pixel
    <3>. QED
      BY <1>2, <2>1, <3>1, <3>2
  <2>4. Sway!Pixel(moved) # 0
    BY <1>4, <1>2
  <2>5. Sway!Pixel(pos) <= far /\ far <= Sway!Pixel(pos) + 1
    BY <1>1, <1>2, <1>3, <1>4
  <2>. QED
    BY <1>4, <2>2, <2>3, <2>4, <2>5, <1>3 DEF Sway!Turned
<1>5. CASE ~(Sway!Pixel(moved) >= far)
  <2>1. next = moved
    BY <1>5 DEF Sway!Clamped
  <2>2. next \in 0 .. 4 * far + 3
    BY <1>2, <1>5, <2>1
  <2>3. Sway!Turned(moved, forward, far) = IF Sway!Pixel(moved) = 0 THEN TRUE ELSE forward
    BY <1>5 DEF Sway!Turned
  <2>4. Sway!Pixel(moved) # 0 => moved >= 4
    BY <1>2
  <2>5. Sway!Pixel(moved) <= Sway!Pixel(pos) + 1 /\ Sway!Pixel(pos) <= Sway!Pixel(moved) + 1
    BY <1>1, <1>2, <1>3
  <2>. QED
    BY <2>1, <2>2, <2>3, <2>4, <2>5
<1>. QED
  BY <1>4, <1>5

LEMMA StepRange == \A count \in 1 .. 10 : Sway!Step(count) \in 1 .. 3
  BY DEF Sway!Step, Sway!Slow

LEMMA SweepInductive ==
  ASSUME Sway!TypeOK, Sway!NoUnderflow, NEW count \in 1 .. 10, Sway!Clock(count)
  PROVE  /\ Sway!TypeOK' /\ Sway!NoUnderflow'
         /\ Sway!enemy_posX' <= Sway!enemy_posX + 1 /\ Sway!enemy_posX <= Sway!enemy_posX' + 1
<1>. USE DEF Sway!TypeOK, Sway!NoUnderflow
<1>1. /\ x_pos' \in 0 .. 4 * MaxShift + 3 /\ x_movement' \in BOOLEAN
      /\ ~x_movement' => x_pos' >= 4
      /\ Sway!enemy_posX' <= Sway!enemy_posX + 1 /\ Sway!enemy_posX <= Sway!enemy_posX' + 1
  <2>. DEFINE moved == Sway!Moved(x_pos, x_movement, Sway!Step(count))
              next  == Sway!Clamped(moved, MaxShift)
  <2>1. x_pos' = next /\ x_movement' = Sway!Turned(moved, x_movement, MaxShift)
    BY DEF Sway!Clock, Sway!SweepX
  <2>2. /\ next \in 0 .. 4 * MaxShift + 3
        /\ Sway!Turned(moved, x_movement, MaxShift) \in BOOLEAN
        /\ ~Sway!Turned(moved, x_movement, MaxShift) => next >= 4
        /\ Sway!Pixel(next) <= Sway!Pixel(x_pos) + 1 /\ Sway!Pixel(x_pos) <= Sway!Pixel(next) + 1
    BY StepRange, OneStep, ShiftAssumption
  <2>3. Sway!enemy_posX' = Sway!Pixel(x_pos') /\ Sway!enemy_posX = Sway!Pixel(x_pos)
    BY DEF Sway!enemy_posX, Sway!Pixel
  <2>. QED
    BY <2>1, <2>2, <2>3
<1>2. /\ y_pos' \in 0 .. 4 * MaxDrop + 3 /\ y_movement' \in BOOLEAN
      /\ ~y_movement' => y_pos' >= 4
  <2>1. CASE Sway!Slow(count)
    <3>. DEFINE moved == Sway!Moved(y_pos, y_movement, 1)
                next  == Sway!Clamped(moved, MaxDrop)
    <3>1. y_pos' = next /\ y_movement' = Sway!Turned(moved, y_movement, MaxDrop)
      BY <2>1 DEF Sway!Clock, Sway!SweepY
    <3>2. /\ next \in 0 .. 4 * MaxDrop + 3
          /\ Sway!Turned(moved, y_movement, MaxDrop) \in BOOLEAN
          /\ ~Sway!Turned(moved, y_movement, MaxDrop) => next >= 4
      <4>1. 1 \in 1 .. 3 /\ MaxDrop \in 1 .. 1000
        BY ShiftAssumption
      <4>2. y_pos \in 0 .. 4 * MaxDrop + 3 /\ y_movement \in BOOLEAN
            /\ (~y_movement => y_pos >= 4)
        OBVIOUS
      <4>. HIDE DEF Sway!TypeOK, Sway!NoUnderflow
      <4>. QED
        BY <4>1, <4>2, OneStep
    <3>. QED
      BY <3>1, <3>2
  <2>2. CASE ~Sway!Slow(count)
    BY <2>2 DEF Sway!Clock, Sway!SweepY
  <2>. QED
    BY <2>1, <2>2
<1>. QED
  BY <1>1, <1>2

LEMMA SpanInductive ==
  Sway!TypeOK /\ Sway!NoUnderflow /\ [Sway!Next]_(Sway!vars) => Sway!TypeOK' /\ Sway!NoUnderflow'
<1>. SUFFICES ASSUME Sway!TypeOK, Sway!NoUnderflow, [Sway!Next]_(Sway!vars)
              PROVE  Sway!TypeOK' /\ Sway!NoUnderflow'
  OBVIOUS
<1>1. CASE Sway!Frame
  BY <1>1, SweepInductive DEF Sway!Frame
<1>2. CASE Sway!Reset
  BY <1>2, ShiftAssumption DEF Sway!Reset, Sway!TypeOK, Sway!NoUnderflow
<1>3. CASE UNCHANGED Sway!vars
  BY <1>3 DEF Sway!vars, Sway!TypeOK, Sway!NoUnderflow
<1>. QED
  BY <1>1, <1>2, <1>3 DEF Sway!Next

LEMMA SpanInvariant ==
  Sway!Init /\ [][Sway!Next]_(Sway!vars) => [](Sway!TypeOK /\ Sway!NoUnderflow)
<1>1. Sway!Init => Sway!TypeOK /\ Sway!NoUnderflow
  BY ShiftAssumption DEF Sway!Init, Sway!TypeOK, Sway!NoUnderflow
<1>. QED
  BY <1>1, SpanInductive, PTL

(* The offsets stay in their spans. *)
THEOREM InSpan ==
  Sway!Init /\ [][Sway!Next]_(Sway!vars) => []Sway!TypeOK
  BY SpanInvariant, PTL

(* The 12-bit positions never wrap at the left and upper ends. *)
THEOREM NeverUnderflows ==
  Sway!Init /\ [][Sway!Next]_(Sway!vars) => []Sway!NoUnderflow
  BY SpanInvariant, PTL

(* The array moves by at most a pixel in a frame, at every speed. *)
LEMMA SwaySmooth ==
  Sway!Init /\ [][Sway!Next]_(Sway!vars) => Sway!NoSkippedPixel
<1>1. Sway!TypeOK /\ Sway!NoUnderflow /\ [Sway!Next]_(Sway!vars)
        => [Sway!Reset \/ (Sway!enemy_posX' <= Sway!enemy_posX + 1
                        /\ Sway!enemy_posX <= Sway!enemy_posX' + 1)]_(Sway!vars)
  BY SweepInductive DEF Sway!Next, Sway!Frame
<1>. QED
  BY <1>1, SpanInvariant, PTL DEF Sway!NoSkippedPixel

----------------------------------------------------------------------------
(***************************************************************************)
(* The three together.                                                     *)
(***************************************************************************)

LEMMA PictureInitially == PictureInit => Init /\ Ship!Init /\ Sway!Init
  BY DEF PictureInit

(* Seen from each part, a step of the picture is one of its own or none.   *)
LEMMA PictureSteps ==
  ASSUME [PictureNext]_pictureVars
  PROVE  [Next]_vars /\ [Ship!Next]_(Ship!vars) /\ [Sway!Next]_(Sway!vars)
<1>1. CASE PictureReset
  BY <1>1 DEF PictureReset, Next, Ship!Next, Sway!Next
<1>2. CASE PictureEdge
  <2>1. [Next]_vars
    BY <1>2 DEF PictureEdge, Next
  <2>2. CASE Tick /\ Ship!Frame /\ Sway!Frame
    BY <2>1, <2>2 DEF Ship!Next, Sway!Next
  <2>3. CASE UNCHANGED <<shipVars, swayVars>>
    BY <2>1, <2>3 DEF shipVars, swayVars, Ship!vars, Sway!vars
  <2>. QED
    BY <1>2, <2>2, <2>3 DEF PictureEdge
<1>3. CASE UNCHANGED pictureVars
  BY <1>3 DEF pictureVars, shipVars, swayVars, vars, Ship!vars, Sway!vars
<1>. QED
  BY <1>1, <1>2, <1>3 DEF PictureNext

(* The beam's pulse drives ship and array only as they are specified to be *)
(* driven, so that what was proved of each part alone holds of it in the   *)
(* picture (AstroFighters.sv: VGA_VS is the clock of both).                *)
THEOREM PartsImplemented ==
  PictureSpec => /\ Init /\ [][Next]_vars
                 /\ Ship!Spec
                 /\ Sway!Init /\ [][Sway!Next]_(Sway!vars)
  BY PictureInitially, PictureSteps, PTL DEF PictureSpec, Ship!Spec

(* One frame of the game per picture, two in the picture after a reset.    *)
THEOREM OneTick == PictureSpec => []OneTickPerScan
  BY PartsImplemented, OneTickBeam, PTL

(* The game never moves while a picture is being drawn, except at the very *)
(* first pixel after a reset (VGA_controller.sv:98..109 against 113..119). *)
THEOREM TicksOffScreen == PictureSpec => TickIsOffScreen
  BY PartsImplemented, TicksOffScreenBeam, PTL

(* The ship is always on the screen. *)
THEOREM StaysOnScreen == PictureSpec => []OnScreen
<1>1. OnScreen <=> Ship!OnScreen
  BY DEF OnScreen
<1>. QED
  BY <1>1, PartsImplemented, ShipOnScreen, PTL

(* The wrap at the left edge is caught before it shows. *)
THEOREM NeverTeleports == PictureSpec => NoTeleport
  BY PartsImplemented, ShipSmooth, PTL DEF NoTeleport

(* The array moves by at most a pixel in a frame, at every speed. *)
THEOREM SkipsNoPixel == PictureSpec => NoSkippedPixel
  BY PartsImplemented, SwaySmooth, PTL DEF NoSkippedPixel

LEMMA SceneryIsClocked ==
  ASSUME UNCHANGED <<shipVars, swayVars>>
  PROVE  Scenery' = Scenery
  BY DEF Scenery, shipVars, swayVars, Ship!x_pos, Sway!enemy_posX, Sway!enemy_posY,
         Sway!Pixel

(* Whatever is painted holds still while the beam is on the screen: it has *)
(* no other clock than the pulse, and the pulse comes off the screen.      *)
THEOREM HoldsStill == PictureSpec => PictureHoldsStill
<1>. DEFINE Off == ~display \/ (first /\ hc = 0 /\ vc = 0)
<1>1. [PictureNext]_pictureVars /\ [Tick => Off]_vars
        => [Scenery' = Scenery \/ Reset \/ Off]_pictureVars
  <2>. SUFFICES ASSUME PictureNext, [Tick => Off]_vars
                PROVE  Scenery' = Scenery \/ Reset \/ Off
    OBVIOUS
  <2>1. CASE PictureReset
    BY <2>1 DEF PictureReset
  <2>2. CASE Tick
    BY <2>2 DEF Tick, vars
  <2>3. CASE UNCHANGED <<shipVars, swayVars>>
    BY <2>3, SceneryIsClocked
  <2>. QED
    BY <2>1, <2>2, <2>3 DEF PictureNext, PictureEdge
<1>. HIDE DEF Off
<1>2. PictureSpec => [][Tick => Off]_vars
  BY TicksOffScreen DEF TickIsOffScreen, Off
<1>3. PictureSpec => [][Scenery' = Scenery \/ Reset \/ Off]_pictureVars
  BY <1>1, <1>2, PTL DEF PictureSpec
<1>. QED
  BY <1>3, PTL DEF PictureHoldsStill, Off

=============================================================================
