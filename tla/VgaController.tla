--------------------------- MODULE VgaController ---------------------------
(***************************************************************************)
(* VGA_controller.sv: the beam of the 640x480 picture and the sync pulses. *)
(* The rising edge of vs is the clock of the whole game, so what is shown  *)
(* here of vs is what the other modules assume of their Frame action.      *)
(***************************************************************************)
EXTENDS Naturals

CONSTANTS
  hpixels,      (* 799, last pixel of a line                           *)
  vlines,       (* 524, last line of a frame                           *)
  Width,        (* 640, pixels shown of a line                         *)
  Height,       (* 480, lines shown                                    *)
  HSync,        (* 656, first pixel of the horizontal sync pulse       *)
  HSyncEnd,     (* 752, first pixel after it                           *)
  VSync         (* 490, compared with vc + 1; 491 is the next number   *)

ASSUME TimingAssumption ==
  /\ hpixels \in Nat /\ vlines \in Nat /\ Width \in Nat /\ Height \in Nat
  /\ HSync \in Nat /\ HSyncEnd \in Nat /\ VSync \in Nat
  /\ 0 < Width /\ Width <= HSync /\ HSync < HSyncEnd /\ HSyncEnd <= hpixels
  /\ 0 < Height /\ Height < VSync /\ VSync + 1 < vlines

VARIABLES
  clkdiv,        (* the 25 MHz pixel clock                              *)
  hc, vc,        (* position of the beam, DrawX and DrawY               *)
  hs, vs,        (* sync pulses, low while active                       *)
  ticks,         (* history: rising edges of vs since this scan began   *)
  first          (* history: no scan was completed since reset          *)

vars == <<clkdiv, hc, vc, hs, vs, ticks, first>>

display == hc < Width /\ vc < Height

(* All registers power up at 0, and reset clears them too. *)
Init ==
  /\ clkdiv = FALSE /\ hc = 0 /\ vc = 0
  /\ hs = FALSE /\ vs = FALSE
  /\ ticks = 0 /\ first = TRUE

Reset ==
  /\ clkdiv' = FALSE /\ hc' = 0 /\ vc' = 0
  /\ hs' = FALSE /\ vs' = FALSE
  /\ ticks' = 0 /\ first' = TRUE

(* counter_proc *)
Counters ==
  /\ hc' = IF hc = hpixels THEN 0 ELSE hc + 1
  /\ vc' = IF hc # hpixels THEN vc
           ELSE IF vc = vlines THEN 0 ELSE vc + 1

(* hsync_proc *)
Hsync == hs' = ~(hc + 1 >= HSync /\ hc + 1 < HSyncEnd)

Vsync_PerLine ==
  vs' = ~(vc + 1 \in {VSync, VSync + 1} /\ hc + 1 < HSync)
Vsync_Early == vs' = ~(vc + 1 \in {Height - 2, Height - 1})
(* vsync_proc *)
Vsync == vs' = ~(vc + 1 \in {VSync, VSync + 1})

Tick == ~vs /\ vs'

ScanEnds == hc = hpixels /\ vc = vlines

(* posedge clkdiv *)
Pixel ==
  /\ Counters /\ Hsync /\ Vsync
  /\ ticks' = (IF ScanEnds THEN 0 ELSE ticks) + (IF Tick THEN 1 ELSE 0)
  /\ first' = (first /\ ~ScanEnds)

(* posedge Clk *)
ClkEdge ==
  /\ clkdiv' = ~clkdiv
  /\ \/ ~clkdiv /\ Pixel
     \/ clkdiv /\ UNCHANGED <<hc, vc, hs, vs, ticks, first>>

Next == ClkEdge \/ Reset

(* The oscillator never stops, whatever the button does. *)
Spec == Init /\ [][Next]_vars /\ WF_vars(ClkEdge)

----------------------------------------------------------------------------

TypeOK ==
  /\ hc \in 0 .. hpixels /\ vc \in 0 .. vlines
  /\ clkdiv \in BOOLEAN /\ hs \in BOOLEAN /\ vs \in BOOLEAN /\ first \in BOOLEAN
  /\ ticks \in 0 .. 2

(* The game moves while nothing is being drawn, so that no picture mixes   *)
(* two of its states.  The exception is the frame that follows a reset:    *)
(* reset pulls vs low and its first pixel lets it go again.                *)
TickIsOffScreen ==
  [][Tick => ~display \/ (first /\ hc = 0 /\ vc = 0)]_vars

(* The game advances exactly once per picture, after a reset twice.        *)
OneTickPerScan == ScanEnds => ticks = IF first THEN 2 ELSE 1

(* vsync never stops unless the button is pressed for ever: the fairness   *)
(* the modules of the game assume.                                         *)
GameClockRuns == []<><<Reset>>_vars \/ []<><<Tick>>_vars

(* VGA_controller.sv:98: the pulse is "2 lines ... long at line 490-491".  *)
PulseOnItsLines ==
  ~vs => vc \in VSync .. VSync + 1 \/ (first /\ vc = 0)

============================================================================
