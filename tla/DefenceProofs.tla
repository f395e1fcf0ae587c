--------------------------- MODULE DefenceProofs ---------------------------
(***************************************************************************)
(* Proofs that a missile costs at most one life and that the health bar    *)
(* never shows too much, for every screen, speed and shield that satisfies *)
(* ShieldAssumption.                                                       *)
(***************************************************************************)
EXTENDS Defence, NaturalsInduction, WellFoundedInduction, TLAPS

InBand == missileY \in PlayerTop .. PlayerBottom - 1

(* The start screen or a level: nothing that the shots do not decide.      *)
On == state \in 0 .. NumWaves

Flags ==
  /\ emissile_exists \in BOOLEAN
  /\ pcollision \in BOOLEAN
  /\ invincible \in BOOLEAN

Ranges ==
  /\ missileY \in Nat
  /\ health \in 0 .. MaxLives
  /\ invincible_counter \in Nat
  /\ state \in Nat
  /\ losses \in Nat
  /\ enemy_status \in Fleets \cup {{}}

(* The digits the bar can show; check goes with tens.                      *)
Digits ==
  \/ health_hundreds = 1 /\ health_tens = 0
  \/ health_hundreds = 0 /\ health_tens = 0
  \/ health_hundreds = 0 /\ health_tens \in {2, 4, 6, 8} /\ check = 1

(* Nothing flies on the start screen.                                      *)
Calm == state = 0 => ~emissile_exists /\ losses = 0

(* Only a missile that exists is at the height of the ship.                *)
Quiet == On /\ ~emissile_exists => ~pcollision /\ ~InBand

(* The flag is a frame old: its missile has fallen on since.               *)
Fallen == On /\ pcollision => missileY >= PlayerTop + FallStep

(* After its hit a missile is past the ship, or it has fallen with every   *)
(* frame the shield has counted.                                           *)
Covered ==
  On /\ losses # 0 =>
    /\ losses = 1
    /\ \/ ~pcollision /\ missileY >= PlayerBottom
       \/ invincible /\ missileY >= PlayerTop + (invincible_counter + 2) * FallStep

(* While the flag of a missile without a hit is up, the bar is one life    *)
(* ahead.                                                                  *)
Ahead ==
  On => /\ Display!Shown <= Lives
        /\ pcollision /\ losses = 0 /\ health > 0 => Display!Shown + 20 <= Lives

Inv == Flags /\ Ranges /\ Digits /\ Calm /\ Quiet /\ Fallen /\ Covered /\ Ahead

----------------------------------------------------------------------------

(* The lowest enemy of a column exists: Max returns a row.                 *)
LEMMA LowestRow ==
  ASSUME NEW rows, rows \subseteq 0 .. Rows - 1, rows # {}
  PROVE  Missile!Max(rows) \in Nat
<1> DEFINE Bounds == {n \in Nat : \A r \in rows : r <= n}
<1>1. Rows - 1 \in Bounds
  <2>1. Rows - 1 \in Nat
    BY DefenceAssumption
  <2>2. \A r \in rows : r <= Rows - 1
    BY DefenceAssumption
  <2> QED BY <2>1, <2>2
<1>2. Bounds # {} /\ Bounds \subseteq Nat
  BY <1>1 DEF Bounds
<1> HIDE DEF Bounds
<1>3. PICK least \in Bounds : \A n \in Bounds : ~(<<n, least>> \in OpToRel(<, Nat))
  BY <1>2, NatLessThanWellFounded, WFMin
<1>4. \A n \in Bounds : ~(n < least)
  BY <1>2, <1>3 DEF OpToRel
<1>5. least \in Nat /\ \A r \in rows : r \in Nat /\ r <= least
  <2>1. \A r \in rows : r \in Nat
    OBVIOUS
  <2>2. least \in Nat /\ \A r \in rows : r <= least
    BY DEF Bounds
  <2> QED BY <2>1, <2>2
<1>6. least \in rows
  <2> SUFFICES ASSUME least \notin rows PROVE FALSE
    OBVIOUS
  <2>1. \A r \in rows : r # least
    OBVIOUS
  <2>2. \A r \in rows : r <= least - 1
    BY <1>5, <2>1
  <2>3. PICK r \in rows : TRUE
    OBVIOUS
  <2>4. least - 1 \in Nat
    BY <1>5, <2>2, <2>3
  <2>5. least - 1 \in Bounds
    BY <2>2, <2>4 DEF Bounds
  <2> QED BY <1>4, <1>5, <2>5
<1>7. \E x \in rows : \A y \in rows : x >= y
  BY <1>5, <1>6
<1>8. Missile!Max(rows) \in rows
  BY <1>7 DEF Missile!Max
<1> QED BY <1>5, <1>8

(* A step of the missile, in terms of what the others see of it.           *)
LEMMA MissileSteps ==
  ASSUME Flags, Ranges, Frame
  PROVE  /\ emissile_exists' \in BOOLEAN /\ missileY' \in Nat
         /\ state \notin 1 .. NumWaves => ~emissile_exists' /\ missileY' = missileY
         /\ state \in 1 .. NumWaves /\ emissile_exists /\ missileY < PlayerBottom
              => emissile_exists' /\ missileY' = missileY + FallStep
         /\ state \in 1 .. NumWaves /\ emissile_exists /\ missileY >= PlayerBottom
              => ~emissile_exists' /\ missileY' = missileY
         /\ state \in 1 .. NumWaves /\ ~emissile_exists /\ ~emissile_exists'
              => missileY' = missileY
<1>1. PICK playerX \in ShipPositions, enemy_posX \in Shifts :
        Missile!Clock(playerX, enemy_status, enemy_posX, state)
  BY DEF Frame
<1>2. Missile!Playing(state) <=> state \in 1 .. NumWaves
  BY DefenceAssumption DEF Missile!Playing, Ranges
<1>3. CASE ~Missile!Playing(state) /\ Missile!Clear
  BY <1>2, <1>3 DEF Missile!Clear, Flags, Ranges
<1>4. CASE Missile!Playing(state) /\ ~emissile_exists /\ Missile!Wait
  BY <1>2, <1>4 DEF Missile!Wait, Flags, Ranges
<1>5. CASE /\ Missile!Playing(state) /\ ~emissile_exists
           /\ Missile!Launch(playerX, enemy_status, enemy_posX)
  <2> DEFINE rows == Missile!ColumnAbove(playerX, enemy_status)
  <2>1. rows \subseteq 0 .. Rows - 1
    BY DefenceAssumption DEF Missile!ColumnAbove, Ranges
  <2>2. CASE rows = {}
    BY <1>2, <1>5, <2>2 DEF Missile!Launch, Flags, Ranges
  <2>3. CASE rows # {}
    <3>1. emissile_exists' = TRUE /\ missileY' = RowHeight * (2 + Missile!Max(rows))
      BY <1>5, <2>3 DEF Missile!Launch
    <3>2. Missile!Max(rows) \in Nat
      BY <2>1, <2>3, LowestRow
    <3>3. missileY' \in Nat
      BY <3>1, <3>2, DefenceAssumption
    <3> QED BY <1>2, <1>5, <3>1, <3>3
  <2> QED BY <2>2, <2>3
<1>6. CASE /\ Missile!Playing(state) /\ emissile_exists
           /\ missileY >= PlayerBottom /\ Missile!Vanish
  <2>1. emissile_exists' = FALSE /\ missileY' = missileY
    BY <1>6 DEF Missile!Vanish
  <2>2. missileY' \in Nat
    BY <2>1 DEF Ranges
  <2>3. ~(missileY < PlayerBottom)
    BY <1>6, DefenceAssumption DEF Ranges
  <2> QED BY <1>2, <1>6, <2>1, <2>2, <2>3, Zenon
<1>7. CASE /\ Missile!Playing(state) /\ emissile_exists
           /\ missileY < PlayerBottom /\ Missile!Fall
  BY <1>2, <1>7, DefenceAssumption DEF Missile!Fall, Flags, Ranges
<1> QED BY <1>1, <1>3, <1>4, <1>5, <1>6, <1>7 DEF Missile!Clock

(* What the detector says is about the height of a frame ago.              *)
LEMMA FlagStep ==
  ASSUME Frame
  PROVE  pcollision' \in BOOLEAN /\ (pcollision' => missileY >= PlayerTop /\ missileY < PlayerBottom)
BY DEF Frame, Detector!DetectPlayerHit

(* A step of the lives.                                                    *)
LEMMA LifeSteps ==
  ASSUME Flags, Ranges, Frame
  PROVE  /\ invincible' \in BOOLEAN /\ health' \in 0 .. MaxLives /\ invincible_counter' \in Nat
         /\ pcollision /\ health > 0 /\ ~invincible
              => health' = health - 1 /\ invincible' /\ invincible_counter' = 0
         /\ ~(pcollision /\ health > 0 /\ ~invincible) => health' = health
         /\ invincible /\ invincible_counter <= Shield
              => invincible' /\ invincible_counter' = invincible_counter + 1
<1>1. Ship!TakeHit(pcollision)
  BY DEF Frame
<1>2. CASE pcollision /\ Ship!Vulnerable /\ Ship!LoseLife
  BY <1>2, DefenceAssumption DEF Ship!Vulnerable, Ship!LoseLife, Flags, Ranges
<1>3. CASE ~(pcollision /\ Ship!Vulnerable) /\ Ship!CountShield
             /\ invincible /\ invincible_counter <= Shield
  BY <1>3, DefenceAssumption DEF Ship!Vulnerable, Ship!CountShield, Flags, Ranges
<1>4. CASE ~(pcollision /\ Ship!Vulnerable) /\ Ship!DropShield
             /\ ~(invincible /\ invincible_counter <= Shield)
  BY <1>4, DefenceAssumption DEF Ship!Vulnerable, Ship!DropShield, Flags, Ranges
<1> QED BY <1>1, <1>2, <1>3, <1>4 DEF Ship!TakeHit

(* A step of the bar: 20 less at each edge of the flag, never below 0.     *)
LEMMA BarSteps ==
  ASSUME Digits, Frame
  PROVE  /\ Digits' /\ Display!Shown \in 0 .. 100 /\ Display!Shown' \in 0 .. 100
         /\ pcollision' /\ ~pcollision /\ Display!Shown > 0
              => Display!Shown' + 20 = Display!Shown
         /\ Display!Shown = 0 => Display!Shown' = 0
         /\ ~(pcollision' /\ ~pcollision) => Display!Shown' = Display!Shown
<1>1. CASE pcollision' /\ ~pcollision /\ Display!Drop
  BY <1>1 DEF Digits, Display!Drop, Display!Shown
<1>2. CASE ~(pcollision' /\ ~pcollision) /\ UNCHANGED displayVars
  BY <1>2 DEF Digits, displayVars, Display!Shown
<1> QED BY <1>1, <1>2 DEF Frame

(* A step of the game: the start screen is left for good.                  *)
LEMMA StateSteps ==
  ASSUME Ranges, Frame
  PROVE  /\ state' \in Nat
         /\ state' \in 0 .. NumWaves => state \in 0 .. NumWaves
         /\ state' = 0 => state = 0
<1>1. PICK key : Machine!Clock(key, enemy_status, NumWaves, health)
  BY DEF Frame
<1> QED BY <1>1, DefenceAssumption
        DEF Ranges, Machine!Clock, Machine!NextState, Machine!GameOver

----------------------------------------------------------------------------

LEMMA InitInv == ASSUME Init PROVE Inv
<1>1. emissile_exists = FALSE /\ missileY = 0
  BY DEF Init, Missile!Init
<1>2. health_hundreds = 1 /\ health_tens = 0 /\ state = 0
  BY DEF Init, Display!Init, Machine!Init
<1>3. Flags /\ Ranges /\ Digits
  <2>1. Flags
    BY <1>1 DEF Init, Flags
  <2>2. Ranges /\ Digits
    BY <1>1, <1>2, DefenceAssumption DEF Init, Ranges, Digits
  <2> QED BY <2>1, <2>2
<1>4. ~InBand
  BY <1>1, DefenceAssumption DEF InBand
<1>5. Calm /\ Quiet /\ Fallen /\ Covered
  BY <1>1, <1>4 DEF Init, Calm, Quiet, Fallen, Covered
<1>6. Ahead
  BY <1>2, DefenceAssumption DEF Init, Ahead, Display!Shown, Lives
<1> QED BY <1>3, <1>5, <1>6 DEF Inv

LEMMA ResetInv == ASSUME Inv, CleanReset PROVE Inv'
<1>1. emissile_exists' = FALSE /\ missileY' = missileY
  BY DEF CleanReset, Reset, Missile!Reset, Missile!Clear
<1>2. health_hundreds' = 1 /\ health_tens' = 0 /\ state' = 0
  BY DEF CleanReset, Reset, Display!Reset, Machine!Reset
<1>3. (Flags /\ Ranges /\ Digits)'
  <2>1. Flags'
    BY <1>1 DEF CleanReset, Reset, Flags
  <2>2. (Ranges /\ Digits)'
    BY <1>1, <1>2, DefenceAssumption DEF Inv, CleanReset, Reset, Ranges, Digits
  <2> QED BY <2>1, <2>2
<1>4. ~InBand'
  BY <1>1 DEF CleanReset, InBand
<1>5. (Calm /\ Quiet /\ Fallen /\ Covered)'
  BY <1>1, <1>4 DEF CleanReset, Reset, Calm, Quiet, Fallen, Covered
<1>6. Ahead'
  BY <1>2, DefenceAssumption DEF CleanReset, Reset, Ahead, Display!Shown, Lives
<1> QED BY <1>3, <1>5, <1>6 DEF Inv

LEMMA AddedLoss ==
  ASSUME NEW before \in Nat, NEW after \in Nat, after <= before, NEW sum \in Nat
  PROVE  sum + (before - after) \in Nat
OBVIOUS

(* A frame in which the missile is launched comes after its predecessor's  *)
(* last hit: no life is lost in it.                                        *)
LEMMA LossStep ==
  ASSUME Inv, Frame
  PROVE  /\ losses' \in Nat
         /\ ~emissile_exists /\ emissile_exists' => losses' = 0
         /\ ~(~emissile_exists /\ emissile_exists') => losses' = losses + (health - health')
         /\ ~emissile_exists /\ emissile_exists' /\ On => health' = health
<1>1. health' \in Nat /\ health \in Nat /\ losses \in Nat
  BY LifeSteps, DefenceAssumption DEF Inv, Ranges
<1>2. health' <= health
  BY LifeSteps, DefenceAssumption DEF Inv, Flags, Ranges
<1>3. losses' = IF ~emissile_exists /\ emissile_exists' THEN 0 ELSE losses + (health - health')
  BY DEF Frame
<1>4. losses' \in Nat
  BY <1>1, <1>2, <1>3, AddedLoss
<1>5. ~emissile_exists /\ On => health' = health
  BY LifeSteps DEF Inv, Quiet
<1> QED BY <1>3, <1>4, <1>5

(* An edge takes a life off the bar, if the bar has one.                   *)
LEMMA EdgeKeepsAhead ==
  ASSUME NEW old \in 0 .. 100, NEW new \in 0 .. 100, NEW lives \in Nat, old <= 20 * lives,
         old > 0 => new + 20 = old,
         old = 0 => new = 0
  PROVE  new <= 20 * lives /\ (lives > 0 => new + 20 <= 20 * lives)
OBVIOUS

LEMMA FrameInv == ASSUME Inv, Frame PROVE Inv'
<1> USE DefenceAssumption
<1>1. Flags' /\ Digits'
  BY MissileSteps, FlagStep, LifeSteps, BarSteps DEF Inv, Flags
<1>2. Ranges'
  <2>1. (enemy_status \in Fleets \cup {{}})'
    BY DEF Frame, Battle, Inv, Ranges
  <2> QED BY <2>1, MissileSteps, LifeSteps, StateSteps, LossStep DEF Inv, Ranges
<1>3. On' => On
  BY StateSteps DEF Inv, On
<1>4. Calm'
  <2> SUFFICES ASSUME state' = 0 PROVE ~emissile_exists' /\ losses' = 0
    BY DEF Calm
  <2>1. state = 0 /\ ~emissile_exists /\ losses = 0 /\ On
    BY StateSteps DEF Inv, Calm, On
  <2>2. ~emissile_exists'
    BY <2>1, MissileSteps DEF Inv
  <2>3. health' = health
    BY <2>1, LifeSteps DEF Inv, Quiet
  <2> QED BY <2>1, <2>2, <2>3, LossStep DEF Inv, Ranges
<1>5. Quiet'
  <2> SUFFICES ASSUME On', ~emissile_exists' PROVE ~pcollision' /\ ~InBand'
    BY DEF Quiet
  <2>1. CASE ~emissile_exists
    <3>1. missileY' = missileY
      BY <1>3, <2>1, MissileSteps DEF Inv, On, Ranges
    <3>2. ~InBand
      BY <1>3, <2>1 DEF Inv, Quiet
    <3> QED BY <3>1, <3>2, FlagStep DEF Inv, InBand, Ranges
  <2>2. CASE emissile_exists
    <3>1. state \in 1 .. NumWaves
      BY <1>3, <2>2 DEF Inv, Calm, On
    <3>2. missileY >= PlayerBottom /\ missileY' = missileY
      BY <2>2, <3>1, MissileSteps DEF Inv, Ranges
    <3> QED BY <3>2, FlagStep DEF Inv, InBand, Ranges
  <2> QED BY <2>1, <2>2
<1>6. Fallen'
  <2> SUFFICES ASSUME On', pcollision' PROVE missileY' >= PlayerTop + FallStep
    BY DEF Fallen
  <2>1. missileY >= PlayerTop /\ missileY < PlayerBottom
    BY FlagStep
  <2>2. emissile_exists
    BY <1>3, <2>1 DEF Inv, Quiet, InBand, Ranges
  <2>3. state \in 1 .. NumWaves
    BY <1>3, <2>2 DEF Inv, Calm, On
  <2>4. missileY' = missileY + FallStep
    BY <2>1, <2>2, <2>3, MissileSteps DEF Inv
  <2> QED BY <2>1, <2>4 DEF Inv, Ranges
<1>7. Covered'
  <2> SUFFICES ASSUME On', losses' # 0 PROVE Covered'
    BY DEF Covered
  <2>1. ~(~emissile_exists /\ emissile_exists') /\ losses' = losses + (health - health')
    BY LossStep
  <2>2. state \in 1 .. NumWaves
    <3>1. state # 0
      BY <2>1, LifeSteps DEF Inv, Calm, Quiet, On, Ranges
    <3> QED BY <1>3, <3>1 DEF Inv, On, Ranges
  <2>3. CASE losses # 0
    <3>1. losses = 1
      BY <1>3, <2>3 DEF Inv, Covered
    <3>2. CASE ~pcollision /\ missileY >= PlayerBottom
      <4>1. losses' = 1
        BY <2>1, <3>1, <3>2, LifeSteps DEF Inv, Ranges
      <4>2. ~pcollision'
        BY <3>2, FlagStep DEF Inv, Ranges
      <4>3. missileY' = missileY
        BY <2>1, <2>2, <3>2, MissileSteps DEF Inv, Flags
      <4> QED BY <3>2, <4>1, <4>2, <4>3 DEF Covered
    <3>3. CASE invincible /\ missileY >= PlayerTop + (invincible_counter + 2) * FallStep
      <4>1. losses' = 1
        BY <2>1, <3>1, <3>3, LifeSteps DEF Inv, Ranges
      <4>2. CASE missileY >= PlayerBottom
        <5>1. ~pcollision'
          BY <4>2, FlagStep DEF Inv, Ranges
        <5>2. missileY' = missileY
          BY <2>1, <2>2, <4>2, MissileSteps DEF Inv, Flags
        <5> QED BY <4>1, <4>2, <5>1, <5>2 DEF Covered
      <4>3. CASE missileY < PlayerBottom
        <5>1. invincible_counter <= Shield
          <6> SUFFICES ASSUME invincible_counter > Shield PROVE FALSE
            BY DEF Inv, Ranges
          <6>1. invincible_counter + 2 >= Shield + 3
            BY DEF Inv, Ranges
          <6>2. (invincible_counter + 2) * FallStep >= (Shield + 3) * FallStep
            BY <6>1 DEF Inv, Ranges
          <6>3. missileY >= PlayerBottom
            BY <3>3, <6>2, ShieldAssumption DEF Inv, Ranges
          <6> QED BY <4>3, <6>3 DEF Inv, Ranges
        <5>2. invincible' /\ invincible_counter' = invincible_counter + 1
          BY <3>3, <5>1, LifeSteps DEF Inv
        <5>3. emissile_exists
          <6>1. missileY >= PlayerTop
            BY <3>3 DEF Inv, Ranges
          <6> QED BY <1>3, <4>3, <6>1 DEF Inv, Quiet, InBand, Ranges
        <5>4. missileY' = missileY + FallStep
          BY <2>2, <4>3, <5>3, MissileSteps DEF Inv
        <5>5. (invincible_counter' + 2) * FallStep = (invincible_counter + 2) * FallStep + FallStep
          BY <5>2 DEF Inv, Ranges
        <5>6. missileY' >= PlayerTop + (invincible_counter' + 2) * FallStep
          BY <3>3, <5>4, <5>5 DEF Inv, Ranges
        <5> QED BY <4>1, <5>2, <5>6 DEF Covered
      <4> QED BY <4>2, <4>3 DEF Inv, Ranges
    <3> QED BY <1>3, <2>3, <3>2, <3>3 DEF Inv, Covered
  <2>4. CASE losses = 0
    <3>1. pcollision /\ health > 0 /\ ~invincible
      BY <2>1, <2>4, LifeSteps DEF Inv, Ranges
    <3>2. invincible' /\ invincible_counter' = 0 /\ losses' = 1
      BY <2>1, <2>4, <3>1, LifeSteps DEF Inv, Ranges
    <3>3. emissile_exists /\ missileY >= PlayerTop + FallStep
      BY <1>3, <3>1 DEF Inv, Quiet, Fallen
    <3>4. CASE missileY < PlayerBottom
      <4>1. missileY' = missileY + FallStep
        BY <2>2, <3>3, <3>4, MissileSteps DEF Inv
      <4>2. (invincible_counter' + 2) * FallStep = FallStep + FallStep
        BY <3>2
      <4>3. missileY' >= PlayerTop + (invincible_counter' + 2) * FallStep
        BY <3>3, <4>1, <4>2 DEF Inv, Ranges
      <4> QED BY <3>2, <4>3 DEF Covered
    <3>5. CASE missileY >= PlayerBottom
      <4>1. missileY' = missileY
        BY <2>2, <3>3, <3>5, MissileSteps DEF Inv
      <4>2. ~pcollision'
        BY <3>5, FlagStep DEF Inv, Ranges
      <4> QED BY <3>2, <3>5, <4>1, <4>2 DEF Covered
    <3> QED BY <3>4, <3>5 DEF Inv, Ranges
  <2> QED BY <2>3, <2>4
<1>8. Ahead'
  <2> SUFFICES ASSUME On' PROVE Ahead'
    BY DEF Ahead
  <2> DEFINE shown == Display!Shown
  <2>1. shown \in 0 .. 100 /\ shown' \in 0 .. 100
    BY BarSteps DEF Inv
  <2>2. shown <= 20 * health /\ (pcollision /\ losses = 0 /\ health > 0 => shown + 20 <= 20 * health)
    BY <1>3 DEF Inv, Ahead, Lives
  <2>3. health \in Nat /\ health' \in Nat /\ losses \in Nat
    BY LifeSteps DEF Inv, Ranges
  <2>4. CASE pcollision' /\ ~pcollision
    <3>1. health' = health
      BY <2>4, LifeSteps DEF Inv
    <3>2. /\ shown > 0 => shown' + 20 = shown
          /\ shown = 0 => shown' = 0
      BY <2>4, BarSteps DEF Inv
    <3>3. shown' <= 20 * health /\ (health > 0 => shown' + 20 <= 20 * health)
      BY <2>1, <2>2, <2>3, <3>2, EdgeKeepsAhead
    <3> QED BY <3>1, <3>3 DEF Ahead, Lives
  <2>5. CASE ~(pcollision' /\ ~pcollision)
    <3>1. shown' = shown
      BY <2>5, BarSteps DEF Inv
    <3>2. CASE pcollision /\ health > 0 /\ ~invincible
      <4>1. health' = health - 1
        BY <3>2, LifeSteps DEF Inv
      <4>2. losses = 0
        BY <1>3, <3>2 DEF Inv, Covered
      <4>3. losses' # 0
        <5>1. emissile_exists
          BY <1>3, <3>2 DEF Inv, Quiet
        <5> QED BY <2>3, <4>1, <4>2, <5>1, LossStep
      <4> HIDE DEF shown
      <4>4. shown' <= 20 * health'
        BY <2>1, <2>2, <2>3, <3>1, <3>2, <4>1, <4>2
      <4> QED BY <4>3, <4>4 DEF Ahead, Lives, shown
    <3>3. CASE ~(pcollision /\ health > 0 /\ ~invincible)
      <4>1. health' = health
        BY <3>3, LifeSteps DEF Inv
      <4>2. pcollision' /\ losses' = 0 => pcollision /\ losses = 0
        <5> SUFFICES ASSUME pcollision', losses' = 0 PROVE pcollision /\ losses = 0
          OBVIOUS
        <5>1. pcollision
          BY <2>5 DEF Inv, Flags
        <5>2. emissile_exists
          BY <1>3, <5>1 DEF Inv, Quiet
        <5>3. losses' = losses + (health - health')
          BY <5>2, LossStep
        <5>4. losses = 0
          BY <2>3, <4>1, <5>3
        <5> QED BY <5>1, <5>4
      <4> HIDE DEF shown
      <4>3. shown' <= 20 * health' /\ (pcollision' /\ losses' = 0 /\ health' > 0 => shown' + 20 <= 20 * health')
        BY <2>2, <3>1, <4>1, <4>2
      <4> QED BY <4>3 DEF Ahead, Lives, shown
    <3> QED BY <3>2, <3>3
  <2> QED BY <2>4, <2>5
<1> QED BY <1>1, <1>2, <1>4, <1>5, <1>6, <1>7, <1>8 DEF Inv

LEMMA Invariant == CleanSpec => []Inv
<1>1. Inv /\ [CleanNext]_vars => Inv'
  <2> SUFFICES ASSUME Inv, [CleanNext]_vars PROVE Inv'
    OBVIOUS
  <2>1. CASE Frame
    BY <2>1, FrameInv
  <2>2. CASE CleanReset
    BY <2>2, ResetInv
  <2>3. CASE UNCHANGED vars
    BY <2>3, Zenon
    DEF vars, Inv, Flags, Ranges, Digits, Calm, Quiet, Fallen, Covered, Ahead,
        On, InBand, Lives, Display!Shown
  <2> QED BY <2>1, <2>2, <2>3 DEF CleanNext
<1> QED BY InitInv, <1>1, PTL DEF CleanSpec

(* A missile costs at most one life in a level, for every shield that      *)
(* outlasts its fall across the ship, however the ship moves under it and  *)
(* although the flag stays high (player.sv:50).                            *)
THEOREM OneLife == CleanSpec => []OneLifePerMissile
<1>1. Inv => OneLifePerMissile
  BY DefenceAssumption DEF Inv, Ranges, Covered, On, OneLifePerMissile, Level
<1> QED BY <1>1, Invariant, PTL

(* The bar, clocked by edges of the flag, is never above the lives, which  *)
(* look at its level a frame later (health.sv:27).                         *)
THEOREM NeverFlatters == CleanSpec => []DisplayNeverFlatters
<1>1. Inv => DisplayNeverFlatters
  BY DefenceAssumption DEF Inv, Ranges, Ahead, On, DisplayNeverFlatters, Level
<1> QED BY <1>1, Invariant, PTL

============================================================================
