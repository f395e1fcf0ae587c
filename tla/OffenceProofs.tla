--------------------------- MODULE OffenceProofs ---------------------------
(***************************************************************************)
(* For every geometry that GeometryAssumption admits, Offence drives the   *)
(* enemy array as EnemyStatus is specified to be driven, reads it inside   *)
(* its bounds and hits what is drawn.                                      *)
(***************************************************************************)
EXTENDS Offence, TLAPS

(* A flag that rises names a living enemy. *)
LEMMA RisesOnLiving ==
  ASSUME Frame, ecollision'
  PROVE  enemy_hit' \in enemy_status
  BY DEF Frame, Detector!DetectEnemyHit

LEMMA StepDrivesArray == [Next]_vars => [Array!CleanNext]_(Array!vars)
<1>. SUFFICES ASSUME [Next]_vars
              PROVE  [Array!CleanNext]_(Array!vars)
  OBVIOUS
<1>1. ASSUME Frame, RisingEdge
      PROVE  Array!Hit
  <2>1. enemy_hit' \in enemy_status
    BY <1>1, RisesOnLiving DEF RisingEdge
  <2>2. sig < MaxSig /\ Array!Collision(enemy_hit')
    BY <1>1 DEF Frame, ArrayClock
  <2>. QED
    BY <2>1, <2>2 DEF Array!Hit
<1>2. ASSUME Frame, ~RisingEdge
      PROVE  UNCHANGED Array!vars
  BY <1>2 DEF Frame, ArrayClock, arrayVars, Array!vars
<1>3. CASE CleanReset
  BY <1>3 DEF CleanReset, Reset, Array!CleanNext, Array!CleanReset
<1>4. CASE UNCHANGED vars
  BY <1>4 DEF vars, Array!vars
<1>. QED
  BY <1>1, <1>2, <1>3, <1>4 DEF Next, Array!CleanNext

(* Every kill of the composed system is one the enemy array expects: what  *)
(* is proved of EnemyStatus with clean resets holds in Offence.            *)
THEOREM OffenceDrivesArray == Spec => DrivesArray
<1>1. Init => Array!Init
  BY DEF Init
<1>. QED
  BY <1>1, StepDrivesArray, PTL DEF Spec, DrivesArray, Array!CleanSpec

----------------------------------------------------------------------------

(***************************************************************************)
(* Division, by the powers of two that the source cuts out as bits and by  *)
(* any other number.                                                       *)
(***************************************************************************)

LEMMA Parts ==
  ASSUME NEW x \in Nat, NEW p \in Nat \ {0}
  PROVE  /\ x \div p \in Nat /\ x % p \in 0 .. p - 1
         /\ x = (x \div p) * p + (x % p)
  BY Z3T(30)

LEMMA Compose ==
  ASSUME NEW x \in Nat, NEW p \in Nat \ {0}, NEW q \in Nat, NEW r \in 0 .. p - 1,
         x = q * p + r
  PROVE  x \div p = q /\ x % p = r
<1>1. /\ x \div p \in Nat /\ x % p \in 0 .. p - 1
      /\ x = (x \div p) * p + (x % p)
  BY Parts
<1>. DEFINE d == x \div p
            m == x % p
<1>2. d \in Nat /\ m \in 0 .. p - 1 /\ d * p + m = q * p + r
  BY <1>1
<1>. HIDE DEF d, m
<1>3. d = q
  <2>1. ~(d < q)
    <3>1. ASSUME d + 1 <= q  PROVE (d + 1) * p <= q * p
      BY <1>2, <3>1, Z3T(30)
    <3>2. (d + 1) * p = d * p + p /\ d * p \in Nat /\ q * p \in Nat
      BY <1>2
    <3>. QED
      BY <1>2, <3>1, <3>2
  <2>2. ~(q < d)
    <3>1. ASSUME q + 1 <= d  PROVE (q + 1) * p <= d * p
      BY <1>2, <3>1, Z3T(30)
    <3>2. (q + 1) * p = q * p + p /\ d * p \in Nat /\ q * p \in Nat
      BY <1>2
    <3>. QED
      BY <1>2, <3>1, <3>2
  <2>. QED
    BY <1>2, <2>1, <2>2
<1>4. m = r
  <2>1. d * p = q * p /\ q * p \in Nat
    BY <1>2, <1>3
  <2>. QED
    BY <1>2, <2>1
<1>. QED
  BY <1>3, <1>4 DEF d, m

LEMMA QuotientBelow ==
  ASSUME NEW x \in Nat, NEW p \in Nat \ {0}, NEW q \in Nat
  PROVE  x \div p < q <=> x < q * p
<1>1. /\ x \div p \in Nat /\ x % p \in 0 .. p - 1
      /\ x = (x \div p) * p + (x % p)
  BY Parts
<1>. DEFINE d == x \div p
            m == x % p
<1>2. d \in Nat /\ m \in 0 .. p - 1 /\ x = d * p + m /\ d * p \in Nat /\ q * p \in Nat
  BY <1>1
<1>. HIDE DEF d, m
<1>3. ASSUME d < q  PROVE x < q * p
  <2>1. (d + 1) * p <= q * p
    BY <1>2, <1>3, Z3T(30)
  <2>2. (d + 1) * p = d * p + p
    BY <1>2
  <2>. QED
    BY <1>2, <2>1, <2>2
<1>4. ASSUME q <= d  PROVE q * p <= x
  <2>1. q * p <= d * p
    BY <1>2, <1>4, Z3T(30)
  <2>. QED
    BY <1>2, <2>1
<1>. QED
  BY <1>2, <1>3, <1>4 DEF d

(* A multiple of the step that is not 0 is at least one step high.         *)
LEMMA StepDown ==
  ASSUME NEW y \in Nat, NEW s \in Nat \ {0}, y % s = 0, y # 0
  PROVE  y - s \in Nat /\ (y - s) % s = 0
<1>. DEFINE d == y \div s
<1>1. d \in Nat /\ y = d * s
  BY Parts
<1>. HIDE DEF d
<1>2. d # 0
  BY <1>1
<1>3. y - s = (d - 1) * s + 0 /\ d - 1 \in Nat
  BY <1>1, <1>2
<1>4. (d - 1) * s \in Nat
  BY <1>3
<1>5. y - s \in Nat
  BY <1>3, <1>4
<1>. QED
  BY <1>3, <1>5, Compose

(* A subtraction that wraps by less than half a column ends in the right   *)
(* half of one.                                                            *)
LEMMA WrapsRight ==
  ASSUME NEW m \in Nat \ {0}, NEW p \in Nat \ {0}, m % p = 0,
         NEW d \in Nat \ {0}, d <= p \div 2
  PROVE  ~((m - d) % p < p \div 2)
<1>. DEFINE q == m \div p
<1>1. q \in Nat /\ m = q * p
  BY Parts
<1>. HIDE DEF q
<1>2. q # 0
  BY <1>1
<1>3. p - d \in 0 .. p - 1 /\ p \div 2 <= p - d
  OBVIOUS
<1>4. q - 1 \in Nat /\ m - d = (q - 1) * p + (p - d) /\ (q - 1) * p \in Nat
  BY <1>1, <1>2
<1>5. m - d \in Nat
  BY <1>3, <1>4
<1>6. (m - d) % p = p - d
  BY <1>3, <1>4, <1>5, Compose
<1>. QED
  BY <1>3, <1>6

----------------------------------------------------------------------------

(* Division by four, for positions that fit the register. *)
LEMMA PixelParts ==
  ASSUME NEW pos \in Nat
  PROVE  /\ Controller!Pixel(pos) \in Nat /\ Controller!Fraction(pos) \in 0 .. 3
         /\ pos = 4 * Controller!Pixel(pos) + Controller!Fraction(pos)
  BY DEF Controller!Pixel, Controller!Fraction

(* One step of one coordinate: where it ends, in which direction, and how  *)
(* far it went in pixels.                                                  *)
LEMMA OneStep ==
  ASSUME NEW far \in 1 .. 1000, NEW pos \in 0 .. 4 * far + 3,
         NEW forward \in BOOLEAN, ~forward => pos >= 4, NEW step \in 1 .. 3
  PROVE  LET moved == Controller!Moved(pos, forward, step)
             next  == Controller!Clamped(moved, far)
         IN  /\ next \in 0 .. 4 * far + 3
             /\ Controller!Turned(moved, forward, far) \in BOOLEAN
             /\ ~Controller!Turned(moved, forward, far) => next >= 4
             /\ Controller!Pixel(next) <= Controller!Pixel(pos) + 1 /\ Controller!Pixel(pos) <= Controller!Pixel(next) + 1
<1>. DEFINE moved == Controller!Moved(pos, forward, step)
            next  == Controller!Clamped(moved, far)
<1>1. /\ moved \in Nat
      /\ forward => moved = pos + step
      /\ ~forward => moved = pos - step
  <2>1. CASE forward
    <3>1. moved = (pos + step) % 4096
      BY <2>1 DEF Controller!Moved
    <3>2. pos + step \in 1 .. 4095
      OBVIOUS
    <3>3. moved = pos + step /\ moved \in Nat
      BY <3>1, <3>2
    <3>. QED
      BY <2>1, <3>3
  <2>2. CASE ~forward
    <3>1. moved = (pos + 4096 - step) % 4096
      BY <2>2 DEF Controller!Moved
    <3>2. pos - step \in 1 .. 4095
      BY <2>2
    <3>3. moved = pos - step /\ moved \in Nat
      BY <3>1, <3>2
    <3>. QED
      BY <2>2, <3>3
  <2>. QED
    BY <2>1, <2>2
<1>2. moved = 4 * Controller!Pixel(moved) + Controller!Fraction(moved) /\ Controller!Fraction(moved) \in 0 .. 3
      /\ Controller!Pixel(moved) \in Nat
  BY <1>1, PixelParts
<1>3. pos = 4 * Controller!Pixel(pos) + Controller!Fraction(pos) /\ Controller!Fraction(pos) \in 0 .. 3
      /\ Controller!Pixel(pos) \in Nat
  BY PixelParts
<1>4. CASE Controller!Pixel(moved) >= far
  <2>1. next = 4 * far + Controller!Fraction(moved)
    BY <1>4 DEF Controller!Clamped
  <2>2. next \in Nat /\ next \in 0 .. 4 * far + 3 /\ next >= 4
    BY <1>2, <2>1
  <2>3. Controller!Pixel(next) = far
    <3>1. \A f \in 0 .. 3 : (4 * far + f) \div 4 = far
      OBVIOUS
    <3>2. Controller!Pixel(next) = next \div 4
      BY DEF Controller!Pixel
    <3>. QED
      BY <1>2, <2>1, <3>1, <3>2
  <2>4. Controller!Pixel(moved) # 0
    BY <1>4, <1>2
  <2>5. Controller!Pixel(pos) <= far /\ far <= Controller!Pixel(pos) + 1
    BY <1>1, <1>2, <1>3, <1>4
  <2>. QED
    BY <1>4, <2>2, <2>3, <2>4, <2>5, <1>3 DEF Controller!Turned
<1>5. CASE ~(Controller!Pixel(moved) >= far)
  <2>1. next = moved
    BY <1>5 DEF Controller!Clamped
  <2>2. next \in 0 .. 4 * far + 3
    BY <1>2, <1>5, <2>1
  <2>3. Controller!Turned(moved, forward, far) = IF Controller!Pixel(moved) = 0 THEN TRUE ELSE forward
    BY <1>5 DEF Controller!Turned
  <2>4. Controller!Pixel(moved) # 0 => moved >= 4
    BY <1>2
  <2>5. Controller!Pixel(moved) <= Controller!Pixel(pos) + 1 /\ Controller!Pixel(pos) <= Controller!Pixel(moved) + 1
    BY <1>1, <1>2, <1>3
  <2>. QED
    BY <2>1, <2>2, <2>3, <2>4, <2>5
<1>. QED
  BY <1>4, <1>5

----------------------------------------------------------------------------

(* The coordinates of the missile: none yet, or those of a shot from the   *)
(* ship, at a height that is a multiple of the step.                       *)
MissileInv ==
  \/ playerMissileX = 0 /\ playerMissileY = 0
  \/ /\ playerMissileX \in Muzzle .. Columns * Pitch - 1
     /\ playerMissileY \in 0 .. FireY
     /\ playerMissileY % MissileStep = 0

SwayInv ==
  /\ x_pos \in 0 .. 4 * MaxShift + 3 /\ x_movement \in BOOLEAN
  /\ ~x_movement => x_pos >= 4

LEMMA Numbers ==
  /\ Modulus \in Nat \ {0} /\ Pitch \in Nat \ {0} /\ RowHeight \in Nat \ {0}
  /\ Rows \in Nat \ {0} /\ Columns \in Nat \ {0} /\ FireY \in Nat \ {0}
  /\ MissileStep \in Nat \ {0} /\ Muzzle \in Nat /\ MaxShift \in 1 .. 1000
  /\ Columns * Pitch \in Nat /\ Pitch \div 2 \in Nat
  BY GeometryAssumption

LEMMA MissileInductive ==
  ASSUME MissileInv, [Next]_vars
  PROVE  MissileInv'
<1>. USE DEF MissileInv
<1>1. CASE CleanReset
  BY <1>1 DEF CleanReset, Reset, Missile!Reset
<1>2. CASE Frame
  <2>1. PICK playerx \in ShipPositions, create \in BOOLEAN :
          Missile!Clock(playerx, create, ecollision)
    BY <1>2 DEF Frame
  <2>2. CASE Missile!Erase
    BY <2>2 DEF Missile!Erase, Missile!position
  <2>3. CASE Missile!Fire(playerx)
    <3>1. playerMissileX' = playerx + Muzzle /\ playerMissileY' = FireY
      BY <2>3 DEF Missile!Fire
    <3>2. playerx \in Nat /\ playerx + Muzzle < Columns * Pitch /\ FireY % MissileStep = 0
      BY GeometryAssumption
    <3>. QED
      BY <3>1, <3>2, Numbers
  <2>4. CASE UNCHANGED <<pmissile_exists, Missile!position>>
    BY <2>4 DEF Missile!position
  <2>5. ASSUME playerMissileY # 0, Missile!Climb
        PROVE  MissileInv'
    <3>1. playerMissileX' = playerMissileX /\ playerMissileY' = playerMissileY - MissileStep
      BY <2>5 DEF Missile!Climb
    <3>2. /\ playerMissileX \in Muzzle .. Columns * Pitch - 1 /\ playerMissileY \in 0 .. FireY
          /\ playerMissileY % MissileStep = 0
      BY <2>5
    <3>3. /\ playerMissileY - MissileStep \in Nat
          /\ (playerMissileY - MissileStep) % MissileStep = 0
      <4>1. playerMissileY \in Nat /\ playerMissileY # 0 /\ MissileStep \in Nat \ {0}
        BY <2>5, <3>2, Numbers
      <4>. QED
        BY <3>2, <4>1, StepDown, Zenon
    <3>4. playerMissileX' \in Muzzle .. Columns * Pitch - 1
      BY <3>1, <3>2
    <3>5. playerMissileY - MissileStep <= FireY
      BY <3>2, Numbers
    <3>6. playerMissileY' \in 0 .. FireY
      BY <3>1, <3>3, <3>5, Numbers
    <3>7. playerMissileY' % MissileStep = 0
      BY <3>1, <3>3
    <3>. QED
      BY <3>4, <3>6, <3>7
  <2>. QED
    BY <2>1, <2>2, <2>3, <2>4, <2>5 DEF Missile!Clock
<1>3. CASE UNCHANGED vars
  BY <1>3 DEF vars
<1>. QED
  BY <1>1, <1>2, <1>3 DEF Next

LEMMA SwayInductive ==
  ASSUME SwayInv, [Next]_vars
  PROVE  SwayInv'
<1>. USE DEF SwayInv
<1>1. CASE CleanReset
  BY <1>1, Numbers DEF CleanReset, Reset
<1>2. CASE Frame
  <2>. DEFINE moved == Controller!Moved(x_pos, x_movement, Controller!Step(count))
  <2>1. /\ x_pos' = Controller!Clamped(moved, MaxShift)
        /\ x_movement' = Controller!Turned(moved, x_movement, MaxShift)
    BY <1>2 DEF Frame, Controller!SweepX
  <2>2. Controller!Step(count) \in 1 .. 3
    BY DEF Controller!Step, Controller!Slow
  <2>. QED
    BY <2>1, <2>2, Numbers, OneStep
<1>3. CASE UNCHANGED vars
  BY <1>3 DEF vars
<1>. QED
  BY <1>1, <1>2, <1>3 DEF Next

LEMMA InitialPositions == Init => MissileInv /\ SwayInv
  BY Numbers DEF Init, Missile!Init, MissileInv, SwayInv

(* The arithmetic of the detector and of the painter: a point in a left    *)
(* half is right of the array's left side, because a subtraction that      *)
(* wraps ends in a right half; then it is in one of the columns.           *)
LEMMA OverSprite ==
  ASSUME MissileInv, SwayInv, playerMissileY # 0,
         Detector!Normalized(playerMissileX, Controller!enemy_posX) % Pitch < Pitch \div 2
  PROVE  /\ Controller!enemy_posX <= playerMissileX
         /\ Detector!Normalized(playerMissileX, Controller!enemy_posX) \div Pitch
              \in 0 .. Columns - 1
<1>. DEFINE X == playerMissileX
            left == Controller!enemy_posX
            n == Detector!Normalized(X, left)
<1>1. left \in 0 .. MaxShift
  <2>1. x_pos \in Nat /\ x_pos = 4 * left + Controller!Fraction(x_pos)
        /\ left \in Nat /\ Controller!Fraction(x_pos) \in 0 .. 3
    BY PixelParts, Numbers DEF SwayInv, Controller!enemy_posX
  <2>. HIDE DEF left
  <2>. QED
    BY <2>1, Numbers DEF SwayInv
<1>2. X \in Muzzle .. Columns * Pitch - 1
  BY DEF MissileInv
<1>3. n = (X + Modulus - left) % Modulus
  BY DEF Detector!Normalized
<1>4. Columns * Pitch <= Modulus /\ MaxShift <= Muzzle + Pitch \div 2
  BY GeometryAssumption
<1>5. n % Pitch < Pitch \div 2
  OBVIOUS
<1>. HIDE DEF X, left, n
<1>6. left <= X
  <2>. SUFFICES ASSUME X < left  PROVE FALSE
    BY <1>1, <1>2, Numbers
  <2>1. left - X \in Nat \ {0} /\ left - X <= Pitch \div 2 /\ left - X <= Modulus
    BY <1>1, <1>2, <1>4, Numbers
  <2>2. n = Modulus - (left - X)
    <3>. DEFINE y == X + Modulus - left
    <3>1. y \in 0 .. Modulus - 1 /\ y = Modulus - (left - X)
      BY <1>1, <1>2, <2>1, Numbers
    <3>. HIDE DEF y
    <3>2. y % Modulus = y
      BY <3>1, Numbers
    <3>. QED
      BY <1>3, <3>1, <3>2 DEF y
  <2>3. Modulus % Pitch = 0
    BY GeometryAssumption
  <2>. QED
    BY <1>5, <2>1, <2>2, <2>3, Numbers, WrapsRight
<1>7. n = X - left
  <2>. DEFINE y == X + Modulus - left
  <2>1. y \in Nat /\ y = 1 * Modulus + (X - left) /\ X - left \in 0 .. Modulus - 1
    BY <1>1, <1>2, <1>4, <1>6, Numbers
  <2>. HIDE DEF y
  <2>2. y % Modulus = X - left
    BY <2>1, Numbers, Compose
  <2>. QED
    BY <1>3, <2>2 DEF y
<1>8. n \in Nat /\ n < Columns * Pitch
  BY <1>1, <1>2, <1>6, <1>7, Numbers
<1>9. n \div Pitch \in 0 .. Columns - 1
  <2>1. n \div Pitch \in Nat
    BY <1>8, Numbers, Parts
  <2>2. n \div Pitch < Columns
    BY <1>8, Numbers, QuotientBelow
  <2>. QED
    BY <2>1, <2>2, Numbers
<1>. QED
  BY <1>6, <1>9 DEF X, left, n

LEMMA IndexInRange ==
  ASSUME MissileInv, SwayInv
  PROVE  ReadsInsideArray
<1>. SUFFICES ASSUME Detector!InSprite(playerMissileX, playerMissileY,
                                       Controller!enemy_posX)
              PROVE  Detector!Target(playerMissileX, playerMissileY,
                                     Controller!enemy_posX)
                       \in (0 .. Columns - 1) \X (0 .. Rows - 1)
  BY DEF ReadsInsideArray
<1>. DEFINE n == Detector!Normalized(playerMissileX, Controller!enemy_posX)
            row == playerMissileY \div RowHeight
<1>1. row \in 1 .. Rows /\ n % Pitch < Pitch \div 2
  BY DEF Detector!InSprite
<1>2. playerMissileY # 0
  <2>1. 0 \div RowHeight = 0
    BY Numbers
  <2>. QED
    BY <1>1, <2>1
<1>3. n \div Pitch \in 0 .. Columns - 1
  BY <1>1, <1>2, OverSprite
<1>4. row - 1 \in 0 .. Rows - 1
  BY <1>1, Numbers
<1>. QED
  BY <1>3, <1>4 DEF Detector!Target

(* With every geometry that GeometryAssumption admits, and any waves, the  *)
(* enemy array is never read outside its columns and rows                  *)
(* (collisionDetection.sv:46 and 107).                                     *)
THEOREM IndexSafe == Spec => []ReadsInsideArray
<1>1. (MissileInv /\ SwayInv) /\ [Next]_vars => (MissileInv /\ SwayInv)'
  BY MissileInductive, SwayInductive
<1>2. MissileInv /\ SwayInv => ReadsInsideArray
  BY IndexInRange
<1>. QED
  BY InitialPositions, <1>1, <1>2, PTL DEF Spec

(* The point of a shot is over a sprite exactly if it is inside the        *)
(* painted band and right of the left side of the array.                   *)
LEMMA SameBox ==
  ASSUME MissileInv, SwayInv
  PROVE  HitsWhatIsDrawn
<1>. DEFINE X == playerMissileX
            Y == playerMissileY
            left == Controller!enemy_posX
            n == Detector!Normalized(X, left)
            row == Y \div RowHeight
            slot == <<n \div Pitch, row - 1>>
<1>1. Y \in Nat
  BY Numbers DEF MissileInv
<1>2. row \in 1 .. Rows <=> Y >= RowHeight /\ Y < (Rows + 1) * RowHeight
  <2>1. row \in Nat
    BY <1>1, Numbers, Parts
  <2>2. row < 1 <=> Y < 1 * RowHeight
    BY <1>1, Numbers, QuotientBelow
  <2>3. row < Rows + 1 <=> Y < (Rows + 1) * RowHeight
    BY <1>1, Numbers, QuotientBelow
  <2>. DEFINE top == (Rows + 1) * RowHeight
  <2>4. 1 * RowHeight = RowHeight /\ top \in Nat
    BY Numbers
  <2>. HIDE DEF row, top, Y
  <2>5. row < Rows + 1 <=> Y < top
    BY <2>3 DEF top
  <2>6. row \in 1 .. Rows <=> Y >= RowHeight /\ Y < top
    BY <1>1, <2>1, <2>2, <2>4, <2>5, Numbers
  <2>. QED
    BY <2>6 DEF top
<1>3. ASSUME Y >= RowHeight, n % Pitch < Pitch \div 2
      PROVE  X >= left
  <2>1. Y # 0 /\ left <= X
    BY <1>1, <1>3, Numbers, OverSprite
  <2>2. X \in Nat /\ left \in Nat
    <3>1. X \in Nat
      BY Numbers DEF MissileInv
    <3>2. left \in Nat
      BY PixelParts, Numbers DEF SwayInv, Controller!enemy_posX
    <3>. QED
      BY <3>1, <3>2
  <2>. HIDE DEF X, left
  <2>. QED
    BY <2>1, <2>2
<1>4. Detector!Target(X, Y, left) = slot
  BY DEF Detector!Target
<1>5. Detector!InSprite(X, Y, left) <=> row \in 1 .. Rows /\ n % Pitch < Pitch \div 2
  BY DEF Detector!InSprite
<1>6. Painter!EnemyAt(X, Y, left, enemy_status)
        <=> /\ n % Pitch < Pitch \div 2
            /\ Y >= RowHeight /\ Y < (Rows + 1) * RowHeight
            /\ X >= left
            /\ slot \in enemy_status
  BY DEF Painter!EnemyAt, Detector!Normalized
<1>7. HitsWhatIsDrawn
        <=> (Detector!InSprite(X, Y, left) /\ Detector!Target(X, Y, left) \in enemy_status
               <=> Painter!EnemyAt(X, Y, left, enemy_status))
  BY DEF HitsWhatIsDrawn
<1>. HIDE DEF n, slot, left, row, X, Y
<1>. QED
  BY <1>2, <1>3, <1>4, <1>5, <1>6, <1>7

(* With every such geometry a shot kills exactly where a living enemy is   *)
(* painted, wherever the array sways (collisionDetection.sv:107 against    *)
(* Color_Mapper.sv:562).                                                   *)
THEOREM HitsAreDrawn == Spec => []HitsWhatIsDrawn
<1>1. (MissileInv /\ SwayInv) /\ [Next]_vars => (MissileInv /\ SwayInv)'
  BY MissileInductive, SwayInductive
<1>2. MissileInv /\ SwayInv => HitsWhatIsDrawn
  BY SameBox
<1>. QED
  BY InitialPositions, <1>1, <1>2, PTL DEF Spec

============================================================================
