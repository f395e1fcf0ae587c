--------------------------- MODULE GameFlowProofs ---------------------------
(***************************************************************************)
(* Proofs about the array of enemies and about the rules of the game, for  *)
(* every number of waves, every choice of the waves and every sequence of  *)
(* kills and resets.                                                       *)
(***************************************************************************)
EXTENDS GameFlow, FiniteSetTheorems, NaturalsInduction, WellFoundedInduction, TLAPS

(***************************************************************************)
(* The array (EnemyStatus), on its own.                                    *)
(***************************************************************************)

(* Removing an enemy from a finite array lowers the count of the living by *)
(* one: the fact behind `sig <= sig + 1' beside the cleared bit.           *)
LEMMA OneFewer ==
  ASSUME NEW S, IsFiniteSet(S), NEW e \in S
  PROVE  /\ Cardinality(S) \in Nat
         /\ Cardinality(S) = Cardinality(S \ {e}) + 1
         /\ Cardinality(S \ {e}) \in Nat
<1>1. IsFiniteSet(S \ {e}) /\ Cardinality(S \ {e}) = Cardinality(S) - 1
  BY FS_RemoveElement
<1>2. Cardinality(S) \in Nat /\ Cardinality(S \ {e}) \in Nat
  BY <1>1, FS_CardinalityType
<1>. QED
  BY <1>1, <1>2

(* The array is finite whenever it is well typed. *)
LEMMA ArrayFinite ==
  ASSUME TypeOK
  PROVE  /\ IsFiniteSet(Wave[count]) /\ Cardinality(Wave[count]) \in Nat
         /\ IsFiniteSet(enemy_status) /\ Cardinality(enemy_status) \in Nat
<1>1. IsFiniteSet(Wave[count])
  BY WaveAssumption DEF TypeOK
<1>2. IsFiniteSet(enemy_status)
  BY <1>1, FS_Subset DEF TypeOK
<1>. QED
  BY <1>1, <1>2, FS_CardinalityType

(* Every step of the process keeps the registers in their ranges, wherever *)
(* the reset button is pressed.                                            *)
LEMMA TypeInductive ==
  ASSUME TypeOK, [Next]_vars
  PROVE  TypeOK'
<1>. USE DEF TypeOK
<1>1. CASE Reset
  BY <1>1, WaveAssumption DEF Reset
<1>2. ASSUME NEW hit \in enemy_status, WaveCleared, LoadWave
      PROVE  TypeOK'
  BY <1>2, WaveAssumption DEF WaveCleared, LoadWave
<1>3. ASSUME NEW hit \in enemy_status, KillEnemy(hit)
      PROVE  TypeOK'
  BY <1>3 DEF KillEnemy
<1>4. CASE UNCHANGED vars
  BY <1>4 DEF vars
<1>. QED
  BY <1>1, <1>2, <1>3, <1>4 DEF Next, Hit, Collision

LEMMA TypeInitially == Init => TypeOK
  BY WaveAssumption DEF Init, TypeOK

(* The living enemies always belong to the current wave and the wave       *)
(* number never passes the last one, also with resets in mid-wave.         *)
THEOREM TypeCorrect == Spec => []TypeOK
<1>1. TypeOK /\ [Next]_vars => TypeOK'
  BY TypeInductive
<1>. QED
  BY <1>1, TypeInitially, PTL DEF Spec

(* A clean reset is a reset. *)
LEMMA CleanIsNext == [CleanNext]_vars => [Next]_vars
  BY DEF CleanNext, CleanReset, Next

THEOREM CleanTypeCorrect == CleanSpec => []TypeOK
<1>1. TypeOK /\ [CleanNext]_vars => TypeOK'
  BY TypeInductive, CleanIsNext
<1>. QED
  BY <1>1, TypeInitially, PTL DEF CleanSpec

----------------------------------------------------------------------------

LEMMA AccountingInitially == Init => KillAccounting
<1>. SUFFICES ASSUME Init PROVE KillAccounting
  OBVIOUS
<1>1. Cardinality(Wave[1]) \in Nat
  BY TypeInitially, ArrayFinite DEF Init
<1>. QED
  BY <1>1 DEF Init, KillAccounting

LEMMA AccountingInductive ==
  ASSUME TypeOK, KillAccounting, [CleanNext]_vars
  PROVE  KillAccounting'
<1>1. TypeOK'
  BY TypeInductive, CleanIsNext
<1>2. Cardinality(Wave[count])' \in Nat
  <2>1. IsFiniteSet(Wave[count]')
    BY <1>1, WaveAssumption DEF TypeOK
  <2>. QED
    BY <2>1, FS_CardinalityType
<1>3. CASE CleanReset
  BY <1>2, <1>3 DEF CleanReset, Reset, KillAccounting
<1>4. ASSUME WaveCleared, LoadWave
      PROVE  KillAccounting'
  BY <1>2, <1>4 DEF LoadWave, KillAccounting
<1>5. ASSUME NEW hit \in enemy_status, KillEnemy(hit)
      PROVE  KillAccounting'
  <2>1. /\ Cardinality(enemy_status) = Cardinality(enemy_status \ {hit}) + 1
        /\ Cardinality(enemy_status \ {hit}) \in Nat
    BY ArrayFinite, OneFewer
  <2>2. sig \in Nat
    BY DEF TypeOK
  <2>. QED
    BY <1>5, <2>1, <2>2 DEF KillEnemy, KillAccounting
<1>6. CASE UNCHANGED vars
  BY <1>6 DEF vars, KillAccounting
<1>. QED
  BY <1>3, <1>4, <1>5, <1>6 DEF CleanNext, Hit, Collision

(* Kills counted and enemies left always add up to the size of the wave.   *)
THEOREM KillsAccountedFor == CleanSpec => []KillAccounting
<1>1. TypeOK /\ KillAccounting /\ [CleanNext]_vars => KillAccounting'
  BY AccountingInductive
<1>. QED
  BY <1>1, AccountingInitially, CleanTypeCorrect, PTL DEF CleanSpec

----------------------------------------------------------------------------

LEMMA NeverLagsInductive ==
  ASSUME TypeOK, KillCountNeverLags, [Next]_vars
  PROVE  KillCountNeverLags'
<1>1. sig \in Nat
  BY DEF TypeOK
<1>2. Cardinality(Wave[count])' \in Nat
  <2>1. IsFiniteSet(Wave[count]')
    BY TypeInductive, WaveAssumption DEF TypeOK
  <2>. QED
    BY <2>1, FS_CardinalityType
<1>3. CASE Reset
  BY <1>1, <1>2, <1>3 DEF Reset, KillCountNeverLags
<1>4. ASSUME WaveCleared, LoadWave
      PROVE  KillCountNeverLags'
  BY <1>2, <1>4 DEF LoadWave, KillCountNeverLags
<1>5. ASSUME NEW hit \in enemy_status, KillEnemy(hit)
      PROVE  KillCountNeverLags'
  <2>1. /\ Cardinality(enemy_status) = Cardinality(enemy_status \ {hit}) + 1
        /\ Cardinality(enemy_status \ {hit}) \in Nat
        /\ Cardinality(Wave[count]) \in Nat
    BY ArrayFinite, OneFewer
  <2>. QED
    BY <1>1, <1>5, <2>1 DEF KillEnemy, KillCountNeverLags
<1>6. CASE UNCHANGED vars
  BY <1>6 DEF vars, KillCountNeverLags
<1>. QED
  BY <1>3, <1>4, <1>5, <1>6 DEF Next, Hit, Collision

(* However the reset button is used, sig counts at least the missing       *)
(* enemies, so a reset never makes a wave ask for more kills than it has.  *)
THEOREM KillCountBounded == Spec => []KillCountNeverLags
<1>1. TypeOK /\ KillCountNeverLags /\ [Next]_vars => KillCountNeverLags'
  BY NeverLagsInductive
<1>2. Init => KillCountNeverLags
  <2>1. Init => Cardinality(Wave[1]) \in Nat
    BY TypeInitially, ArrayFinite DEF Init
  <2>. QED
    BY <2>1 DEF Init, KillCountNeverLags
<1>. QED
  BY <1>1, <1>2, TypeCorrect, PTL DEF Spec

----------------------------------------------------------------------------

(* The counter reaches the literal of its wave exactly when one enemy is   *)
(* left, and that enemy is the one being hit.                              *)
LEMMA LastEnemy ==
  ASSUME TypeOK, KillAccounting, NEW hit \in enemy_status, count < NumWaves
  PROVE  sig = Threshold[count] <=> enemy_status = {hit}
<1>1. Threshold[count] \in Nat /\ Cardinality(Wave[count]) = Threshold[count] + 1
  BY WaveAssumption DEF TypeOK
<1>2. sig \in Nat /\ Cardinality(enemy_status) \in Nat
  BY ArrayFinite DEF TypeOK
<1>3. sig = Threshold[count] <=> Cardinality(enemy_status) = 1
  BY <1>1, <1>2 DEF KillAccounting
<1>4. Cardinality(enemy_status) = 1 <=> enemy_status = {hit}
  <2>1. IsFiniteSet(enemy_status)
    BY ArrayFinite
  <2>2. Cardinality(enemy_status) = 1 <=> \E e : enemy_status = {e}
    BY <2>1, FS_Singleton
  <2>. QED
    BY <2>2
<1>. QED
  BY <1>3, <1>4

(* Every step of the process is a step of the campaign or a stutter. *)
LEMMA StepSimulation ==
  ASSUME TypeOK, KillAccounting, [CleanNext]_vars
  PROVE  [Campaign!Next]_(Campaign!vars)
<1>1. CASE CleanReset
  BY <1>1 DEF CleanReset, Reset, Campaign!Next, Campaign!Restart
<1>2. ASSUME NEW hit \in enemy_status, WaveCleared, LoadWave
      PROVE  Campaign!ClearWave(hit)
  BY <1>2, LastEnemy DEF WaveCleared, LoadWave, Campaign!ClearWave
<1>3. ASSUME NEW hit \in enemy_status, ~WaveCleared, KillEnemy(hit)
      PROVE  Campaign!Kill(hit)
  <2>1. enemy_status # {hit} \/ count = NumWaves
    <3>1. CASE count < NumWaves
      BY <1>3, <3>1, LastEnemy DEF WaveCleared
    <3>2. CASE ~(count < NumWaves)
      BY <3>2, WaveAssumption DEF TypeOK
    <3>. QED
      BY <3>1, <3>2
  <2>. QED
    BY <1>3, <2>1 DEF KillEnemy, Campaign!Kill
<1>4. CASE UNCHANGED vars
  BY <1>4 DEF vars, Campaign!vars
<1>. QED
  BY <1>1, <1>2, <1>3, <1>4
  DEF CleanNext, Hit, Collision, Campaign!Next

(* With clean resets the array implements the campaign: the counter that   *)
(* decides when to load a wave can be replaced by looking at the enemies.  *)
THEOREM Implements == CleanSpec => ImplementsCampaign
<1>1. Init => Campaign!Init
  BY DEF Init, Campaign!Init
<1>2. TypeOK /\ KillAccounting /\ [CleanNext]_vars => [Campaign!Next]_(Campaign!vars)
  BY StepSimulation
<1>. QED
  BY <1>1, <1>2, CleanTypeCorrect, KillsAccountedFor, PTL
  DEF CleanSpec, ImplementsCampaign, Campaign!Spec

----------------------------------------------------------------------------
(***************************************************************************)
(* The score (ScoreMap), on its own.                                       *)
(***************************************************************************)

LEMMA ScoreTypeInductive ==
  Score!TypeOK /\ [Score!Next]_(Score!vars)
    => Score!TypeOK'
  BY DEF Score!TypeOK, Score!Next, Score!vars,
         Score!Count, Score!Reset, Score!Digit,
         Score!CarryOut, Score!Wrapped

(* Three digits with carries add one to the number they show. *)
LEMMA CountIsDecimal ==
  ASSUME Score!TypeOK, Score!Count
  PROVE  Score!Value' = (Score!Value + 1) % 1000
<1>. USE DEF Score!TypeOK, Score!Count, Score!Digit,
              Score!CarryOut, Score!Wrapped, Score!Value
<1>1. CASE score_ones < 9
  BY <1>1
<1>2. CASE score_ones = 9 /\ score_tens < 9
  BY <1>2
<1>3. CASE score_ones = 9 /\ score_tens = 9 /\ score_hundreds < 9
  BY <1>3
<1>4. CASE score_ones = 9 /\ score_tens = 9 /\ score_hundreds = 9
  BY <1>4
<1>. QED
  BY <1>1, <1>2, <1>3, <1>4

(* Three digits with carries count modulo 1000 (score.sv:45). *)
THEOREM ScoreIsDecimal == Score!Spec => Score!CountsHits
<1>1. Score!Init => Score!TypeOK
  BY DEF Score!Init, Score!TypeOK, Score!Digit
<1>2. Score!TypeOK /\ [Score!Next]_(Score!vars)
        => [\/ Score!Value' = (Score!Value + 1) % 1000
            \/ Score!Reset]_(Score!vars)
  <2>. SUFFICES ASSUME Score!TypeOK, Score!Count
                PROVE  Score!Value' = (Score!Value + 1) % 1000
    BY DEF Score!Next
  <2>. QED
    BY CountIsDecimal
<1>. QED
  BY <1>1, <1>2, ScoreTypeInductive, PTL
  DEF Score!Spec, Score!CountsHits

----------------------------------------------------------------------------

(***************************************************************************)
(* The rules of the game.                                                  *)
(***************************************************************************)

(* What the verdict rests on: the two registers are in range and the state *)
(* is a level or the victory only over an empty array.                     *)
VerdictInv ==
  /\ count \in 1 .. NumWaves
  /\ state \in 0 .. Machine!GameOver
  /\ VictoryIsEarned
  /\ LevelStateMeansStuck

LEMMA WavesNat == NumWaves \in Nat \ {0}
  BY WaveAssumption

LEMMA VerdictInitially == FlowInit => VerdictInv
  BY WavesNat
  DEF FlowInit, Init, Machine!Init, VerdictInv, VictoryIsEarned,
      LevelStateMeansStuck, Machine!Victory, Machine!GameOver

(* Over an empty array nothing can be hit and the wave stays. *)
LEMMA EmptyStays ==
  ASSUME Frame, enemy_status = {}
  PROVE  enemy_status' = {} /\ count' = count
<1>1. ~Kill
  BY DEF Kill
<1>2. ~StillHitting
  BY DEF StillHitting
<1>3. Miss
  BY <1>1, <1>2 DEF Frame
<1>. QED
  BY <1>3 DEF Miss, vars

(* A frame leaves the wave number alone or moves to the next wave. *)
LEMMA WaveNumber ==
  ASSUME Frame, count \in 1 .. NumWaves
  PROVE  count' \in 1 .. NumWaves
<1>. USE WavesNat
<1>1. CASE Miss
  BY <1>1 DEF Miss, vars
<1>2. CASE StillHitting
  BY <1>2 DEF StillHitting, vars
<1>3. CASE Kill
  <2>1. PICK hit \in enemy_status : Collision(hit)
    BY <1>3 DEF Kill
  <2>. QED
    BY <2>1 DEF Collision, WaveCleared, LoadWave, KillEnemy
<1>. QED
  BY <1>1, <1>2, <1>3 DEF Frame

LEMMA VerdictInductive == VerdictInv /\ [FlowNext]_flowVars => VerdictInv'
<1>. SUFFICES ASSUME VerdictInv, [FlowNext]_flowVars
              PROVE  VerdictInv'
  OBVIOUS
<1>. USE WavesNat DEF VerdictInv, VictoryIsEarned, LevelStateMeansStuck,
                      Machine!Victory, Machine!GameOver
<1>1. CASE FlowReset
  BY <1>1 DEF FlowReset, Reset, Machine!Reset
<1>2. CASE Frame
  <2>1. PICK key \in Keys :
          state' = Machine!NextState(key, enemy_status, count, player_lives)
    BY <1>2 DEF Frame, Machine!Clock
  <2>2. count' \in 1 .. NumWaves
    BY <1>2, WaveNumber
  <2>3. CASE enemy_status = {}
    <3>1. enemy_status' = {} /\ count' = count
      BY <1>2, <2>3, EmptyStays
    <3>2. state' \in {1, count + 1}
      BY <2>1, <2>3 DEF Machine!NextState
    <3>. QED
      BY <3>1, <3>2
  <2>4. CASE enemy_status # {}
    <3>1. state' \in {1, NumWaves + 2, state}
      BY <2>1, <2>4 DEF Machine!NextState
    <3>2. state \notin 2 .. NumWaves /\ state # NumWaves + 1
      BY <2>4
    <3>3. state' \notin 2 .. NumWaves /\ state' # NumWaves + 1
      BY <3>1, <3>2
    <3>4. state' \in 0 .. NumWaves + 2
      BY <3>1
    <3>. QED
      BY <2>2, <3>3, <3>4
  <2>. QED
    BY <2>3, <2>4
<1>3. CASE UNCHANGED flowVars
  BY <1>3 DEF flowVars
<1>. QED
  BY <1>1, <1>2, <1>3 DEF FlowNext

LEMMA VerdictInvariant == FlowSpec => []VerdictInv
  BY VerdictInitially, VerdictInductive, PTL DEF FlowSpec

(* The victory state is shown only when the last wave is dead, however the *)
(* player loses lives, hits enemies and presses the button.                *)
THEOREM VictoryEarned == FlowSpec => []VictoryIsEarned
<1>1. VerdictInv => VictoryIsEarned
  BY DEF VerdictInv
<1>. QED
  BY <1>1, VerdictInvariant, PTL

(* The states named after levels are those of a game that cannot go on. *)
THEOREM LevelMeansStuck == FlowSpec => []LevelStateMeansStuck
<1>1. VerdictInv => LevelStateMeansStuck
  BY DEF VerdictInv
<1>. QED
  BY <1>1, VerdictInvariant, PTL

----------------------------------------------------------------------------
(***************************************************************************)
(* The enemies of the waves before a wave.  KilledBefore is defined by     *)
(* recursion, so it must be shown to exist: a least number of waves for    *)
(* which it did not would contradict the one before.                       *)
(***************************************************************************)

LEMMA Least ==
  ASSUME NEW T \in SUBSET Nat, T # {}
  PROVE  \E m \in T : \A n \in T : m <= n
<1>1. PICK m \in T : \A y \in T : ~(<<y, m>> \in OpToRel(<, Nat))
  BY WFMin, NatLessThanWellFounded
<1>2. \A y \in T : ~(y < m)
  BY <1>1 DEF OpToRel
<1>. QED
  BY <1>2

LEMMA WaveSize ==
  ASSUME NEW w \in 1 .. NumWaves
  PROVE  Cardinality(Wave[w]) \in Nat
  BY WaveAssumption, FS_CardinalityType

(* A table of the enemies before each of the first n waves. *)
Tally(n, f) ==
  /\ f \in [1 .. n -> Nat]
  /\ \A w \in 1 .. n :
        f[w] = IF w = 1 THEN 0 ELSE f[w - 1] + Cardinality(Wave[w - 1])

LEMMA TallyExists == \A n \in 0 .. NumWaves : \E f : Tally(n, f)
<1>. DEFINE Missing == {n \in 0 .. NumWaves : ~\E f : Tally(n, f)}
<1>. SUFFICES ASSUME Missing # {} PROVE FALSE
  OBVIOUS
<1>. USE WavesNat
<1>0. Missing \in SUBSET Nat /\ Missing # {}
  OBVIOUS
<1>. HIDE DEF Missing
<1>1. PICK m \in Missing : \A n \in Missing : m <= n
  BY <1>0, Least
<1>. USE DEF Missing
<1>2. m # 0
  <2>1. Tally(0, <<>>)
    BY DEF Tally
  <2>. QED
    BY <2>1
<1>3. PICK f : Tally(m - 1, f)
  BY <1>1, <1>2
<1>. DEFINE g == [w \in 1 .. m |-> IF w = m
                                   THEN IF m = 1 THEN 0
                                        ELSE f[m - 1] + Cardinality(Wave[m - 1])
                                   ELSE f[w]]
<1>4. m = 1 \/ f[m - 1] + Cardinality(Wave[m - 1]) \in Nat
  BY <1>2, <1>3, WaveSize DEF Tally
<1>5. Tally(m, g)
  BY <1>2, <1>3, <1>4 DEF Tally
<1>. QED
  BY <1>5

LEMMA KilledTally == Tally(NumWaves, KilledBefore)
<1>. DEFINE Body(f) == [w \in 1 .. NumWaves |->
               IF w = 1 THEN 0 ELSE f[w - 1] + Cardinality(Wave[w - 1])]
<1>1. PICK f : Tally(NumWaves, f)
  BY TallyExists, WavesNat
<1>2. f = Body(f)
  BY <1>1 DEF Tally
<1>3. KilledBefore = CHOOSE h : h = Body(h)
  BY DEF KilledBefore
<1>4. KilledBefore = Body(KilledBefore)
  BY <1>2, <1>3
<1>5. \A w \in 1 .. NumWaves : KilledBefore[w] \in Nat
  <2>. DEFINE Odd == {w \in 1 .. NumWaves : KilledBefore[w] \notin Nat}
  <2>. SUFFICES ASSUME Odd # {} PROVE FALSE
    OBVIOUS
  <2>1. Odd \in SUBSET Nat /\ Odd # {}
    BY WavesNat
  <2>. HIDE DEF Odd
  <2>2. PICK m \in Odd : \A w \in Odd : m <= w
    BY <2>1, Least
  <2>3. m \in 1 .. NumWaves /\ KilledBefore[m] \notin Nat
    BY <2>2 DEF Odd
  <2>4. KilledBefore[m] =
          IF m = 1 THEN 0 ELSE KilledBefore[m - 1] + Cardinality(Wave[m - 1])
    BY <1>4, <2>3
  <2>5. m # 1 => m - 1 \in 1 .. NumWaves /\ m - 1 \notin Odd
    BY <2>2, <2>3, WavesNat
  <2>6. m # 1 => KilledBefore[m - 1] \in Nat
    BY <2>5 DEF Odd
  <2>. QED
    BY <2>3, <2>4, <2>5, <2>6, WaveSize
<1>. HIDE DEF Body
<1>6. \A w \in 1 .. NumWaves : KilledBefore[w] =
        IF w = 1 THEN 0 ELSE KilledBefore[w - 1] + Cardinality(Wave[w - 1])
  BY <1>4 DEF Body
<1>7. KilledBefore = [w \in 1 .. NumWaves |-> KilledBefore[w]]
  BY <1>4 DEF Body
<1>. QED
  BY <1>5, <1>6, <1>7 DEF Tally

LEMMA StartOfGame ==
  KilledBefore[1] + Cardinality(Wave[1]) - Cardinality(Wave[1]) = 0
<1>1. 1 \in 1 .. NumWaves
  BY WavesNat
<1>. QED
  BY <1>1, KilledTally, WaveSize DEF Tally

----------------------------------------------------------------------------
(***************************************************************************)
(* The verdict and the score.  As long as the counter began at 0 the array *)
(* never runs empty before the last wave, and every kill is one point.     *)
(***************************************************************************)

KilledSoFar == KilledBefore[count] + Cardinality(Wave[count]) - Cardinality(enemy_status)

CleanInv ==
  /\ TypeOK /\ Score!TypeOK
  /\ clean => KillAccounting /\ NeverStuck /\ Score!Value = KilledSoFar

(* What the rules do to the array is a step of the array. *)
LEMMA FlowDrivesArray ==
  ASSUME [FlowNext]_flowVars
  PROVE  /\ [Next]_vars
         /\ ~FlowReset => [Hit]_vars
  BY DEF FlowNext, Frame, FlowReset, Next, Hit, Kill, Miss, StillHitting, flowVars, vars

LEMMA FlowDrivesScore ==
  ASSUME [FlowNext]_flowVars
  PROVE  [Score!Next]_(Score!vars)
<1>1. CASE FlowReset
  BY <1>1 DEF FlowReset, Score!Next
<1>2. CASE Frame
  BY <1>2 DEF Frame, Kill, Miss, StillHitting, scoreVars, Score!vars, Score!Next
<1>3. CASE UNCHANGED flowVars
  BY <1>3 DEF flowVars, Score!vars
<1>. QED
  BY <1>1, <1>2, <1>3 DEF FlowNext

(* No kill that is counted right empties the array, except in the last     *)
(* wave.                                                                   *)
LEMMA StuckInductive ==
  ASSUME TypeOK, KillAccounting, NeverStuck, [Hit]_vars
  PROVE  NeverStuck'
<1>1. ASSUME NEW hit \in enemy_status, WaveCleared, LoadWave
      PROVE  NeverStuck'
  <2>1. count + 1 \in 1 .. NumWaves
    BY <1>1, WavesNat DEF WaveCleared, TypeOK
  <2>2. Wave[count + 1] # {}
    BY <2>1, WaveAssumption
  <2>. QED
    BY <1>1, <2>2 DEF LoadWave, NeverStuck
<1>2. ASSUME NEW hit \in enemy_status, ~WaveCleared, KillEnemy(hit)
      PROVE  NeverStuck'
  <2>1. enemy_status' = {} => enemy_status = {hit}
    BY <1>2 DEF KillEnemy
  <2>2. count < NumWaves => enemy_status # {hit}
    BY <1>2, LastEnemy DEF WaveCleared
  <2>3. count < NumWaves \/ count = NumWaves
    BY WavesNat DEF TypeOK
  <2>. QED
    BY <1>2, <2>1, <2>2, <2>3 DEF KillEnemy, NeverStuck
<1>3. CASE UNCHANGED vars
  BY <1>3 DEF vars, NeverStuck
<1>. QED
  BY <1>1, <1>2, <1>3 DEF Hit, Collision

(* One enemy is one point. *)
LEMMA KillScores ==
  ASSUME TypeOK, Score!TypeOK, KillAccounting, Score!Value = KilledSoFar,
         NEW hit \in enemy_status, Collision(hit), Score!Count
  PROVE  (Score!Value = KilledSoFar)'
<1>1. count \in 1 .. NumWaves /\ enemy_status \subseteq Wave[count]
  BY DEF TypeOK
<1>2. /\ Cardinality(enemy_status) \in Nat /\ Cardinality(enemy_status \ {hit}) \in Nat
      /\ Cardinality(enemy_status) = Cardinality(enemy_status \ {hit}) + 1
  BY ArrayFinite, OneFewer
<1>3. /\ KilledBefore[count] \in Nat /\ Cardinality(Wave[count]) \in Nat
      /\ KilledBefore[count] + Cardinality(Wave[count]) < 1000
  BY <1>1, KilledTally, WaveSize, ScoreAssumption DEF Tally
<1>4. Score!Value' = KilledSoFar + 1
  <2>1. Score!Value' = (Score!Value + 1) % 1000
    BY CountIsDecimal
  <2>2. KilledSoFar + 1 \in 0 .. 999
    <3>1. Score!Value \in Nat
      BY DEF Score!Value, Score!TypeOK, Score!Digit
    <3>. QED
      BY <3>1, <1>2, <1>3 DEF KilledSoFar
  <2>. QED
    BY <2>1, <2>2
<1>5. CASE WaveCleared /\ LoadWave
  <2>1. enemy_status = {hit}
    BY <1>5, LastEnemy DEF WaveCleared
  <2>2. Cardinality(enemy_status) = 1
    BY <2>1, FS_Singleton
  <2>3. count + 1 \in 1 .. NumWaves /\ count # 0
    BY <1>1, <1>5, WavesNat DEF WaveCleared
  <2>4. /\ KilledBefore[count + 1] = KilledBefore[count] + Cardinality(Wave[count])
        /\ Cardinality(Wave[count + 1]) \in Nat
    BY <1>1, <2>3, KilledTally, WaveSize DEF Tally
  <2>5. KilledSoFar' = KilledBefore[count + 1]
    BY <1>3, <1>5, <2>4 DEF LoadWave, KilledSoFar
  <2>. QED
    BY <1>3, <1>4, <2>2, <2>4, <2>5 DEF KilledSoFar
<1>6. CASE KillEnemy(hit)
  BY <1>2, <1>3, <1>4, <1>6 DEF KillEnemy, KilledSoFar
<1>. QED
  BY <1>5, <1>6 DEF Collision

LEMMA CleanInitially == FlowInit => CleanInv
<1>. SUFFICES ASSUME FlowInit PROVE CleanInv
  OBVIOUS
<1>1. TypeOK /\ KillAccounting
  BY TypeInitially, AccountingInitially DEF FlowInit
<1>2. NeverStuck
  <2>1. 1 \in 1 .. NumWaves
    BY WavesNat
  <2>. QED
    BY <2>1, WaveAssumption DEF FlowInit, Init, NeverStuck
<1>3. Score!TypeOK /\ Score!Value = 0
  BY DEF FlowInit, Score!Init, Score!TypeOK, Score!Digit, Score!Value
<1>4. KilledSoFar = 0
  BY StartOfGame DEF FlowInit, Init, KilledSoFar
<1>. QED
  BY <1>1, <1>2, <1>3, <1>4 DEF CleanInv

LEMMA CleanInductive ==
  ASSUME CleanInv, [FlowNext]_flowVars
  PROVE  CleanInv'
<1>. USE DEF CleanInv
<1>1. TypeOK' /\ Score!TypeOK'
  BY FlowDrivesArray, FlowDrivesScore, TypeInductive, ScoreTypeInductive
<1>2. CASE FlowReset
  <2>1. enemy_status' = Wave[1] /\ count' = 1 /\ sig' = sig /\ (clean' => sig = 0)
    BY <1>2, Zenon DEF FlowReset, Reset
  <2>2. Cardinality(Wave[1]) \in Nat /\ Wave[1] # {}
    BY WaveSize, WaveAssumption
  <2>3. clean' => KillAccounting'
    BY <2>1, <2>2 DEF KillAccounting
  <2>4. NeverStuck'
    BY <2>1, <2>2 DEF NeverStuck
  <2>5. Score!Value' = 0
    BY <1>2 DEF FlowReset, Score!Reset, Score!Value
  <2>6. KilledSoFar' = 0
    BY <2>1, StartOfGame DEF KilledSoFar
  <2>. QED
    BY <1>1, <2>3, <2>4, <2>5, <2>6
<1>3. CASE ~FlowReset
  <2>1. clean' = clean
    BY <1>3, Zenon DEF FlowNext, Frame, flowVars
  <2>2. [Hit]_vars
    BY <1>3, FlowDrivesArray
  <2>. SUFFICES ASSUME clean
                PROVE  KillAccounting' /\ NeverStuck' /\ (Score!Value = KilledSoFar)'
    BY <1>1, <2>1, Zenon
  <2>3. KillAccounting' /\ NeverStuck'
    BY <2>2, AccountingInductive, StuckInductive DEF CleanNext
  <2>4. (Score!Value = KilledSoFar)'
    <3>1. CASE Kill
      <4>1. PICK hit \in enemy_status : Collision(hit)
        BY <3>1 DEF Kill
      <4>. QED
        BY <3>1, <4>1, KillScores DEF Kill
    <3>2. CASE UNCHANGED <<vars, scoreVars>>
      BY <3>2 DEF vars, scoreVars, Score!Value, KilledSoFar
    <3>. QED
      BY <1>3, <3>1, <3>2 DEF FlowNext, Frame, Miss, StillHitting, flowVars, vars, scoreVars
  <2>. QED
    BY <2>3, <2>4
<1>. QED
  BY <1>2, <1>3

LEMMA CleanInvariant == FlowSpec => []CleanInv
<1>1. CleanInv /\ [FlowNext]_flowVars => CleanInv'
  BY CleanInductive
<1>. QED
  BY <1>1, CleanInitially, PTL DEF FlowSpec

(* The score is the number of enemies killed, for any waves that fit its   *)
(* three digits, unless a reset in mid-wave lost the count (score.sv and   *)
(* enemy_status.sv count the same edge on their own).                      *)
THEOREM ScoreIsKills == FlowSpec => []ScoreCountsKills
<1>1. CleanInv => ScoreCountsKills
  BY DEF CleanInv, ScoreCountsKills, KilledSoFar
<1>. QED
  BY <1>1, CleanInvariant, PTL

(* Kills counted and enemies left add up to the wave in every game that    *)
(* began with the counter at 0, whatever is pressed when, for any waves    *)
(* and thresholds that satisfy WaveAssumption.                             *)
THEOREM KillsCounted == FlowSpec => []KillsAreCounted
<1>1. CleanInv => KillsAreCounted
  BY DEF CleanInv, KillsAreCounted
<1>. QED
  BY <1>1, CleanInvariant, PTL

(* A step of the rules is a step of the campaign or none.                  *)
LEMMA CampaignStep ==
  ASSUME CleanInv, [FlowNext]_flowVars
  PROVE  [CleanGame!Next]_(CleanGame!vars)
<1>. DEFINE left == IF clean THEN enemy_status ELSE Wave[1]
            fought == IF clean THEN count ELSE 1
<1>1. CASE FlowReset
  <2>1. enemy_status' = Wave[1] /\ count' = 1
    BY <1>1, Zenon DEF FlowReset, Reset
  <2>2. left' = Wave[1] /\ fought' = 1
    BY <2>1
  <2>. QED
    BY <2>2 DEF CleanGame!Next, CleanGame!Restart
<1>2. CASE ~FlowReset /\ clean
  <2>1. clean'
    BY <1>2, Zenon DEF FlowNext, Frame, flowVars
  <2>2. [Hit]_vars
    BY <1>2, FlowDrivesArray
  <2>3. TypeOK /\ KillAccounting
    BY <1>2, Zenon DEF CleanInv
  <2>4. [Campaign!Next]_(Campaign!vars)
    BY <2>2, <2>3, StepSimulation DEF CleanNext
  <2>5. left = enemy_status /\ left' = enemy_status' /\ fought = count /\ fought' = count'
    BY <1>2, <2>1
  <2>. QED
    BY <2>4, <2>5
    DEF Campaign!Next, Campaign!vars, Campaign!Kill, Campaign!ClearWave, Campaign!Restart,
        CleanGame!Next, CleanGame!vars, CleanGame!Kill, CleanGame!ClearWave, CleanGame!Restart
<1>3. CASE ~FlowReset /\ ~clean
  <2>1. ~clean'
    BY <1>3, Zenon DEF FlowNext, Frame, flowVars
  <2>. QED
    BY <1>3, <2>1 DEF CleanGame!vars
<1>. QED
  BY <1>1, <1>2, <1>3, Zenon

(* The rules implement the campaign, for any waves, with the button at any *)
(* time: a game it does not spoil fights the waves in order, the next one  *)
(* exactly at the death of the last enemy (enemy_status.sv:53..236).       *)
THEOREM CampaignFollowed == FlowSpec => FollowsCampaign
<1>1. FlowInit => CleanGame!Init
  BY DEF FlowInit, Init, CleanGame!Init
<1>2. CleanInv /\ [FlowNext]_flowVars => [CleanGame!Next]_(CleanGame!vars)
  BY CampaignStep
<1>. QED
  BY <1>1, <1>2, CleanInvariant, PTL DEF FlowSpec, FollowsCampaign, CleanGame!Spec

(* Victory stands until the button is pressed, a lost game is never played *)
(* on (stateMachine.sv:92..98).                                            *)
THEOREM VerdictsStand == FlowSpec => VerdictStands
<1>. DEFINE Stands == /\ state = Machine!Victory => state' \in {Machine!Victory, 0}
                      /\ clean /\ state = Machine!GameOver
                           => state' \in {Machine!GameOver, Machine!Victory, 0}
<1>1. VerdictInv /\ CleanInv /\ [FlowNext]_flowVars => [Stands]_flowVars
  <2>. SUFFICES ASSUME VerdictInv, CleanInv, FlowNext PROVE Stands
    OBVIOUS
  <2>1. CASE FlowReset
    BY <2>1 DEF FlowReset, Machine!Reset
  <2>2. CASE Frame
    <3>. USE WavesNat DEF Machine!NextState, Machine!Victory, Machine!GameOver
    <3>1. PICK key \in Keys :
            state' = Machine!NextState(key, enemy_status, count, player_lives)
      BY <2>2 DEF Frame, Machine!Clock
    <3>2. ASSUME state = Machine!Victory PROVE state' = Machine!Victory
      BY <3>1, <3>2 DEF VerdictInv, VictoryIsEarned
    <3>3. ASSUME clean, state = Machine!GameOver
          PROVE  state' \in {Machine!GameOver, Machine!Victory}
      <4>1. enemy_status = {} => count = NumWaves
        BY <3>3 DEF CleanInv, NeverStuck
      <4>. QED
        BY <3>1, <3>3, <4>1
    <3>. QED
      BY <3>2, <3>3
  <2>. QED
    BY <2>1, <2>2 DEF FlowNext
<1>. QED
  BY <1>1, VerdictInvariant, CleanInvariant, PTL DEF FlowSpec, VerdictStands

=============================================================================
