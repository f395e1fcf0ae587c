----------------------------- MODULE AlarmClock -----------------------------
(***************************************************************************)
(* What the alarms of the HAL promise: an alarm is called exactly when its *)
(* ticks are over, never earlier and before the next tick, and once each   *)
(* time; then it waits for as long as its callback has asked for.          *)
(***************************************************************************)
EXTENDS Naturals

CONSTANTS Alarms, Delays, Periods

VARIABLES
  armed,    (* the alarms that wait                                        *)
  left      (* the ticks until each of them is due                         *)

vars == <<armed, left>>

Init == armed = {} /\ left = [a \in Alarms |-> 0]

Start(a) ==
  /\ a \notin armed /\ armed' = armed \cup {a}
  /\ \E n \in Delays : left' = [left EXCEPT ![a] = n + 1]

Stop(a) ==
  /\ armed' = armed \ {a}
  /\ left' = [left EXCEPT ![a] = 0]

(* No alarm that is due is left for the next tick. *)
Tick ==
  /\ \A a \in armed : left[a] > 0
  /\ left' = [a \in Alarms |-> IF a \in armed THEN left[a] - 1 ELSE 0]
  /\ UNCHANGED armed

Call(a) ==
  /\ a \in armed /\ left[a] = 0
  /\ \E period \in Periods :
       /\ armed' = IF period = 0 THEN armed \ {a} ELSE armed
       /\ left' = [left EXCEPT ![a] = period]

Next == Tick \/ \E a \in Alarms : Start(a) \/ Stop(a) \/ Call(a)

Spec == Init /\ [][Next]_vars

=============================================================================
