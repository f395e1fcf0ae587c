----------------------------- MODULE AlarmTime -----------------------------
(***************************************************************************)
(* The time of an alarm of the HAL, in ticks of the system clock modulo    *)
(* 2^32 (alt_alarm_start.c, alt_tick.c).  When the time of the alarm is    *)
(* beyond the next roll-over of the tick counter, the flag "rollover" puts *)
(* it off until the counter has passed 0.                                  *)
(***************************************************************************)
EXTENDS Naturals

CONSTANTS
  Word,       (* 2^32, the number of values of an alt_u32                  *)
  Alarms,     (* the alarms of the program                                 *)
  Delays,     (* arguments nticks of alt_alarm_start                       *)
  Periods     (* results of the callbacks, in ticks; 0 stops the alarm     *)

(* One tick less than a whole turn of the counter is the longest delay:    *)
(* alt_alarm_start adds one.                                               *)
ASSUME AlarmAssumption ==
  /\ Word \in Nat /\ Word > 1
  /\ Delays \subseteq 0 .. Word - 2
  /\ Periods \subseteq 0 .. Word - 1

Ticks == 0 .. Word - 1
Alarm == [time : Ticks, rollover : BOOLEAN]

(* Addition of two alt_u32. *)
Wrap(x) == IF x >= Word THEN x - Word ELSE x

(* alt_alarm_start *)
Armed(n, now) ==
  LET time == Wrap(n + now + 1) IN [time |-> time, rollover |-> time < now]

(* The flag falls when the counter rolls over. *)
Seen(alarm, now) ==
  [time |-> alarm.time, rollover |-> alarm.rollover /\ now # 0]

Expired_Unflagged(alarm, now) == alarm.time <= now

Expired(alarm, now) == alarm.time <= now /\ ~alarm.rollover

(* "alarm->time += next_callback" *)
Rearmed(alarm, period, now) ==
  LET time == Wrap(alarm.time + period) IN [time |-> time, rollover |-> time < now]

=============================================================================
