------------------------------ MODULE AltAlarm ------------------------------
(***************************************************************************)
(* The alarms of the HAL without the list that holds them: at every tick   *)
(* each registered alarm is looked at once, in whatever order (alt_tick.c, *)
(* alt_alarm_start.c).  AltTick has the list.                              *)
(***************************************************************************)
EXTENDS AlarmTime

VARIABLES
  nticks,     (* _alt_nticks                                               *)
  alarm,      (* time and rollover of every alarm                          *)
  listed,     (* the alarms in alt_alarm_list                              *)
  todo        (* those that alt_tick has still to look at in this tick     *)

vars == <<nticks, alarm, listed, todo>>

Init ==
  /\ nticks = 0 /\ listed = {} /\ todo = {}
  /\ alarm = [a \in Alarms |-> [time |-> 0, rollover |-> FALSE]]

(* The program stands still while alt_tick runs. *)
Start(a) ==
  /\ todo = {} /\ a \notin listed
  /\ listed' = listed \cup {a}
  /\ \E n \in Delays : alarm' = [alarm EXCEPT ![a] = Armed(n, nticks)]
  /\ UNCHANGED <<nticks, todo>>

Stop(a) ==
  /\ todo = {} /\ listed' = listed \ {a}
  /\ UNCHANGED <<nticks, alarm, todo>>

Tick ==
  /\ todo = {} /\ todo' = listed
  /\ nticks' = Wrap(nticks + 1)
  /\ UNCHANGED <<alarm, listed>>

Visit(a) ==
  /\ a \in todo /\ todo' = todo \ {a}
  /\ LET seen == Seen(alarm[a], nticks)
     IN  \/ /\ ~Expired(seen, nticks)
            /\ alarm' = [alarm EXCEPT ![a] = seen]
            /\ UNCHANGED listed
         \/ /\ Expired(seen, nticks) /\ 0 \in Periods
            /\ alarm' = [alarm EXCEPT ![a] = seen]
            /\ listed' = listed \ {a}
         \/ /\ Expired(seen, nticks)
            /\ \E period \in Periods \ {0} :
                 alarm' = [alarm EXCEPT ![a] = Rearmed(seen, period, nticks)]
            /\ UNCHANGED listed
  /\ UNCHANGED nticks

Next == Tick \/ \E a \in Alarms : Start(a) \/ Stop(a) \/ Visit(a)

Spec == Init /\ [][Next]_vars

----------------------------------------------------------------------------

(* Ticks from nticks to the time of an alarm, once around at most.         *)
Left(a) ==
  IF a \notin listed THEN 0
  ELSE IF alarm[a].time >= nticks THEN alarm[a].time - nticks
  ELSE alarm[a].time + Word - nticks

(* Across every roll-over of the counter the alarms are called in the very *)
(* tick in which they are due (the flag of alt_tick.c:109-112).            *)
Clock == INSTANCE AlarmClock WITH armed <- listed, left <- [a \in Alarms |-> Left(a)]
ImplementsClock == Clock!Spec

=============================================================================
