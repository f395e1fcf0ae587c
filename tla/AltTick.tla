------------------------------ MODULE AltTick ------------------------------
(***************************************************************************)
(* The alarms of the HAL with alt_alarm_list, the doubly linked list that  *)
(* alt_tick walks along at interrupt level while callbacks take their own  *)
(* alarms out of it (alt_tick.c, alt_alarm_start.c, alt_llist.h).          *)
(***************************************************************************)
EXTENDS AlarmTime

CONSTANT alt_alarm_list     (* the head of the list *)

ASSUME ListAssumption == alt_alarm_list \notin Alarms

VARIABLES
  nticks, alarm,
  next, previous,      (* the links of every element and of the head       *)
  cursor               (* alt_tick's next alarm; the head if it has none   *)

links == <<next, previous>>
tickVars == <<nticks, alarm, links, cursor>>

Nodes == Alarms \cup {alt_alarm_list}

TickInit ==
  /\ nticks = 0
  /\ alarm = [a \in Alarms |-> [time |-> 0, rollover |-> FALSE]]
  /\ next = [e \in Nodes |-> e] /\ previous = next
  /\ cursor = alt_alarm_list

(* alt_llist_insert *)
Insert(entry) ==
  LET first == next[alt_alarm_list]
  IN  /\ previous' = [previous EXCEPT ![entry] = alt_alarm_list, ![first] = entry]
      /\ next' = [next EXCEPT ![entry] = first, ![alt_alarm_list] = entry]

(* alt_llist_remove: the entry points to itself, so that further calls are *)
(* harmless.                                                               *)
Remove(entry) ==
  /\ previous' = [previous EXCEPT ![next[entry]] = previous[entry], ![entry] = entry]
  /\ next' = [next EXCEPT ![previous[entry]] = next[entry], ![entry] = entry]

(* Interrupts are disabled around the changes of the list, and the program *)
(* stands still while alt_tick runs.                                       *)
MainRuns == cursor = alt_alarm_list

StartAlarm(a) ==
  /\ MainRuns /\ next[a] = a
  /\ \E n \in Delays : alarm' = [alarm EXCEPT ![a] = Armed(n, nticks)]
  /\ Insert(a)
  /\ UNCHANGED <<nticks, cursor>>

StopAlarm(a) ==
  /\ MainRuns
  /\ Remove(a)
  /\ UNCHANGED <<nticks, alarm, cursor>>

(* The timer's interrupt: alt_tick up to its loop. *)
StartTick ==
  /\ MainRuns
  /\ nticks' = Wrap(nticks + 1)
  /\ cursor' = next[alt_alarm_list]
  /\ UNCHANGED <<alarm, links>>

(* The next alarm is read before the callback. *)
Advance(a) == cursor' = next[a]

Visit(a) ==
  /\ a = cursor
  /\ LET seen == Seen(alarm[a], nticks)
     IN  \/ /\ ~Expired(seen, nticks)
            /\ alarm' = [alarm EXCEPT ![a] = seen]
            /\ UNCHANGED links
         \/ /\ Expired(seen, nticks) /\ 0 \in Periods
            /\ alarm' = [alarm EXCEPT ![a] = seen]
            /\ Remove(a)
         \/ /\ Expired(seen, nticks)
            /\ \E period \in Periods \ {0} :
                 alarm' = [alarm EXCEPT ![a] = Rearmed(seen, period, nticks)]
            /\ UNCHANGED links
  /\ Advance(a)
  /\ UNCHANGED nticks

Tick == StartTick \/ \E a \in Alarms : Visit(a)

TickNext == Tick \/ \E a \in Alarms : StartAlarm(a) \/ StopAlarm(a)

----------------------------------------------------------------------------

(* The alarms from an element of the list to its end: those that no set of *)
(* elements avoids that holds this one and with each alarm the next.       *)
Follow(nexts, entry) ==
  {a \in Alarms : \A S \in SUBSET Nodes :
                    entry \in S /\ (\A b \in S \cap Alarms : nexts[b] \in S) => a \in S}

listed == Follow(next, next[alt_alarm_list])
todo == Follow(next, cursor)

(* The walk looks at every registered alarm once in each tick, although    *)
(* alarms leave the list on the way (alt_tick.c:104); so every alarm is    *)
(* called in the tick in which it is due, and in no other.                 *)
Walk == INSTANCE AltAlarm
ImplementsAlarms == Walk!Spec /\ Walk!ImplementsClock

=============================================================================
