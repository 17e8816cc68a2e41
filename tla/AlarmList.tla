----------------------------- MODULE AlarmList ------------------------------
(***************************************************************************)
(* The alarms of the hardware abstraction layer: alt_tick.c,               *)
(* alt_alarm_start.c and the list of sys/alt_llist.h.  The tick counter    *)
(* wraps, and an alarm whose time lies beyond the wrap carries a flag.     *)
(*                                                                         *)
(* alt_tick runs in the interrupt of the timer with interrupts off: the    *)
(* program starts and stops alarms between two ticks, a callback does so   *)
(* in the middle of one.                                                   *)
(***************************************************************************)
EXTENDS Hal

VARIABLES
  rate,              \* _alt_tick_rate, 1 once the timer is initialised
  nticks,            \* _alt_nticks
  next, previous,    \* the links of head and alarms, "null" at the start
  time, rollover,    \* the fields of each alarm
  tick,              \* alt_tick: place and local variables
  registered, due    \* the alarms started, and the ticks until each is called

links     == <<next, previous>>
alarmVars == <<rate, nticks, links, time, rollover, tick, registered, due>>

List == "alt_alarm_list"
Idle == [at |-> "idle"]

(* After reset; the initial links are those of ALT_LLIST_HEAD. *)
AlarmInit ==
  /\ rate = 0 /\ nticks = 0
  /\ next = [x \in Alarm \cup {List} |-> IF x = List THEN List ELSE "null"]
  /\ previous = next
  /\ time = [a \in Alarm |-> 0] /\ rollover = [a \in Alarm |-> 0]
  /\ tick = Idle
  /\ registered = {} /\ due = [a \in Alarm |-> 0]

(* alt_sysclk_init, called by alt_avalon_timer_sc_init. *)
SysclkInit ==
  /\ rate = 0 /\ rate' = 1
  /\ UNCHANGED <<nticks, links, time, rollover, tick, registered, due>>

(* Forms marked as mutations are faults a run must notice. *)

(* alt_llist_insert and alt_llist_remove, in the order of their writes.    *)
Insert(a) ==
  /\ next' = [next EXCEPT ![a] = next[List], ![List] = a]
  /\ previous' = [previous EXCEPT ![a] = List, ![next[List]] = a]

Remove(a) ==
  /\ previous' = [previous EXCEPT ![next[a]] = previous[a], ![a] = a]
  /\ next' = [next EXCEPT ![previous[a]] = next[a], ![a] = a]

(* The flag of an alarm whose time t has wrapped. *)
Rollover_Never(t) == 0                             \* mutation
Rollover(t) == IF t < nticks THEN 1 ELSE 0

(* alt_alarm_start of an alarm not in the list. *)
Start(a, n) ==
  /\ rate # 0 /\ a \notin registered
  /\ time' = [time EXCEPT ![a] = (n + nticks + 1) % Ticks]
  /\ rollover' = [rollover EXCEPT ![a] = Rollover(time'[a])]
  /\ Insert(a)
  /\ registered' = registered \cup {a}
  /\ due' = [due EXCEPT ![a] = n + 1]

(* alt_alarm_stop of an alarm that was started; harmless when repeated.    *)
Stop(a) ==
  /\ next[a] # "null"
  /\ Remove(a)
  /\ registered' = registered \ {a}

(* The program, between two ticks. *)
ProgramStart(a, n) ==
  /\ tick = Idle
  /\ Start(a, n)
  /\ UNCHANGED <<rate, nticks, tick>>

ProgramStop(a) ==
  /\ tick = Idle
  /\ Stop(a)
  /\ UNCHANGED <<rate, nticks, time, rollover, tick, due>>

TickBegin ==
  /\ tick = Idle /\ rate # 0
  /\ nticks' = (nticks + 1) % Ticks
  /\ tick' = [at |-> "walk", alarm |-> next[List]]
  /\ due' = [a \in Alarm |-> IF a \in registered THEN due[a] - 1 ELSE due[a]]
  /\ UNCHANGED <<rate, links, time, rollover, registered>>

(* The flag is cleared when the counter has wrapped; the alarm is called   *)
(* if its time has come.  The next alarm is looked up before the call.     *)
TickVisit ==
  /\ tick.at = "walk" /\ tick.alarm # List
  /\ LET a == tick.alarm
     IN  /\ rollover' = IF nticks = 0 THEN [rollover EXCEPT ![a] = 0]
                                      ELSE rollover
         /\ tick' = IF time[a] <= nticks /\ rollover'[a] = 0
                    THEN [at |-> "call", alarm |-> a, next |-> next[a],
                          calls |-> 0]
                    ELSE [at |-> "walk", alarm |-> next[a]]
  /\ UNCHANGED <<rate, nticks, links, time, registered, due>>

(* What a callback does before it returns. *)
AlarmCalls == tick.at = "call" /\ tick.calls < MaxCallbackCalls
              /\ tick' = [tick EXCEPT !.calls = @ + 1]

CallbackStart(a, n) ==
  /\ AlarmCalls /\ a # tick.alarm
  /\ Start(a, n)
  /\ UNCHANGED <<rate, nticks>>

CallbackStop(a) ==
  /\ AlarmCalls /\ (CallbackStops = "notNext" => a # tick.next)
  /\ Stop(a)
  /\ UNCHANGED <<rate, nticks, time, rollover, due>>

Successor_Reread == next'[tick.alarm]              \* mutation
Successor == tick.next

(* The callback returns the ticks to its next call, or 0 to end.           *)
CallbackReturn(n) ==
  /\ tick.at = "call"
  /\ LET a == tick.alarm
     IN  IF n = 0
         THEN Stop(a) /\ UNCHANGED <<time, rollover, due>>
         ELSE /\ time' = [time EXCEPT ![a] = (@ + n) % Ticks]
              /\ rollover' = [rollover EXCEPT
                                ![a] = IF time'[a] < nticks THEN 1 ELSE @]
              /\ due' = [due EXCEPT ![a] = n]
              /\ UNCHANGED <<links, registered>>
  /\ tick' = [at |-> "walk", alarm |-> Successor]
  /\ UNCHANGED <<rate, nticks>>

TickEnd ==
  /\ tick.at = "walk" /\ tick.alarm = List
  /\ tick' = Idle
  /\ UNCHANGED <<rate, nticks, links, time, rollover, registered, due>>

(* Delays shorter than the counter's range by two ticks. *)
AlarmNext ==
  \/ SysclkInit \/ TickBegin \/ TickVisit \/ TickEnd
  \/ \E a \in Alarm :
       \/ ProgramStop(a) \/ CallbackStop(a)
       \/ \E n \in 0 .. Ticks - 2 : ProgramStart(a, n) \/ CallbackStart(a, n)
  \/ \E n \in 0 .. Ticks - 1 : CallbackReturn(n)

(* The interrupt routine runs to its end; callbacks return. *)
AlarmFairness ==
  /\ WF_alarmVars(TickVisit) /\ WF_alarmVars(TickEnd)
  /\ WF_alarmVars(\E n \in 0 .. Ticks - 1 : CallbackReturn(n))

AlarmSpec == AlarmInit /\ [][AlarmNext]_alarmVars

-----------------------------------------------------------------------------
(* Every variable keeps its type. *)
AlarmTypeOK ==
  /\ rate \in {0, 1} /\ nticks \in 0 .. Ticks - 1
  /\ next \in [Alarm \cup {List} -> Alarm \cup {List, "null"}]
  /\ previous \in [Alarm \cup {List} -> Alarm \cup {List, "null"}]
  /\ time \in [Alarm -> 0 .. Ticks - 1] /\ rollover \in [Alarm -> {0, 1}]
  /\ tick.at \in {"idle", "walk", "call"}
  /\ registered \subseteq Alarm /\ due \in [Alarm -> 0 .. Ticks - 1]

(* An alarm is called at the tick asked for, whatever wraps in between:    *)
(* not sooner, and no tick ends with a call that was due (alt_tick).       *)
CalledWhenDue ==
  [][/\ tick.at = "walk" /\ tick'.at = "call"
        => tick'.alarm \in registered /\ due[tick'.alarm] = 0
     /\ tick # Idle /\ tick' = Idle => \A a \in registered : due[a] > 0]_alarmVars

(* alt_tick ends: no call of a callback turns the list into one that does  *)
(* not lead back to its head.                                              *)
TickEnds == tick # Idle ~> tick = Idle

(* sys/alt_alarm.h: alt_alarm_stop is used to unregister a callback; an    *)
(* alarm that was stopped is not called.                                   *)
StoppedNotCalled ==
  [][tick.at = "walk" /\ tick'.at = "call" => tick'.alarm \in registered]_alarmVars
=============================================================================
