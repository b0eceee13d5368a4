------------------------------- MODULE Toolbox -------------------------------
(***************************************************************************)
(* Toolbox::convertSecondsToFormattedTime (src/include/toolbox.hpp), as    *)
(* the times of a service day are formatted one after the other.  The text *)
(* "HH:MM" is kept as its two numbers (the zero padding is layout).  Times *)
(* are non-negative, so C++ int division is \div.                          *)
(***************************************************************************)
EXTENDS Integers

CONSTANT MaxSeconds   \* the last time formatted

VARIABLES
  seconds,    \* the time being formatted
  formatted   \* its text, as [hour, minute]

vars == <<seconds, formatted>>

(* ceil(a / b) for b > 0. *)
CeilDiv(a, b) == -((-a) \div b)

(* The minute taken from the whole time, without subtracting the hour. *)
ConvertSecondsToFormattedTimeWhole(t) ==
  [hour |-> t \div 3600, minute |-> CeilDiv(t, 60)]

(* The minute rounded down instead of up. *)
ConvertSecondsToFormattedTimeFloor(t) ==
  [hour |-> t \div 3600, minute |-> (t - (t \div 3600) * 3600) \div 60]

(* Lines 17-20: hour = t / 3600; minute = ceil(t / 60.0 - hour * 60).    *)
(* The float arithmetic is exact here: t / 60 minus a whole number of     *)
(* minutes, rounded up.                                                   *)
ConvertSecondsToFormattedTime(t) ==
  [hour |-> t \div 3600, minute |-> CeilDiv(t - (t \div 3600) * 3600, 60)]

Init ==
  /\ seconds = 0
  /\ formatted = ConvertSecondsToFormattedTime(0)

Tick ==
  /\ seconds < MaxSeconds
  /\ seconds' = seconds + 1
  /\ formatted' = ConvertSecondsToFormattedTime(seconds + 1)

Spec == Init /\ [][Tick]_vars

-----------------------------------------------------------------------------
TextSeconds(f) == f.hour * 3600 + f.minute * 60

(* The minute is 0..60: rounding up can reach 60 (see below). *)
ToolboxTypeOK ==
  /\ seconds \in 0..MaxSeconds
  /\ formatted \in [hour: 0..MaxSeconds \div 3600, minute: 0..60]

(* The text stands for the time rounded up to the minute: it is never     *)
(* earlier than the time and less than a minute later, at every second,   *)
(* the hour boundaries included.                                          *)
FormattedTimeRoundsUp ==
  TextSeconds(formatted) - seconds \in 0..59

(* The text is a clock time: its minute is 0..59 and it is the time       *)
(* rounded up to the minute.  At 3599 s the minute rounds up to 60 while   *)
(* the hour was taken before rounding, giving "00:60".                     *)
FormattedTimeIsClockTime ==
  /\ formatted.minute \in 0..59
  /\ TextSeconds(formatted) = CeilDiv(seconds, 60) * 60
=============================================================================
