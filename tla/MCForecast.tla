----------------------------- MODULE MCForecast -----------------------------
(* The calendars, the days the stock traded, and what goes wrong. *)
EXTENDS Forecast

Later == [d1 |-> 1, d2 |-> 2]
Waits == <<0, 1, 2>>
Mix(sessions, trades, made, ops, well, crew) ==
  [sessions |-> sessions, trades |-> trades, made |-> made, ops |-> ops, well |-> well, crew |-> crew,
   preopen |-> FALSE, priced |-> TRUE]
One == {"e1"}
Two == {"e1", "e2"}
All == {0, 1, 3, 4, 5, 6, 7}    \* day 2 is a holiday
Faults == {"lag", "fault", "unstamped", "adjust"}
AllMixes == {
  \* every late, missing or unstamped answer, of a report made before or after a close or on a holiday
  Mix(All, All, 2, Faults \cup {"abandon"}, 12, One),
  Mix(All, All \ {4}, 3, Faults \cup {"abandon", "mode"}, 10, One),
  Mix(All, All \ {3}, 4, {"lag", "unstamped"}, 9, Two),
  \* passes of two instances that overlap
  Mix(All, All, 2, {"lag", "adjust"}, 7, Two),
  Mix(All, All \ {3}, 2, {"lag", "fault", "purge"}, 7, Two),
  \* a stock that comes back on day 4: its last price is out of the window, or there is none
  Mix(All, {-3, 4, 5, 6, 7}, 2, Faults, 12, One),
  Mix(All, {4, 5, 6, 7}, 2, Faults, 10, One),
  \* bodies that print another price for a day
  Mix(All, All, 2, {"revised", "lag"}, 6, Two),
  \* reports received before the open of a session and of a holiday, and one without a price
  [Mix(All, All, 2, {"lag", "unstamped"}, 6, One) EXCEPT !.preopen = TRUE],
  [Mix(All, All, 4, {"lag", "unstamped"}, 8, One) EXCEPT !.preopen = TRUE],
  [Mix(All, All, 2, {"lag", "unstamped"}, 6, One) EXCEPT !.priced = FALSE] }
(* For the runs that show where the program departs from its comments: a   *)
(* body cached before the close, and adjusted closes that do not arrive.   *)
Cached == {Mix(All, All, 2, {"lag"}, 9, One)}
Resumed == {Mix(All, {-3, 4, 5, 6, 7}, 2, {"adjust"}, 12, One)}
=============================================================================
