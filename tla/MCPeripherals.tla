--------------------------- MODULE MCPeripherals ---------------------------
(* Small keyboards, and the clock at the times that matter.                *)
EXTENDS Peripherals

(* Turns of a second that carry: into a century, into and past the end of  *)
(* February, and across the hours where twelve-hour values change.         *)
Time(y, mo, d, h, mi, s) ==
  [year |-> y, month |-> mo, day |-> d, hours |-> h, minutes |-> mi, seconds |-> s]

MCTurns ==
  {[before |-> Time(1999, 12, 31, 23, 59, 59), after |-> Time(2000, 1, 1, 0, 0, 0)],
   [before |-> Time(2024, 2, 28, 23, 59, 59), after |-> Time(2024, 2, 29, 0, 0, 0)],
   [before |-> Time(2100, 2, 28, 23, 59, 59), after |-> Time(2100, 3, 1, 0, 0, 0)],
   [before |-> Time(2026, 11, 30, 11, 59, 59), after |-> Time(2026, 11, 30, 12, 0, 0)],
   [before |-> Time(2026, 11, 30, 12, 59, 59), after |-> Time(2026, 11, 30, 13, 0, 0)]}

MCFormats == {f \in [bcd : BOOLEAN, h24 : BOOLEAN, century : BOOLEAN] :
                f.century = (f.bcd # f.h24)}
=============================================================================
