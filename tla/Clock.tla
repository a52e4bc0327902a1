------------------------------- MODULE Clock -------------------------------
(***************************************************************************)
(* The clock: rtc_read_datetime (drivers/clock.c), which boot calls once   *)
(* with interrupts on, and rtc_callback (cpu/rtc.c), which the CMOS clock  *)
(* interrupts with 1024 times a second and which moves the same            *)
(* globals.datetime on.  Both reach the chip through one index register:   *)
(* the callback may come between the two port accesses of a cmos_read.     *)
(*                                                                         *)
(* A store to a bit field of datetime is one step.  The chip's update of   *)
(* its registers at the turn of a second is one step too.                  *)
(***************************************************************************)
EXTENDS Integers, Sequences, FiniteSets

CONSTANTS MsPerSecond,  \* 1000
          Turns,        \* turns of a second: the time before and the time after
          Formats,      \* formats of the chip's registers: bcd, h24, century
          MaxTicks      \* bound: periodic interrupts

VARIABLES rtc,            \* the chip: time shown, format, update flag, index register
          rtc_available,
          datetime,       \* globals.datetime
          rd,             \* rtc_read_datetime: place, registers read, values to store
          clk             \* history: interrupts taken; a cmos_read was hit; times shown
clockVars == <<rtc, rtc_available, datetime, rd, clk>>

Fields == <<"year", "month", "day", "hours", "minutes", "seconds">>

-----------------------------------------------------------------------------
(* The chip.                                                               *)

STATUS_B == "B"
RegC == "C"

(* The order in which one round of rtc_read_datetime reads the registers.  *)
Round == <<"second1", "minutes", "hours", "day", "month", "year", "century", "second2">>

Bcd(n) == (n \div 10) * 16 + (n % 10)

Coded(n) == IF rtc.format.bcd THEN Bcd(n) ELSE n

Hour12(h) == IF h % 12 = 0 THEN 12 ELSE h % 12

Register(r) ==
  LET t == rtc.time IN
  CASE r \in {"second1", "second2"} -> Coded(t.seconds)
    [] r = "minutes" -> Coded(t.minutes)
    [] r = "hours"   -> IF rtc.format.h24 THEN Coded(t.hours)
                        ELSE Coded(Hour12(t.hours)) + (IF t.hours >= 12 THEN 128 ELSE 0)
    [] r = "day"     -> Coded(t.day)
    [] r = "month"   -> Coded(t.month)
    [] r = "year"    -> Coded(t.year % 100)
    [] r = "century" -> IF rtc.format.century THEN Coded(t.year \div 100) ELSE 0
    [] r = STATUS_B  -> 64 + (IF rtc.format.bcd THEN 0 ELSE 4) + (IF rtc.format.h24 THEN 2 ELSE 0)
    [] r = RegC      -> IF rtc.update THEN 16 ELSE 0

(* A second passes in the chip, which raises its update flag.              *)
TurnOfSecond ==
  /\ \E u \in Turns : rtc.time = u.before /\ rtc' = [rtc EXCEPT !.time = u.after, !.update = TRUE]
  /\ clk' = [clk EXCEPT !.shown = @ \cup {rtc'.time}]
  /\ UNCHANGED <<rtc_available, datetime, rd>>

-----------------------------------------------------------------------------
(* datetime_add_ms.                                                        *)

days_in_month == <<31, 28, 31, 30, 31, 30, 31, 31, 30, 31, 30, 31>>

EveryFourth(y) == y % 4 = 0

is_leap_year(y) == (y % 4 = 0 /\ y % 100 # 0) \/ y % 400 = 0

get_days_in_month(month, year) ==
  IF month = 2 /\ is_leap_year(year) THEN 29
  ELSE IF month \in DOMAIN days_in_month THEN days_in_month[month] ELSE 0

(* One day more.  datetime is still all zero, or half stored, when an      *)
(* interrupt comes during rtc_read_datetime; bit fields keep their width.  *)
(* The days that remain are unsigned: one more fits unless there are none. *)
AddDay(d) ==
  IF get_days_in_month(d.month, d.year) # d.day
  THEN [d EXCEPT !.day = (@ + 1) % 32]
  ELSE IF d.month + 1 > 12
       THEN [d EXCEPT !.day = 1, !.month = 1, !.year = (@ + 1) % 4096]
       ELSE [d EXCEPT !.day = 1, !.month = @ + 1]

(* The carry from field to field stops at the first one that does not      *)
(* overflow.                                                               *)
datetime_add_ms(ms, d) ==
  LET total_ms == d.milliseconds + ms
      total_s == d.seconds + total_ms \div MsPerSecond
      total_m == d.minutes + total_s \div 60
      total_h == d.hours + total_m \div 60
      moved == [d EXCEPT !.milliseconds = total_ms % MsPerSecond,
                         !.seconds = total_s % 60, !.minutes = total_m % 60,
                         !.hours = total_h % 24]
  IN IF total_h \div 24 = 0 THEN moved ELSE AddDay(moved)

(* The interrupt handler, whole: it selects and reads register C, which    *)
(* clears the chip's flags, and leaves C selected.                         *)
rtc_callback ==
  /\ clk.ticks < MaxTicks
  /\ rtc' = [rtc EXCEPT !.index = RegC, !.update = FALSE]
  /\ rtc_available' = (rtc_available \/ rtc.update)
  /\ datetime' = datetime_add_ms(1, datetime)
  /\ clk' = [clk EXCEPT !.ticks = @ + 1, !.hit = @ \/ rd.at = "data"]
  /\ UNCHANGED rd

-----------------------------------------------------------------------------
(* rtc_read_datetime.                                                      *)

(* The register that the cmos_read under way is for.                       *)
Wanted == IF rd.i <= Len(Round) THEN Round[rd.i] ELSE STATUS_B

(* while(!rtc_avail()) hlt: take the flag that the callback raised.        *)
AwaitUpdate ==
  /\ rd.at = "wait" /\ rtc_available
  /\ rtc_available' = FALSE
  /\ rd' = [rd EXCEPT !.at = "select", !.i = 1]
  /\ clk' = [clk EXCEPT !.shown = {rtc.time}]
  /\ UNCHANGED <<rtc, datetime>>

(* cmos_read: the index goes out, then the data comes in.                  *)
cmos_select ==
  /\ rd.at = "select"
  /\ rtc' = [rtc EXCEPT !.index = Wanted]
  /\ rd' = [rd EXCEPT !.at = "data"]
  /\ UNCHANGED <<rtc_available, datetime, clk>>

OneReading(v) == TRUE

SecondStable(v) == v["second1"] = v["second2"]

bcd_to_bin(b) == (b \div 16) * 8 + (b \div 16) * 2 + (b % 16)

(* Twelve-hour values with the PM flag become hours of the day.            *)
Hours24(h, pm) == IF pm THEN (IF h # 12 THEN h + 12 ELSE h) ELSE IF h = 12 THEN 0 ELSE h

(* The values to store, from the registers v and from status register B.   *)
Decoded(v, registryB) ==
  LET bcd == (registryB \div 4) % 2 = 0
      h24 == (registryB \div 2) % 2 = 1
      D(x) == IF bcd THEN bcd_to_bin(x) ELSE x
      year == D(v["year"])
      century == IF v["century"] # 0 THEN D(v["century"]) ELSE 0
  IN [year    |-> IF century # 0 THEN century * 100 + year
                  ELSE IF year < 70 THEN 2000 + year ELSE 1900 + year,
      month   |-> D(v["month"]), day |-> D(v["day"]),
      hours   |-> IF h24 THEN D(IF bcd THEN v["hours"] % 128 ELSE v["hours"])
                  ELSE Hours24(D(v["hours"] % 128), v["hours"] >= 128),
      minutes |-> D(v["minutes"]), seconds |-> D(v["second1"])]

(* Where the reader goes after the data of Wanted: round again when the    *)
(* two readings of the seconds differ, on to status register B, to the     *)
(* stores.  Reading C by mistake clears the chip's flags as well.          *)
cmos_data ==
  /\ rd.at = "data"
  /\ LET x == Register(rtc.index)
         v == [rd.v EXCEPT ![Wanted] = x]
     IN rd' = CASE rd.i < Len(Round) -> [rd EXCEPT !.at = "select", !.i = @ + 1, !.v = v]
                [] rd.i = Len(Round) -> [rd EXCEPT !.at = "select", !.v = v,
                                                   !.i = IF SecondStable(v) THEN @ + 1 ELSE 1]
                [] OTHER -> [rd EXCEPT !.at = "store", !.i = 1, !.v = v, !.out = Decoded(v, x)]
  /\ rtc' = [rtc EXCEPT !.update = @ /\ rtc.index # RegC]
  /\ UNCHANGED <<rtc_available, datetime, clk>>

(* One of the stores to *dt; the milliseconds run on.                      *)
StoreField ==
  /\ rd.at = "store"
  /\ datetime' = [datetime EXCEPT ![Fields[rd.i]] = rd.out[Fields[rd.i]]]
  /\ rd' = IF rd.i < Len(Fields) THEN [rd EXCEPT !.i = @ + 1] ELSE [rd EXCEPT !.at = "done"]
  /\ UNCHANGED <<rtc, rtc_available, clk>>

-----------------------------------------------------------------------------
Zero == [year |-> 0, month |-> 0, day |-> 0, hours |-> 0, minutes |-> 0, seconds |-> 0]

(* After init_rtc, with interrupts on.                                     *)
clock_Boot(time, format) ==
  /\ rtc = [time |-> time, format |-> format, update |-> TRUE, index |-> STATUS_B]
  /\ rtc_available = FALSE
  /\ datetime = [f \in DOMAIN Zero \cup {"milliseconds"} |-> 0]
  /\ rd = [at |-> "wait", i |-> 1, out |-> Zero,
           v |-> [r \in {Round[k] : k \in DOMAIN Round} \cup {STATUS_B} |-> 0]]
  /\ clk = [ticks |-> 0, hit |-> FALSE, shown |-> {}]

(* A chip without a century register is read as one of 1970..2069.         *)
clock_Init ==
  \E u \in Turns, f \in Formats :
    /\ f.century \/ u.before.year \in 1970 .. 2068
    /\ clock_Boot(u.before, f)

clock_Next == \/ TurnOfSecond \/ rtc_callback
              \/ AwaitUpdate \/ cmos_select \/ cmos_data \/ StoreField

-----------------------------------------------------------------------------
(* What rtc_read_datetime stores is a time the chip showed during the      *)
(* call, in every register format, though the eight registers are read one *)
(* by one and a second may turn between any two of them.  It needs that no *)
(* interrupt came between the two port accesses of a cmos_read: the        *)
(* callback leaves register C selected, and the value read then is C's.    *)
ReadTrue == rd.at \in {"store", "done"} /\ ~clk.hit => rd.out \in clk.shown

(* Days from the first of January of year 0, by counting.                  *)
MonthStart == <<0, 31, 59, 90, 120, 151, 181, 212, 243, 273, 304, 334>>

DayNumber(y, m, d) ==
  LET Upto(k) == (IF m > 2 THEN y ELSE y - 1) \div k
  IN 365 * y + Upto(4) - Upto(100) + Upto(400) + MonthStart[m] + d

SecondOfDay(d) == (d.hours * 60 + d.minutes) * 60 + d.seconds

(* The seconds from the time d to the time e.                              *)
Between(d, e) ==
  (DayNumber(e.year, e.month, e.day) - DayNumber(d.year, d.month, d.day)) * 86400
    + SecondOfDay(e) - SecondOfDay(d)

(* The day exists: it comes before the first of the next month.            *)
RealDate(d) ==
  /\ d.month \in 1 .. 12 /\ d.day \in 1 .. 31
  /\ d.month < 12 => DayNumber(d.year, d.month, d.day) < DayNumber(d.year, d.month + 1, 1)

(* Once the date is stored, each interrupt moves datetime on by exactly    *)
(* one millisecond, to a date that exists, across seconds, days, months,   *)
(* years and the leap days of the Gregorian calendar (datetime_add_ms,     *)
(* against a count of days).                                               *)
TicksExact ==
  [][ rd.at = "done" /\ ~clk.hit /\ datetime' # datetime =>
        /\ RealDate(datetime')
        /\ Between(datetime, datetime') * MsPerSecond
             + datetime'.milliseconds - datetime.milliseconds = 1 ]_clockVars
=============================================================================
