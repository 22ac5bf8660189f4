------------------------------- MODULE Clock -------------------------------
(***************************************************************************)
(* The clock: the battery-backed RTC as read_rtc of clock.c meets it, the  *)
(* conversions of read_rtc, system call 17 and the shell's clock command.  *)
(*                                                                         *)
(* The RTC is a process of its own. Once a second it raises the update     *)
(* flag, changes its registers one by one and lowers the flag. read_rtc    *)
(* reads one register at a time; no interrupt switch keeps the RTC still.  *)
(***************************************************************************)
EXTENDS Integers, Sequences

CONSTANTS
    Starts,          \* the moments at which a call may begin
    MaxTicks,        \* bound: updates of the RTC during one call
    CURRENT_YEAR

VARIABLES
    bcd, h24,        \* the modes, bits of register B
    now,             \* the moment the RTC shows
    registers,       \* its registers 0, 2, 4, 7, 8, 9, numbered from 1
    uip,             \* its update-in-progress flag
    updated,         \* registers the update under way has changed
    ticks,
    seen,            \* auxiliary: the moments shown since the call began
    pc,              \* of the call: "wait", "read", "convert", "answer",
                     \* "print" or "done"
    next_register,   \* the register read_rtc reads next
    current, last,   \* second .. year and last_second .. last_year
    local,           \* second .. year after the conversions
    answer,          \* hour, minute, second as the caller gets them
    printed          \* and as clock() prints them

modes == <<bcd, h24>>
rtc == <<now, registers, uip, updated, ticks, seen>>
call == <<pc, next_register, current, last, local, answer, printed>>
vars == <<modes, rtc, call>>
-----------------------------------------------------------------------------
(* The calendar. A moment is <<second, minute, hour, day, month, year>>,   *)
(* the year by its last two digits.                                        *)

Registers == 1 .. 6
FullYear(y) == IF 2000 + y < CURRENT_YEAR THEN 2100 + y ELSE 2000 + y
IsLeap(y) == (y % 4 = 0 /\ y % 100 # 0) \/ y % 400 = 0
DaysIn(month, y) == CASE month \in {4, 6, 9, 11} -> 30
                      [] month = 2 -> IF IsLeap(y) THEN 29 ELSE 28
                      [] OTHER -> 31

\* Day, month and full year after d.
NextDay(d) ==
    CASE d[1] < DaysIn(d[2], d[3]) -> <<d[1] + 1, d[2], d[3]>>
      [] d[1] = DaysIn(d[2], d[3]) /\ d[2] < 12 -> <<1, d[2] + 1, d[3]>>
      [] OTHER -> <<1, 1, d[3] + 1>>

Moments ==
    {m \in (0 .. 59) \X (0 .. 59) \X (0 .. 23) \X (1 .. 31) \X (1 .. 12) \X (0 .. 99) :
        m[4] <= DaysIn(m[5], FullYear(m[6]))}

\* The call takes less than a minute: it runs with interrupts off, and two
\* readings are a few microseconds.
ASSUME ClockAssumption ==
    /\ MaxTicks \in 0 .. 59
    /\ CURRENT_YEAR \in 2000 .. 2099
    /\ Starts \subseteq Moments

NextMoment(m) ==
    LET day == NextDay(<<m[4], m[5], FullYear(m[6])>>)
    IN  CASE m[1] < 59 -> [m EXCEPT ![1] = @ + 1]
          [] m[1] = 59 /\ m[2] < 59 -> [m EXCEPT ![1] = 0, ![2] = @ + 1]
          [] m[1] = 59 /\ m[2] = 59 /\ m[3] < 23 -> [m EXCEPT ![1] = 0, ![2] = 0, ![3] = @ + 1]
          [] OTHER -> <<0, 0, 0, day[1], day[2], day[3] % 100>>
-----------------------------------------------------------------------------
(* The RTC.                                                                *)

ToBcd(v) == 16 * (v \div 10) + (v % 10)
Stored(v) == IF bcd THEN ToBcd(v) ELSE v

\* The 12-hour mode counts 12, 1, .. 11 twice and sets bit 7 after noon.
StoredHour(h) ==
    IF h24 THEN Stored(h)
    ELSE Stored(IF h % 12 = 0 THEN 12 ELSE h % 12) + (IF h >= 12 THEN 128 ELSE 0)
Encoded(m) == [x \in Registers |-> IF x = 3 THEN StoredHour(m[3]) ELSE Stored(m[x])]

UpdateBegin ==
    /\ ~uip /\ ticks < MaxTicks
    /\ uip' = TRUE /\ updated' = 0
    /\ UNCHANGED <<modes, now, registers, ticks, seen, call>>

UpdateRegister ==
    /\ uip /\ updated < 6
    /\ registers' = [registers EXCEPT ![updated + 1] = Encoded(NextMoment(now))[updated + 1]]
    /\ updated' = updated + 1
    /\ UNCHANGED <<modes, now, uip, ticks, seen, call>>

UpdateEnd ==
    /\ uip /\ updated = 6
    /\ uip' = FALSE
    /\ now' = NextMoment(now)
    /\ seen' = seen \cup {now'}
    /\ ticks' = ticks + 1
    /\ UNCHANGED <<modes, registers, updated, call>>

RTC == UpdateBegin \/ UpdateRegister \/ UpdateEnd
-----------------------------------------------------------------------------
(* read_rtc: the registers are read until two readings agree. There is no  *)
(* century register, and the two uninitialised centuries the code compares *)
(* are copies of one another.                                              *)

\* Mutant: the flag is not looked at.
FlagIgnored == FALSE

get_update_in_progress_flag == uip

WaitForUpdate ==
    /\ pc = "wait" /\ ~get_update_in_progress_flag
    /\ pc' = "read" /\ next_register' = 1
    /\ UNCHANGED <<modes, rtc, current, last, local, answer, printed>>

ReadRegister ==
    /\ pc = "read" /\ next_register <= 6
    /\ current' = [current EXCEPT ![next_register] = registers[next_register]]
    /\ next_register' = next_register + 1
    /\ UNCHANGED <<modes, rtc, pc, last, local, answer, printed>>

\* Mutant: the first reading stays the one to match.
FirstReading == IF last = <<>> THEN current ELSE last

SameTwice == current = last
LastReading == current

Compare ==
    /\ pc = "read" /\ next_register > 6
    /\ IF SameTwice THEN pc' = "convert" /\ UNCHANGED last
                    ELSE pc' = "wait" /\ last' = LastReading
    /\ UNCHANGED <<modes, rtc, next_register, current, local, answer, printed>>

FromBcd(b) == IF bcd THEN (b % 16) + 10 * (b \div 16) ELSE b

\* Mutant: bit 7 of the hour is taken for a digit.
HourWithBit(b) == FromBcd(b)

HourOf(b) ==
    LET binary == FromBcd(b % 128)
    IN  IF ~h24 /\ b >= 128 THEN (binary + 12) % 24 ELSE binary

\* Mutant: the month with the extra hours is never the next year's.
NextDayInYear(d) ==
    LET over == d[1] + 1 > DaysIn(d[2], d[3])
    IN  <<IF over THEN 1 ELSE d[1] + 1, IF over THEN d[2] + 1 ELSE d[2], d[3]>>

\* The day after d as the chain of tests computes it.
DayAfter(d) ==
    LET day == d[1] + 1
        over == \/ d[2] \in {1, 3, 5, 7, 8, 10, 12} /\ day > 31
                \/ d[2] \in {4, 6, 9, 11} /\ day > 30
                \/ d[2] = 2 /\ day > (IF IsLeap(d[3]) THEN 29 ELSE 28)
        month == IF over THEN d[2] + 1 ELSE d[2]
    IN  <<IF over THEN 1 ELSE day, IF month > 12 THEN 1 ELSE month,
          IF month > 12 THEN d[3] + 1 ELSE d[3]>>

\* BCD, the 24-hour clock, the century and GMT+7.
Convert ==
    LET hour == HourOf(current[3]) + 7
        day == <<FromBcd(current[4]), FromBcd(current[5]), FullYear(FromBcd(current[6]))>>
        date == IF hour >= 24 THEN DayAfter(day) ELSE day
    IN  /\ pc = "convert"
        /\ local' = <<FromBcd(current[1]), FromBcd(current[2]),
                      IF hour >= 24 THEN hour - 24 ELSE hour>> \o date
        /\ pc' = "answer"
        /\ UNCHANGED <<modes, rtc, next_register, current, last, answer, printed>>

\* The rest of system call 17; the same three numbers go to the corner of the
\* screen.
Answer ==
    /\ pc = "answer"
    /\ answer' = <<local[3], local[2], local[1]>>
    /\ pc' = "print"
    /\ UNCHANGED <<modes, rtc, next_register, current, last, local, printed>>

\* The rest of the shell's clock().
PrintTime ==
    /\ pc = "print"
    /\ printed' = [answer EXCEPT ![1] = @ + 7]
    /\ pc' = "done"
    /\ UNCHANGED <<modes, rtc, next_register, current, last, local, answer>>

read_rtc == WaitForUpdate \/ ReadRegister \/ Compare \/ Convert
-----------------------------------------------------------------------------
Init ==
    /\ bcd \in BOOLEAN /\ h24 \in BOOLEAN
    /\ now \in Starts
    /\ registers = Encoded(now)
    /\ uip = FALSE /\ updated = 0 /\ ticks = 0
    /\ seen = {now}
    /\ pc = "wait" /\ next_register = 1
    /\ current = [x \in Registers |-> 0] /\ last = <<>>
    /\ local = <<>> /\ answer = <<>> /\ printed = <<>>

Done == pc = "done" /\ UNCHANGED vars

Caller == read_rtc \/ Answer \/ PrintTime
Next == RTC \/ Caller \/ Done

\* The caller runs on, and the RTC finishes an update it has begun.
Spec == Init /\ [][Next]_vars /\ WF_vars(Caller) /\ WF_vars(UpdateRegister \/ UpdateEnd)
-----------------------------------------------------------------------------
(* Properties.                                                             *)

\* What a clock seven hours ahead of m shows.
Wib(m) ==
    LET day == <<m[4], m[5], FullYear(m[6])>>
    IN  <<m[1], m[2], (m[3] + 7) % 24>> \o (IF m[3] + 7 >= 24 THEN NextDay(day) ELSE day)

\* Every variable holds a value of its declared type: the registers and the
\* variables of read_rtc are bytes, and what the caller is told is a time of day.
\* The shell adds 7 to its hour once more, so what clock() prints may pass 23.
TypeOK ==
    /\ registers \in [Registers -> 0 .. 255] /\ current \in [Registers -> 0 .. 255]
    /\ updated \in 0 .. 6 /\ next_register \in 1 .. 7 /\ ticks \in 0 .. MaxTicks
    /\ pc \in {"wait", "read", "convert", "answer", "print", "done"}
    /\ answer # <<>> => answer \in (0 .. 23) \X (0 .. 59) \X (0 .. 59)
    /\ printed # <<>> => printed \in (7 .. 30) \X (0 .. 59) \X (0 .. 59)

\* The registers read_rtc goes on with are those of one moment the RTC showed
\* during the call, however its updates fell between the readings: an update
\* that tears one reading makes the next one differ.
ReadingIsOneMoment ==
    pc \in {"convert", "answer", "print", "done"} =>
        \E m \in seen : current = Encoded(m)

\* The time and the date read_rtc computes are those of such a moment seven
\* hours ahead, over the end of a day, month, leap February and year; but in
\* the 12-hour mode it takes 12 AM for noon and 12 PM for midnight.
LocalIsWib ==
    local # <<>> =>
        \E m \in seen : \/ local = Wib(m)
                        \/ /\ ~h24 /\ m[3] % 12 = 0
                           /\ local = Wib([m EXCEPT ![3] = (@ + 12) % 24])

\* The call returns: with the RTC at rest for two readings they agree.
ReadReturns == <>(pc = "done")
=============================================================================
