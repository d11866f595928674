-------------------------------- MODULE Rtc --------------------------------
(***************************************************************************)
(* The real-time clock (Drivers/i2c_UD.c): GPS time is turned into a date  *)
(* and written into the registers of the clock, one of them every ten      *)
(* milliseconds (v_10msTasks in source/sys_main.c); the time is read back  *)
(* in the same way.  The registers hold two decimal digits each.           *)
(* The loops that wait for the I2C module are guards; it transmits a byte  *)
(* far slower than the program sets its mode.                              *)
(*                                                                         *)
(* The call of v_10msTasks is commented out in main: what it would do is   *)
(* modelled here, and that it does nothing in GpsTime.  The count of       *)
(* seconds is a day and a second of the day, as it exceeds the integers of *)
(* TLC; it does not exceed 32 bits before 2116.  The clock (external)      *)
(* stands still: what a reading across the turn of a minute gives is left  *)
(* out.                                                                    *)
(*                                                                         *)
(* Of the I2C module and its driver (source/i2c.c) there are the functions *)
(* that the clock is reached with.  The mode and the status are the sets   *)
(* of the bits that are set.  The module (external) begins a transaction   *)
(* when it is a master and START is set, and holds the bus until it has    *)
(* sent STOP.                                                              *)
(***************************************************************************)
EXTENDS Naturals, Sequences

CONSTANTS
  Times,         \* times that GPS gives: [day, second], from 2000 to 2099
  MaxTimes,      \* bound: times that are set
  Days,          \* days of which the calendar is checked
  NoTime

VARIABLES
  rtc_set,                            \* the date and time to be written
  start_rtc_write, rtc_write_count,
  rtc_raw,                            \* the registers as they were read
  start_rtc_read, rtc_read_count,
  rtc_abs_seconds,
  i2c,                                \* the registers of the I2C module
  registers,                          \* of the clock (external)
  \* History.
  times_set,     \* how often a time has been set
  writing,       \* the time being written, or NoTime once it has been replaced
  written,       \* the time that the registers hold, or NoTime if of several
  reading        \* a reading has begun with written unchanged since

rtcVars == <<rtc_set, start_rtc_write, rtc_write_count, rtc_raw, start_rtc_read,
             rtc_read_count, rtc_abs_seconds, i2c, registers, times_set, writing, written, reading>>

GPS_EPOCH_YEAR == 1980
GPS_EPOCH_DAY_OFFSET == 5
RX_LEN == 7
DayOfWeek == 3      \* the register that is skipped
Registers == 0..(RX_LEN - 1) \ {DayOfWeek}

-----------------------------------------------------------------------------
(* The driver of the I2C module *)

SLAVE_ADDR == 104

Master == {"master"}
Transmitter == {"transmitter"}
Receiver == {}

I2cInReset == [mode |-> {}, status |-> {}, count |-> 0, slave |-> 0]

\* i2cInit: a master that transmits and will stop, with the interrupts off.
i2cInit ==
  [mode |-> {"stop"} \cup Master \cup Transmitter \cup {"out of reset"},
   status |-> {}, count |-> 8, slave |-> 0]

SetSlaveAdd(m, address) == [m EXCEPT !.slave = address]
SetCount(m, count) == [m EXCEPT !.count = count]
SetStart(m) == [m EXCEPT !.mode = @ \cup {"start"}]
SetStop(m) == [m EXCEPT !.mode = @ \cup {"stop"}]
SetMode(m, mode) == [m EXCEPT !.mode = (@ \ Master) \cup mode]
SetDirection(m, dir) == [m EXCEPT !.mode = (@ \ Transmitter) \cup dir]

\* The lines of RTC_ReadByte that write to the mode themselves.
ClearStopAndNack(m) == [m EXCEPT !.mode = @ \ {"stop", "nack"}]
SetNack(m) == [m EXCEPT !.mode = @ \cup {"nack"}]

IsTxReady(m) == "transmit ready" \in m.status
IsRxReady(m) == "receive ready" \in m.status
IsStopDetected(m) == "stop detected" \in m.status
IsBusBusy(m) == "bus busy" \in m.status
IsAccessReady(m) == "access ready" \in m.status

-----------------------------------------------------------------------------
(* The I2C module (external) *)

Begins(m) == {"out of reset", "start"} \cup Master \subseteq m.mode

Transmits(m) == Begins(m) /\ Transmitter \subseteq m.mode
Receives(m) == Begins(m) /\ Transmitter \cap m.mode = {}

\* After its address: it asks for a byte, or has one.
Addressed(m) ==
  [m EXCEPT !.mode = @ \ {"start"},
            !.status = (@ \ {"access ready"}) \cup
                         {"bus busy", IF Transmits(m) THEN "transmit ready" ELSE "receive ready"}]

\* After the last byte: with STOP it is no master any longer, and the bus is free.
Completed(m) ==
  LET quiet == m.status \ {"transmit ready", "receive ready"}
  IN IF "stop" \in m.mode
     THEN [m EXCEPT !.mode = @ \ ({"stop"} \cup Master),
                    !.status = (quiet \ {"bus busy"}) \cup {"stop detected"}]
     ELSE [m EXCEPT !.status = quiet \cup {"access ready"}]

-----------------------------------------------------------------------------
(* The calendar *)

IsLeapYear(y) == (y % 4 = 0 /\ y % 100 # 0) \/ y % 400 = 0

DaysInYear(y) == IF IsLeapYear(y) THEN 366 ELSE 365

DaysInMonth(y, m) ==
  << 31, 28, 31, 30, 31, 30, 31, 31, 30, 31, 30, 31 >>[m]
    + (IF m = 2 /\ IsLeapYear(y) THEN 1 ELSE 0)

\* calendar_to_seconds
CalendarToSeconds(c) ==
  LET years[y \in GPS_EPOCH_YEAR..c.year] ==
        IF y = GPS_EPOCH_YEAR THEN 0 ELSE years[y - 1] + DaysInYear(y - 1)
      months[m \in 0..12] ==
        IF m <= 1 THEN 0 ELSE months[m - 1] + DaysInMonth(c.year, m - 1)
      days == years[c.year] + months[c.month] + c.day - 1
  IN IF days < GPS_EPOCH_DAY_OFFSET THEN [day |-> 0, second |-> 0]
     ELSE [day |-> days - GPS_EPOCH_DAY_OFFSET,
           second |-> 3600 * c.hour + 60 * c.min + c.sec]

\* seconds_to_calendar
SecondsToCalendar(t) ==
  LET \* Year and the days in it; then month and the days in that.
      YearOf[y \in Nat, days \in Nat] ==
        IF days < DaysInYear(y) THEN <<y, days>> ELSE YearOf[y + 1, days - DaysInYear(y)]
      inYear == YearOf[GPS_EPOCH_YEAR, t.day + GPS_EPOCH_DAY_OFFSET]
      MonthOf[m \in Nat, days \in Nat] ==
        IF days < DaysInMonth(inYear[1], m) THEN <<m, days>>
        ELSE MonthOf[m + 1, days - DaysInMonth(inYear[1], m)]
      inMonth == MonthOf[1, inYear[2]]
  IN [year |-> inYear[1], month |-> inMonth[1], day |-> inMonth[2] + 1,
      hour |-> t.second \div 3600, min |-> (t.second \div 60) % 60, sec |-> t.second % 60]

-----------------------------------------------------------------------------
(* The registers *)

Binary2BCD(bin) == 16 * ((bin \div 10) % 10) + (bin % 10)

\* Of eight bits.
BCD2Binary(bcd) == 10 * ((bcd % 256) \div 16) + (bcd % 16)

RtcInit ==
  /\ rtc_set = [r \in 0..(RX_LEN - 1) |-> 0]
  /\ start_rtc_write = TRUE /\ rtc_write_count = 0
  /\ rtc_raw = [r \in 0..(RX_LEN - 1) |-> 0]
  /\ start_rtc_read = FALSE /\ rtc_read_count = 0
  /\ rtc_abs_seconds = [day |-> 0, second |-> 0]
  /\ i2c = i2cInit
  /\ registers = [r \in 0..(RX_LEN - 1) |-> 0]
  /\ times_set = 0 /\ writing = NoTime /\ written = NoTime /\ reading = FALSE

\* gps_process, in the second of a GPS time, if gps_write_rtc is set.  A writing
\* that is under way goes on with the new values.
SetTime(t) ==
  LET c == SecondsToCalendar(t)
  IN /\ times_set < MaxTimes /\ times_set' = times_set + 1
     /\ rtc_set' = [rtc_set EXCEPT ![0] = c.sec, ![1] = c.min, ![2] = c.hour, ![4] = c.day,
                                   ![5] = c.month, ![6] = (c.year - 2000) % 256]
     /\ start_rtc_write' = TRUE
     /\ writing' = IF rtc_write_count = 0 THEN t ELSE NoTime
     /\ UNCHANGED <<rtc_write_count, rtc_raw, start_rtc_read, rtc_read_count, rtc_abs_seconds,
                    i2c, registers, written, reading>>

\* v_1sTasks
AskForTime ==
  /\ start_rtc_read' = TRUE
  /\ UNCHANGED <<rtc_set, start_rtc_write, rtc_write_count, rtc_raw, rtc_read_count,
                 rtc_abs_seconds, i2c, registers, times_set, writing, written, reading>>

\* What RTC_WriteByte sets before it hands over the value.
WriteBegun(m) ==
  SetStop(SetStart(SetDirection(SetMode(SetCount(SetSlaveAdd(m, SLAVE_ADDR), 2), Master),
                                Transmitter)))

\* The clock (external) takes the number of a register and a value.
Stored(m, r, value) ==
  IF Transmits(m) /\ m.slave = SLAVE_ADDR /\ m.count = 2 THEN [registers EXCEPT ![r] = value]
  ELSE registers

\* RTC_WriteByte: of a register, with STOP after the value.
WriteByte(m, r) ==
  LET begun == WriteBegun(m)
  IN /\ ~IsBusBusy(m) /\ IsTxReady(Addressed(begun))
     /\ registers' = Stored(begun, r, Binary2BCD(rtc_set[r]))
     /\ i2c' = Completed(Addressed(begun))
     /\ IsStopDetected(i2c')

\* What RTC_ReadByte sets before each of its STARTs: the first sends the number
\* of the register and keeps the bus, the second gives it back.
PointerBegun(m) ==
  ClearStopAndNack(SetMode(SetStart(SetDirection(SetCount(SetSlaveAdd(m, SLAVE_ADDR), 1),
                                                 Transmitter)), Master))

ReadBegun(m) ==
  SetNack(SetStop(SetStart(SetDirection(SetMode(SetCount(m, 1), Master), Receiver))))

\* What the clock (external) answers: nothing pulls the line down if it does not.
Answer(pointed, begun, r) ==
  IF Transmits(pointed) /\ Receives(begun) /\ begun.slave = SLAVE_ADDR THEN registers[r] ELSE 255

\* RTC_ReadByte: of a register, and the module as it leaves it.
AfterRead(m) == Completed(Addressed(ReadBegun(Completed(Addressed(PointerBegun(m))))))

ReadByte(r) ==
  LET pointed == PointerBegun(i2c)
      accessed == Completed(Addressed(pointed))
      begun == ReadBegun(accessed)
  IN /\ ~IsBusBusy(i2c) /\ IsAccessReady(accessed) /\ IsRxReady(Addressed(begun))
     /\ rtc_raw' = [rtc_raw EXCEPT ![r] = Answer(pointed, begun, r)]

\* The time in registers that have been read.
TimeIn(raw) ==
  CalendarToSeconds([sec |-> BCD2Binary(raw[0] % 128), min |-> BCD2Binary(raw[1]),
                     hour |-> BCD2Binary(raw[2] % 64), day |-> BCD2Binary(raw[4]),
                     month |-> BCD2Binary(raw[5]), year |-> 2000 + BCD2Binary(raw[6])])

\* A register of a reading, in the 10 ms task: the last gives the time.
ReadStep ==
  LET last == rtc_read_count + 1 = RX_LEN
  IN IF ~start_rtc_read
     THEN UNCHANGED <<start_rtc_read, rtc_read_count, rtc_raw, rtc_abs_seconds>>
     ELSE /\ IF rtc_read_count = DayOfWeek THEN UNCHANGED rtc_raw ELSE ReadByte(rtc_read_count)
          /\ rtc_read_count' = IF last THEN 0 ELSE rtc_read_count + 1
          /\ start_rtc_read' = ~last
          /\ rtc_abs_seconds' = IF last THEN TimeIn(rtc_raw') ELSE rtc_abs_seconds

\* The I2C module after that.
AfterReadStep ==
  IF start_rtc_read /\ rtc_read_count # DayOfWeek THEN AfterRead(i2c) ELSE i2c

\* A register of a writing.
WriteStep ==
  LET last == rtc_write_count + 1 = RX_LEN
  IN IF ~start_rtc_write
     THEN /\ i2c' = AfterReadStep
          /\ UNCHANGED <<start_rtc_write, rtc_write_count, registers, written, writing>>
     ELSE /\ IF rtc_write_count = DayOfWeek THEN i2c' = AfterReadStep /\ UNCHANGED registers
             ELSE WriteByte(AfterReadStep, rtc_write_count)
          /\ rtc_write_count' = IF last THEN 0 ELSE rtc_write_count + 1
          /\ start_rtc_write' = ~last
          /\ written' = IF last THEN writing ELSE NoTime
          /\ UNCHANGED writing

\* v_10msTasks: a register of a reading, then one of a writing.
TenMilliseconds ==
  /\ ReadStep /\ WriteStep
  /\ reading' = (start_rtc_read /\ ~start_rtc_write /\ (reading \/ rtc_read_count = 0))
  /\ UNCHANGED <<rtc_set, times_set>>

RtcNext ==
  \/ \E t \in Times : SetTime(t)
  \/ AskForTime
  \/ TenMilliseconds

-----------------------------------------------------------------------------
(* Properties *)

\* The first of January of 2000 is the day 7300, and the day after a date is the
\* next in the calendar.
CalendarIsRight ==
  /\ LET c == SecondsToCalendar([day |-> 7300, second |-> 0])
     IN <<c.year, c.month, c.day>> = <<2000, 1, 1>>
  /\ \A d \in Days :
       LET c == SecondsToCalendar([day |-> d, second |-> 0])
           n == SecondsToCalendar([day |-> d + 1, second |-> 0])
       IN /\ CalendarToSeconds(c).day = d
          /\ c.month \in 1..12 /\ c.day \in 1..DaysInMonth(c.year, c.month)
          /\ <<n.year, n.month, n.day>> =
               IF c.day < DaysInMonth(c.year, c.month) THEN <<c.year, c.month, c.day + 1>>
               ELSE IF c.month < 12 THEN <<c.year, c.month + 1, 1>> ELSE <<c.year + 1, 1, 1>>

\* A time that was written without being replaced meanwhile is the one that is
\* read, if nothing was written meanwhile; and no call leaves the bus held, so
\* the next one does not wait for ever.
TimeIsReadBack ==
  /\ (reading /\ written # NoTime /\ ~start_rtc_read) => rtc_abs_seconds = written
  /\ ~IsBusBusy(i2c)
=============================================================================
