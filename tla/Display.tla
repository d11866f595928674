------------------------------ MODULE Display ------------------------------
(***************************************************************************)
(* The four-letter display (Drivers/hcms3902.c) behind three pins and the  *)
(* SPI driver (source/spi.c): KavachInit sets the pins and the SPI up,     *)
(* resets the display, wakes it and blanks it, and main then shows " OK ". *)
(*                                                                         *)
(* A word of the SPI is a column of five to a letter, or a control word.   *)
(* The display (external) reads the pin RS when it is selected, and until  *)
(* it is released shifts columns in if that was low, or takes a control    *)
(* word if it was high; it sleeps after a reset.  An error of the SPI      *)
(* stays, as nothing clears its flags, and ends every transfer.            *)
(***************************************************************************)
EXTENDS Naturals, Sequences

CONSTANTS Released

VARIABLES
  gio,           \* ports A and B
  spi,           \* format of words, pins and whether it runs
  spi_error,     \* an error bit of FLG is set
  call, word,    \* the place in DisplayCalls, and the words that remain of it
  \* The display (external).
  selected,      \* RS as it was selected, or Released
  control, dots

displayVars == <<gio, spi, spi_error, call, word, selected, control, dots>>

SPI_FMT_0 == 0
Columns == 5
Letters == 4

HCMS_RS == <<"A", 2>>
HCMS_RESET == <<"B", 0>>
HCMS_BLANK == <<"B", 1>>
RS485 == <<"A", 0>>

Fonts == {"O", "K", "F", "A", "I", "L"}

\* HCMS_GetFont: a letter without a font is blank.
GetFont(letter, col) ==
  IF letter \in Fonts THEN <<letter, col>> ELSE <<" ", col>>

-----------------------------------------------------------------------------
(* The pins of the ports A and B (source/gio.c).  A port is the set of its *)
(* pins that are outputs and the set of those that are driven high; a pin  *)
(* is a port and a number.  All are pulled down, so an input to which      *)
(* nothing is connected is low.                                            *)

PortsInReset ==
  [running |-> FALSE, A |-> [dir |-> {}, dout |-> {}], B |-> [dir |-> {}, dout |-> {}],
   enabled |-> {}]

\* gioInit: no pin is high, and two of each port are outputs.
PortA == [dir |-> {0, 2}, dout |-> {}]
PortB == [dir |-> {0, 1}, dout |-> {}]

\* The pins that interrupt: gioInit clears all, and sets none.
InterruptPins == {}

gioInit == [running |-> TRUE, A |-> PortA, B |-> PortB, enabled |-> InterruptPins]

\* A module in reset does not take a bit.
gioSetBit(ports, pin, value) ==
  IF ~ports.running THEN ports
  ELSE [ports EXCEPT ![pin[1]].dout = IF value # 0 THEN @ \cup {pin[2]} ELSE @ \ {pin[2]}]

Level(ports, pin) == IF pin[2] \in ports[pin[1]].dir \cap ports[pin[1]].dout THEN 1 ELSE 0

-----------------------------------------------------------------------------
(* The calls of KavachInit and main that the display hangs on *)

SetBit(pin, value) == [op |-> "gioSetBit", pin |-> pin, value |-> value, words |-> <<>>]
Transmit(hold, words) == [op |-> "spiTransmitData", hold |-> hold, words |-> words]
Setup(op) == [op |-> op, words |-> <<>>]

\* HCMS_WriteControl releases the display after each word, HCMS_DisplayString
\* holds it until the last.
WriteControl(value) == << SetBit(HCMS_RS, 1), Transmit(FALSE, <<value>>) >>

DisplayString(str) ==
  << SetBit(HCMS_RS, 0),
     Transmit(TRUE, [w \in 1..(Letters * Columns) |->
                       GetFont(str[((w - 1) \div Columns) + 1], ((w - 1) % Columns) + 1)]) >>

CONTROL_WORD_0 == "0x7F: awake, full brightness"
Asleep == "asleep"

HCMS_Init ==
  << SetBit(HCMS_BLANK, 0), SetBit(HCMS_RESET, 0), SetBit(HCMS_RESET, 1) >>
  \o WriteControl(CONTROL_WORD_0) \o DisplayString(<<" ", " ", " ", " ">>)

DisplayCalls ==
  << Setup("gioInit"), SetBit(RS485, 0), Setup("spiInit") >>
  \o HCMS_Init \o DisplayString(<<" ", "O", "K", " ">>)

-----------------------------------------------------------------------------
(* The SPI *)

SpiPins == {"ENA", "CLK", "SIMO0", "SOMI0", "SIMO1", "SOMI1"}
             \cup {"SCS0", "SCS1", "SCS2", "SCS3", "SCS4", "SCS5"}

SpiInReset == [formats |-> [f \in 0..3 |-> 0], functional |-> {}, running |-> FALSE]

\* Format 0 has words of eight bits, the others of sixteen.
SpiFormats == [f \in 0..3 |-> IF f = 0 THEN 8 ELSE 16]

\* All pins are made functional, whatever their directions and pulls.
FunctionalPins == SpiPins

spiInit == [formats |-> SpiFormats, functional |-> FunctionalPins, running |-> TRUE]

\* A word reaches the display.
IsWired == spi.running /\ {"SCS0", "CLK", "SIMO0"} \subseteq spi.functional

-----------------------------------------------------------------------------
DisplayInit ==
  /\ gio = PortsInReset /\ spi = SpiInReset /\ spi_error = FALSE
  /\ call = 1 /\ word = 0
  /\ selected = Released /\ control = Asleep
  /\ dots = [i \in 1..(Letters * Columns) |-> <<"?", 1>>]

Calling(op) == call \in DOMAIN DisplayCalls /\ DisplayCalls[call].op = op

NextCall ==
  /\ call' = call + 1
  /\ word' = IF call < Len(DisplayCalls) THEN Len(DisplayCalls[call + 1].words) ELSE 0

SetUpPorts ==
  /\ Calling("gioInit") /\ NextCall
  /\ gio' = gioInit
  /\ UNCHANGED <<spi, spi_error, selected, control, dots>>

SetUpSpi ==
  /\ Calling("spiInit") /\ NextCall
  /\ spi' = spiInit /\ spi_error' = FALSE
  /\ UNCHANGED <<gio, selected, control, dots>>

\* A display whose reset is low sleeps.
SetPin ==
  /\ Calling("gioSetBit") /\ NextCall
  /\ gio' = gioSetBit(gio, DisplayCalls[call].pin, DisplayCalls[call].value)
  /\ control' = IF Level(gio', HCMS_RESET) = 0 THEN Asleep ELSE control
  /\ UNCHANGED <<spi, spi_error, selected, dots>>

\* The display takes a word: of eight bits, as any other shifts a column apart.
Take(w, rs) ==
  IF ~IsWired \/ Level(gio, HCMS_RESET) = 0 THEN UNCHANGED <<control, dots>>
  ELSE IF spi.formats[SPI_FMT_0] # 8 THEN control' = Asleep /\ UNCHANGED dots
  ELSE IF rs = 1 THEN control' = w /\ UNCHANGED dots
  ELSE dots' = Append(Tail(dots), w) /\ UNCHANGED control

\* spiTransmitData: the next word, unless there has been an error.  The last
\* one releases the display, whatever the configuration says.
TransmitWord ==
  /\ Calling("spiTransmitData") /\ word > 0 /\ ~spi_error
  /\ LET c == DisplayCalls[call]
         rs == IF selected = Released THEN Level(gio, HCMS_RS) ELSE selected
     IN /\ Take(c.words[Len(c.words) - word + 1], rs)
        /\ selected' = IF c.hold /\ word # 1 THEN rs ELSE Released
  /\ word' = word - 1
  /\ UNCHANGED <<gio, spi, spi_error, call>>

\* Its end: nothing looks at the flags that it returns.
EndTransmit ==
  /\ Calling("spiTransmitData") /\ (word = 0 \/ spi_error) /\ NextCall
  /\ UNCHANGED <<gio, spi, spi_error, selected, control, dots>>

\* An error on the lines (external).
SpiError ==
  /\ ~spi_error /\ Calling("spiTransmitData")
  /\ spi_error' = TRUE
  /\ UNCHANGED <<gio, spi, call, word, selected, control, dots>>

\* The loop of main does not write to the display.
LeaveDisplay == call > Len(DisplayCalls) /\ UNCHANGED displayVars

DisplayNext ==
  \/ SetUpPorts \/ SetUpSpi \/ SetPin \/ TransmitWord \/ EndTransmit \/ LeaveDisplay
  \/ SpiError

-----------------------------------------------------------------------------
(* Properties *)

\* When main enters its loop without an error of the SPI, the display is awake,
\* lit and released, and shows " OK ", each column in its place.
TextIsShown ==
  call = Len(DisplayCalls) + 1 =>
    \/ spi_error
    \/ /\ control = CONTROL_WORD_0 /\ Level(gio, HCMS_BLANK) = 0
       /\ selected = Released
       /\ \A i \in 1..Letters, k \in 1..Columns :
            dots[Columns * (i - 1) + k] = <<(<<" ", "O", "K", " ">>)[i], k>>
=============================================================================
