---------------------------- MODULE BoardProofs -----------------------------
(***************************************************************************)
(* What the pins of the board and its start-up promise, for every set of   *)
(* ports, pins and configurations.                                         *)
(***************************************************************************)
EXTENDS BoardStart, TLAPS

-----------------------------------------------------------------------------
(* The pins.                                                               *)
(*                                                                         *)
(* PinsKeepConfig is inductive once the registers are known to hold bits   *)
(* of their fields only: a field of two bits that is cleared as two bits   *)
(* must not have a third.  The work is in the two lemmas on SetField: what *)
(* it makes of the pin it is asked for, and that it leaves every other pin *)
(* alone.                                                                  *)

\* A register with a field of width bits for each pin.
FieldRegister(width) == SUBSET (Pin \X (0 .. width - 1))

\* Types, the width of each field included.
RegistersOK == /\ MODER \in [Port -> FieldRegister(2)]
               /\ OSPEEDR \in [Port -> FieldRegister(2)]
               /\ PUPDR \in [Port -> FieldRegister(2)]
               /\ AFR \in [Port -> FieldRegister(4)]
               /\ OTYPER \in [Port -> SUBSET Nat]

LineRequest == [port : Port, mode : Modes]

LinesOK == /\ asked_line \in [Pin -> LineRequest \cup {NotConfigured}]
           /\ last_line \in [0 .. 3 -> SUBSET Pin]
           /\ EXTICR \in [0 .. 3 -> [0 .. 3 -> Nat]]

GpioTypeOK == /\ RegistersOK
              /\ configured \in [Port -> [Pin -> PinConfig \cup {NotConfigured}]]
              /\ LinesOK

\* A configuration; bits of an output type that does not fit reach other pins.
Config(c) == /\ c.mode \in Modes
             /\ c.speed \in SUBSET (0 .. 1) /\ c.pupd \in SUBSET (0 .. 1)
             /\ c.optype \in SUBSET (0 .. 7) /\ c.af \in SUBSET (0 .. 3)

PinsInv == GpioTypeOK /\ PinsKeepConfig

\* The field that was asked for holds the bits that were asked for.
LEMMA SetFieldTakes ==
  ASSUME NEW p \in Pin, NEW width \in {2, 4}, NEW reg \in FieldRegister(width),
         NEW bits \in SUBSET (0 .. width - 1)
  PROVE  /\ SetField(reg, p, width, bits) \in FieldRegister(width)
         /\ Field(SetField(reg, p, width, bits), p) = bits
<1> DEFINE new == SetField(reg, p, width, bits)
<1>1. new \in FieldRegister(width)
  BY DEF SetField, FieldRegister
<1>2. \A k \in 0 .. 3 : <<p, k>> \in new <=> k \in bits
  <2> SUFFICES ASSUME NEW k \in 0 .. 3 PROVE <<p, k>> \in new <=> k \in bits
    OBVIOUS
  <2>1. <<p, k>> \in reg => k \in 0 .. width - 1
    BY DEF FieldRegister
  <2> QED
    BY <2>1 DEF SetField
<1>3. bits \subseteq 0 .. 3
  OBVIOUS
<1> QED
  BY <1>1, <1>2, <1>3 DEF Field

\* The fields of the other pins stay as they are.
LEMMA SetFieldApart ==
  ASSUME NEW p \in Pin, NEW q \in Pin, p # q, NEW reg, NEW width \in Nat, NEW bits
  PROVE  Field(SetField(reg, p, width, bits), q) = Field(reg, q)
  BY DEF SetField, Field

\* What a configuration may hold.
LEMMA ConfigFields ==
  ASSUME NEW c \in PinConfig
  PROVE  c # NotConfigured /\ Config(c) /\ c.optype \subseteq {0}
<1>1. c \in [mode : Modes, speed : SUBSET (0 .. 1), pupd : SUBSET (0 .. 1),
             optype : SUBSET {0}, af : SUBSET (0 .. 3)]
  BY GpioAssumption
<1>2. c.mode \in Modes /\ c.mode # "none"
  BY <1>1 DEF Modes
<1> QED
  BY <1>1, <1>2 DEF NotConfigured, Config

\* GPIO_Init: the pin it is asked for gets its configuration.
LEMMA InitPinTakes ==
  ASSUME RegistersOK, NEW r \in Port, NEW p \in Pin, NEW c, Config(c), InitPin(r, p, c)
  PROVE  /\ RegistersOK' /\ ports_on' = ports_on \cup {r}
         /\ c.mode \notin Interrupting => Field(MODER'[r], p) = ModeBits(c.mode)
         /\ Field(PUPDR'[r], p) = c.pupd
         /\ c.optype \subseteq {0} => AsConfigured(r, p, c)'
<1> USE DEF RegistersOK
<1>1. /\ MODER' = IF c.mode \in Interrupting THEN MODER
                  ELSE [MODER EXCEPT ![r] = SetField(@, p, 2, ModeBits(c.mode))]
      /\ OSPEEDR' = [OSPEEDR EXCEPT ![r] = SetField(@, p, 2, c.speed)]
      /\ PUPDR' = [PUPDR EXCEPT ![r] = SetField(@, p, 2, c.pupd)]
      /\ AFR' = IF c.mode = "ALTFN" THEN [AFR EXCEPT ![r] = SetField(@, p, 4, c.af)] ELSE AFR
      /\ OTYPER' = [OTYPER EXCEPT ![r] = (@ \ {p}) \cup {p + k : k \in c.optype}]
      /\ ports_on' = ports_on \cup {r}
  BY DEF InitPin
<1>2. \A reg \in FieldRegister(2), bits \in SUBSET (0 .. 1) :
        /\ SetField(reg, p, 2, bits) \in FieldRegister(2)
        /\ Field(SetField(reg, p, 2, bits), p) = bits
  <2>1. 0 .. 2 - 1 = 0 .. 1 /\ 2 \in {2, 4}
    OBVIOUS
  <2> QED
    BY <2>1, SetFieldTakes
<1>3. \A reg \in FieldRegister(4), bits \in SUBSET (0 .. 3) :
        /\ SetField(reg, p, 4, bits) \in FieldRegister(4)
        /\ Field(SetField(reg, p, 4, bits), p) = bits
  <2>1. 0 .. 4 - 1 = 0 .. 3 /\ 4 \in {2, 4}
    OBVIOUS
  <2> QED
    BY <2>1, SetFieldTakes
<1>4. ModeBits(c.mode) \in SUBSET (0 .. 1)
  BY DEF Config, ModeBits, Modes
<1>5. /\ MODER' \in [Port -> FieldRegister(2)]
      /\ c.mode \notin Interrupting => Field(MODER'[r], p) = ModeBits(c.mode)
  BY <1>1, <1>2, <1>4
<1>6. /\ OSPEEDR' \in [Port -> FieldRegister(2)] /\ Field(OSPEEDR'[r], p) = c.speed
      /\ PUPDR' \in [Port -> FieldRegister(2)] /\ Field(PUPDR'[r], p) = c.pupd
  BY <1>1, <1>2 DEF Config
<1>7. /\ AFR' \in [Port -> FieldRegister(4)]
      /\ c.mode = "ALTFN" => Field(AFR'[r], p) = c.af
  BY <1>1, <1>3 DEF Config
<1>8. p \in Nat /\ \A k \in c.optype : p + k \in Nat
  BY GpioAssumption DEF Config
<1>9. OTYPER' \in [Port -> SUBSET Nat]
  BY <1>1, <1>8
<1>10. c.optype \subseteq {0} => (p \in OTYPER'[r] <=> 0 \in c.optype)
  <2>1. p + 0 = p
    BY <1>8
  <2> QED
    BY <1>1, <2>1
<1> QED
  BY <1>1, <1>5, <1>6, <1>7, <1>9, <1>10 DEF AsConfigured

\* GPIO_Init: the other pins keep theirs, but for the bits of an output type
\* that is too large.
LEMMA InitPinApart ==
  ASSUME RegistersOK, NEW r \in Port, NEW p \in Pin, NEW c, InitPin(r, p, c),
         NEW s \in Port, NEW q \in Pin, s # r \/ q # p,
         s = r => \A k \in c.optype : q # p + k
  PROVE  /\ Field(MODER'[s], q) = Field(MODER[s], q)
         /\ Field(PUPDR'[s], q) = Field(PUPDR[s], q)
         /\ \A d : AsConfigured(s, q, d) => AsConfigured(s, q, d)'
<1> USE DEF RegistersOK
<1>1. ASSUME q # p
      PROVE  \A reg, bits : /\ Field(SetField(reg, p, 2, bits), q) = Field(reg, q)
                            /\ Field(SetField(reg, p, 4, bits), q) = Field(reg, q)
  BY <1>1, SetFieldApart
<1>2. /\ Field(MODER'[s], q) = Field(MODER[s], q)
      /\ Field(AFR'[s], q) = Field(AFR[s], q)
  <2>1. /\ MODER' = IF c.mode \in Interrupting THEN MODER
                    ELSE [MODER EXCEPT ![r] = SetField(@, p, 2, ModeBits(c.mode))]
        /\ AFR' = IF c.mode = "ALTFN" THEN [AFR EXCEPT ![r] = SetField(@, p, 4, c.af)]
                  ELSE AFR
    BY DEF InitPin
  <2> QED
    BY <1>1, <2>1
<1>3. /\ Field(OSPEEDR'[s], q) = Field(OSPEEDR[s], q)
      /\ Field(PUPDR'[s], q) = Field(PUPDR[s], q)
  <2>1. /\ OSPEEDR' = [OSPEEDR EXCEPT ![r] = SetField(@, p, 2, c.speed)]
        /\ PUPDR' = [PUPDR EXCEPT ![r] = SetField(@, p, 2, c.pupd)]
    BY DEF InitPin
  <2> QED
    BY <1>1, <2>1
<1>4. q \in OTYPER'[s] <=> q \in OTYPER[s]
  BY DEF InitPin
<1> QED
  BY <1>2, <1>3, <1>4 DEF AsConfigured

\* A line has a field of its own in the selection registers.
LEMMA LineField ==
  ASSUME NEW p \in Pin
  PROVE  /\ p \in Nat /\ p \div 4 \in 0 .. 3 /\ p % 4 \in 0 .. 3
         /\ \A q \in Pin : q \div 4 = p \div 4 /\ q % 4 = p % 4 => q = p
<1>1. \A n \in 0 .. 15 : /\ n \div 4 \in 0 .. 3 /\ n % 4 \in 0 .. 3
                        /\ n = 4 * (n \div 4) + (n % 4)
  OBVIOUS
<1>2. Pin \subseteq 0 .. 15
  BY GpioAssumption
<1> QED
  BY <1>1, <1>2

LEMMA ConfigureLineTypes ==
  ASSUME LinesOK, NEW r \in Port, NEW p \in Pin, NEW mode \in Modes,
         ConfigureLine(r, p, mode)
  PROVE  LinesOK'
<1>1. asked_line' \in [Pin -> LineRequest \cup {NotConfigured}]
  BY DEF ConfigureLine, LinesOK, LineRequest
<1>2. last_line' \in [0 .. 3 -> SUBSET Pin]
  BY DEF ConfigureLine, LinesOK
<1>3. EXTICR' \in [0 .. 3 -> [0 .. 3 -> Nat]]
  <2>1. r \in Nat
    BY GpioAssumption
  <2>2. [f \in 0 .. 3 |-> IF f = p % 4 THEN r ELSE 0] \in [0 .. 3 -> Nat]
    BY <2>1
  <2> QED
    BY <2>2 DEF ConfigureLine, LinesOK
<1> QED
  BY <1>1, <1>2, <1>3 DEF LinesOK

\* The line that is configured is as it was asked for; the others are as they
\* were, but that those of its selection register go to port A.
LEMMA ConfigureLineKeeps ==
  ASSUME LinesOK, NEW r \in Port, NEW p \in Pin, NEW mode \in Modes,
         ConfigureLine(r, p, mode),
         NEW q \in Pin, asked_line[q] # NotConfigured => LineAsAsked(q, asked_line[q]),
         asked_line'[q] # NotConfigured
  PROVE  LineAsAsked(q, asked_line[q])'
<1>1. /\ p \div 4 \in 0 .. 3 /\ p % 4 \in 0 .. 3
      /\ q \div 4 \in 0 .. 3 /\ q % 4 \in 0 .. 3
      /\ q \div 4 = p \div 4 /\ q % 4 = p % 4 => q = p
  BY LineField
<1>2. /\ FTSR' = IF mode = "IT_RT" THEN FTSR \ {p} ELSE FTSR \cup {p}
      /\ RTSR' = IF mode = "IT_FT" THEN RTSR \ {p} ELSE RTSR \cup {p}
      /\ EXTICR' = [EXTICR EXCEPT ![p \div 4] = [f \in 0 .. 3 |-> IF f = p % 4 THEN r ELSE 0]]
      /\ IMR' = IMR \cup {p}
      /\ asked_line' = [asked_line EXCEPT ![p] = [port |-> r, mode |-> mode]]
      /\ last_line' = [last_line EXCEPT ![p \div 4] = {p}]
  BY DEF ConfigureLine
<1>3. CASE q = p
  <2>1. asked_line'[p] = [port |-> r, mode |-> mode]
    BY <1>2 DEF LinesOK
  <2>2. p \in last_line'[p \div 4] /\ EXTICR'[p \div 4][p % 4] = r
    BY <1>1, <1>2 DEF LinesOK
  <2> QED
    BY <1>2, <1>3, <2>1, <2>2 DEF LineAsAsked
<1>4. CASE q # p
  <2>1. asked_line'[q] = asked_line[q] /\ LineAsAsked(q, asked_line[q])
    BY <1>2, <1>4 DEF LinesOK
  <2>2. CASE q \div 4 = p \div 4
    <3>1. q \notin last_line'[q \div 4] /\ EXTICR'[q \div 4][q % 4] = 0
      BY <1>1, <1>2, <1>4, <2>2 DEF LinesOK
    <3> QED
      BY <1>2, <1>4, <2>1, <3>1 DEF LineAsAsked
  <2>3. CASE q \div 4 # p \div 4
    <3>1. /\ last_line'[q \div 4] = last_line[q \div 4]
          /\ EXTICR'[q \div 4][q % 4] = EXTICR[q \div 4][q % 4]
      BY <1>1, <1>2, <2>3 DEF LinesOK
    <3> QED
      BY <1>2, <1>4, <2>1, <3>1 DEF LineAsAsked
  <2> QED
    BY <2>2, <2>3
<1> QED
  BY <1>3, <1>4

\* A pin that is configured keeps what it was asked for until it is asked again.
LEMMA InitPinPreserves ==
  ASSUME PinsInv, NEW r \in Port, NEW p \in Pin, NEW c \in PinConfig, InitPin(r, p, c)
  PROVE  PinsInv'
<1> USE DEF PinsInv, GpioTypeOK
<1>1. Config(c) /\ c.optype \subseteq {0}
  BY ConfigFields
<1>2. configured' = [configured EXCEPT ![r][p] = c]
  BY DEF InitPin
<1>3. GpioTypeOK'
  <2>1. RegistersOK'
    BY <1>1, InitPinTakes
  <2>2. LinesOK'
    <3>1. CASE UNCHANGED <<extiregs, asked_line, last_line>>
      BY <3>1 DEF LinesOK, extiregs
    <3>2. CASE ConfigureLine(r, p, c.mode)
      BY <1>1, <3>2, ConfigureLineTypes DEF Config
    <3> QED
      BY <3>1, <3>2 DEF InitPin
  <2> QED
    BY <1>2, <2>1, <2>2
<1>5. ASSUME NEW q \in Pin, asked_line'[q] # NotConfigured
      PROVE  LineAsAsked(q, asked_line[q])'
  <2>1. CASE UNCHANGED <<extiregs, asked_line, last_line>>
    BY <1>5, <2>1 DEF PinsKeepConfig, LineAsAsked, extiregs
  <2>2. CASE ConfigureLine(r, p, c.mode)
    <3>1. asked_line[q] # NotConfigured => LineAsAsked(q, asked_line[q])
      BY DEF PinsKeepConfig
    <3> QED
      BY <1>1, <1>5, <2>2, <3>1, ConfigureLineKeeps DEF Config
  <2> QED
    BY <2>1, <2>2 DEF InitPin
<1>4. ASSUME NEW s \in Port, NEW q \in Pin, configured'[s][q] # NotConfigured
      PROVE  AsConfigured(s, q, configured[s][q])'
  <2>1. CASE s = r /\ q = p
    <3>1. configured'[s][q] = c
      BY <1>2, <2>1
    <3> QED
      BY <1>1, <2>1, <3>1, InitPinTakes
  <2>2. CASE s # r \/ q # p
    <3>1. /\ configured'[s][q] = configured[s][q]
          /\ AsConfigured(s, q, configured[s][q])
      BY <1>2, <1>4, <2>2 DEF PinsKeepConfig
    <3>2. s = r => \A k \in c.optype : q # p + k
      BY <1>1, <2>2, GpioAssumption
    <3> QED
      BY <2>2, <3>1, <3>2, InitPinApart
  <2> QED
    BY <2>1, <2>2
<1> QED
  BY <1>3, <1>4, <1>5 DEF PinsKeepConfig

\* A reset of a port forgets its configurations with its registers.
LEMMA DeInitPreserves ==
  ASSUME PinsInv, NEW r \in Port, DeInitPort(r)
  PROVE  PinsInv'
<1> USE DEF PinsInv, GpioTypeOK, RegistersOK
<1>1. GpioTypeOK'
  BY DEF DeInitPort, FieldRegister, extiregs, LinesOK
<1>3. ASSUME NEW q \in Pin, asked_line'[q] # NotConfigured
      PROVE  LineAsAsked(q, asked_line[q])'
  BY <1>3 DEF DeInitPort, extiregs, PinsKeepConfig, LineAsAsked
<1>2. ASSUME NEW s \in Port, NEW q \in Pin, configured'[s][q] # NotConfigured
      PROVE  AsConfigured(s, q, configured[s][q])'
  <2>1. s # r
    BY <1>2 DEF DeInitPort
  <2> QED
    BY <1>2, <2>1 DEF DeInitPort, PinsKeepConfig, AsConfigured
<1> QED
  BY <1>1, <1>2, <1>3 DEF PinsKeepConfig

\* Clocks, outputs and interrupts leave the configuration registers alone.
LEMMA OthersPreserve ==
  ASSUME PinsInv, UNCHANGED <<MODER, OSPEEDR, PUPDR, AFR, OTYPER, FTSR, RTSR, IMR,
                                      EXTICR, asked>>
  PROVE  PinsInv'
  BY DEF PinsInv, GpioTypeOK, RegistersOK, LinesOK, PinsKeepConfig, AsConfigured, LineAsAsked,
         asked

\* A pin keeps the mode, speed, pull, output type and alternate function it was
\* last given, and an interrupt line its edges and its mask, in every behaviour of
\* the driver and for all values that fit their fields.  A line keeps its port
\* until another line of its selection register is configured, and listens to
\* port A from then on.
THEOREM PinsKept == GpioSpec => []PinsKeepConfig
<1>1. GpioInit => PinsInv
  BY DEF GpioInit, PinsInv, GpioTypeOK, RegistersOK, LinesOK, FieldRegister,
         PinsKeepConfig
<1>2. PinsInv /\ [GpioNext]_gpiovars => PinsInv'
  <2> SUFFICES ASSUME PinsInv, [GpioNext]_gpiovars PROVE PinsInv'
    OBVIOUS
  <2>1. ASSUME NEW r \in Port, NEW p \in Pin, NEW c \in PinConfig, InitPin(r, p, c)
        PROVE  PinsInv'
    BY <2>1, InitPinPreserves
  <2>2. ASSUME NEW r \in Port, DeInitPort(r)
        PROVE  PinsInv'
    BY <2>2, DeInitPreserves
  <2>3. ASSUME NEW r \in Port, NEW enable \in BOOLEAN, ClockPort(r, enable)
        PROVE  PinsInv'
    BY <2>3, OthersPreserve DEF ClockPort, portregs, extiregs
  <2>4. ASSUME NEW r \in Port, NEW pins, WriteOutput(r, pins)
        PROVE  PinsInv'
    BY <2>4, OthersPreserve DEF WriteOutput, extiregs
  <2>5. ASSUME NEW r \in Port, NEW p \in Pin, NEW b \in BOOLEAN, Edge(r, p, b)
        PROVE  PinsInv'
    BY <2>5, OthersPreserve DEF Edge, portregs
  <2>6. ASSUME NEW p \in Pin, HandleLine(p)
        PROVE  PinsInv'
    BY <2>6, OthersPreserve DEF HandleLine, portregs
  <2>7. CASE UNCHANGED gpiovars
    BY <2>7, OthersPreserve DEF gpiovars, portregs, extiregs
  <2>8. CallPin \subseteq Pin
    BY GpioAssumption
  <2>9. ASSUME NEW r \in Port, NEW p \in CallPin,
               \/ \E c \in PinConfig : InitPin(r, p, c)
               \/ \E b \in BOOLEAN : WritePin(r, p, b) \/ Edge(r, p, b)
               \/ TogglePin(r, p) \/ HandleLine(p)
        PROVE  PinsInv'
    BY <2>1, <2>4, <2>5, <2>6, <2>8, <2>9 DEF WritePin, TogglePin
  <2> QED
    BY <2>2, <2>3, <2>4, <2>7, <2>9 DEF GpioNext, WritePort
<1>3. PinsInv => PinsKeepConfig
  BY DEF PinsInv
<1> QED
  BY <1>1, <1>2, <1>3, PTL DEF GpioSpec

-----------------------------------------------------------------------------
(* Start-up.                                                               *)
(*                                                                         *)
(* main() is a script, so its invariant is a table: from which place of    *)
(* the script on what is done.  Each part of the table is kept by every    *)
(* step, because the entries that disturb a register come before those     *)
(* that need it whole.  FaultOnlyInWindow needs the places of the kernel   *)
(* alone, ReadyWhenUsed all of them.                                       *)

\* The places of the script that set up pins: place, port, pin, configuration.
Pinout == {<<2, PortA, 2, Serial>>, <<3, PortA, 3, Serial>>,
           <<8, PortB, 8, TwoWire>>, <<9, PortB, 9, TwoWire>>,
           <<22, PortA, 5, SpiPin>>, <<23, PortA, 6, SpiPin>>, <<24, PortA, 7, SpiPin>>,
           <<25, PortB, 6, SpiSelect>>,
           <<36, PortA, 9, Serial>>, <<37, PortA, 10, Serial>>}

\* The places that set up a device, and that turn it on.
Inits == {<<4, "USART2">>, <<10, "I2C1">>, <<28, "SPI1">>, <<38, "USART1">>}
Enables == {<<5, "USART2">>, <<11, "I2C1">>, <<30, "SPI1">>, <<39, "USART1">>}

Prints == {6, 12, 19, 31, 32, 40, 44, 54}
PortClocks == {7, 20, 21, 33, 35}

PinEntry(r, p, c) == [op |-> "pin", port |-> r, pin |-> p, config |-> c]

\* What stands at place i of the script.
Stands(i, e) ==
  \/ i = 1 /\ e.op = "SysTick_Init"
  \/ e.op = "pin" /\ <<i, e.port, e.pin, e.config>> \in Pinout
  \/ e.op = "init" /\ <<i, e.dev>> \in Inits
  \/ e.op = "enable" /\ <<i, e.dev>> \in Enables
  \/ e.op = "print" /\ i \in Prints
  \/ e.op = "port_clock" /\ i \in PortClocks /\ e.port \in {PortA, PortB}
  \/ i = 13 /\ e.op = "read_id"
  \/ i = 14 /\ e.op = "reset_sensor"
  \/ i = 15 /\ e.op = "delay"
  \/ i = 16 /\ e.op = "read_calibration"
  \/ i = 17 /\ e.op = "configure"
  \/ i = 18 /\ e.op = "measure"
  \/ i = 26 /\ e.op = "deselect"
  \/ i = 27 /\ e.op = "clock" /\ e.dev = "SPI1"
  \/ i = 29 /\ e.op = "SSI"
  \/ i = 34 /\ e.op = "button"
  \/ i = 41 /\ e.op = "start_watchdog"
  \/ i = 42 /\ e.op = "set_watchdog"
  \/ i = 43 /\ e.op = "watchdog_set"
  \/ i = 45 /\ e.op = "Kernel_Init"
  \/ i \in 46 .. 53 /\ e.op = "create"
  \/ i = 55 /\ e.op = "started"
  \/ i = 56 /\ e.op = "first_task"
  \/ i = 57 /\ e.op = "set_PSP"
  \/ i = 58 /\ e.op = "enter"

\* The script, written out.
LEMMA Script ==
  ASSUME NEW i \in 1 .. 58
  PROVE  Stands(i, Main[i])
<1>. USE DEF Main, Do, On, Clock, Pins, Text, USART2_Set_Up, I2C1_Set_Up, BMP280_Init,
     Telemetry_SPI_Init, GSM_Button_Init, GSM_UART_Init, IWDG_Init, Kernel_Init_Tasks,
     Kernel_Start, PinEntry
<1>1. /\ Main[1] = [op |-> "SysTick_Init"] /\ Main[2] = PinEntry(PortA, 2, Serial)
      /\ Main[3] = PinEntry(PortA, 3, Serial) /\ Main[4] = [op |-> "init", dev |-> "USART2"]
      /\ Main[5] = [op |-> "enable", dev |-> "USART2"]
      /\ Main[6] = [op |-> "print", dev |-> "USART2"]
  BY SMTT(20)
<1>2. /\ Main[7] = [op |-> "port_clock", port |-> PortB]
      /\ Main[8] = PinEntry(PortB, 8, TwoWire) /\ Main[9] = PinEntry(PortB, 9, TwoWire)
      /\ Main[10] = [op |-> "init", dev |-> "I2C1"]
      /\ Main[11] = [op |-> "enable", dev |-> "I2C1"]
      /\ Main[12] = [op |-> "print", dev |-> "USART2"]
  BY SMTT(20)
<1>3. /\ Main[13] = [op |-> "read_id"] /\ Main[14] = [op |-> "reset_sensor"]
      /\ Main[15] = [op |-> "delay"] /\ Main[16] = [op |-> "read_calibration"]
      /\ Main[17] = [op |-> "configure"] /\ Main[18] = [op |-> "measure"]
  BY SMTT(20)
<1>4. /\ Main[19] = [op |-> "print", dev |-> "USART2"]
      /\ Main[20] = [op |-> "port_clock", port |-> PortA]
      /\ Main[21] = [op |-> "port_clock", port |-> PortB]
      /\ Main[22] = PinEntry(PortA, 5, SpiPin) /\ Main[23] = PinEntry(PortA, 6, SpiPin)
      /\ Main[24] = PinEntry(PortA, 7, SpiPin)
  BY SMTT(20)
<1>5. /\ Main[25] = PinEntry(PortB, 6, SpiSelect) /\ Main[26] = [op |-> "deselect"]
      /\ Main[27] = [op |-> "clock", dev |-> "SPI1"]
      /\ Main[28] = [op |-> "init", dev |-> "SPI1"] /\ Main[29] = [op |-> "SSI"]
      /\ Main[30] = [op |-> "enable", dev |-> "SPI1"]
  BY SMTT(20)
<1>6. /\ Main[31] = [op |-> "print", dev |-> "USART2"]
      /\ Main[32] = [op |-> "print", dev |-> "USART2"]
      /\ Main[33] = [op |-> "port_clock", port |-> PortA] /\ Main[34] = [op |-> "button"]
      /\ Main[35] = [op |-> "port_clock", port |-> PortA]
      /\ Main[36] = PinEntry(PortA, 9, Serial)
  BY SMTT(20)
<1>7. /\ Main[37] = PinEntry(PortA, 10, Serial) /\ Main[38] = [op |-> "init", dev |-> "USART1"]
      /\ Main[39] = [op |-> "enable", dev |-> "USART1"]
      /\ Main[40] = [op |-> "print", dev |-> "USART2"] /\ Main[41] = [op |-> "start_watchdog"]
      /\ Main[42] = [op |-> "set_watchdog"]
  BY SMTT(20)
<1>8. /\ Main[43] = [op |-> "watchdog_set"] /\ Main[44] = [op |-> "print", dev |-> "USART2"]
      /\ Main[45] = [op |-> "Kernel_Init"] /\ Main[46] = [op |-> "create"]
      /\ Main[47] = [op |-> "create"] /\ Main[48] = [op |-> "create"]
  BY SMTT(20)
<1>9. /\ Main[49] = [op |-> "create"] /\ Main[50] = [op |-> "create"]
      /\ Main[51] = [op |-> "create"] /\ Main[52] = [op |-> "create"]
      /\ Main[53] = [op |-> "create"] /\ Main[54] = [op |-> "print", dev |-> "USART2"]
  BY SMTT(20)
<1>10. /\ Main[55] = [op |-> "started"] /\ Main[56] = [op |-> "first_task"]
       /\ Main[57] = [op |-> "set_PSP"] /\ Main[58] = [op |-> "enter"]
  BY SMTT(20)
<1>. HIDE DEF Main
<1>. USE DEF Stands, Pinout, Inits, Enables, Prints, PortClocks
<1>11. CASE i \in {1, 2, 3, 4, 5, 6}
  BY <1>1, <1>11
<1>12. CASE i \in {7, 8, 9, 10, 11, 12}
  BY <1>2, <1>12
<1>13. CASE i \in {13, 14, 15, 16, 17, 18}
  BY <1>3, <1>13
<1>14. CASE i \in {19, 20, 21, 22, 23, 24}
  BY <1>4, <1>14
<1>15. CASE i \in {25, 26, 27, 28, 29, 30}
  BY <1>5, <1>15
<1>16. CASE i \in {31, 32, 33, 34, 35, 36}
  BY <1>6, <1>16
<1>17. CASE i \in {37, 38, 39, 40, 41, 42}
  BY <1>7, <1>17
<1>18. CASE i \in {43, 44, 45, 46, 47, 48}
  BY <1>8, <1>18
<1>19. CASE i \in {49, 50, 51, 52, 53, 54}
  BY <1>9, <1>19
<1>20. CASE i \in {55, 56, 57, 58}
  BY <1>10, <1>20
<1>. HIDE DEF Stands
<1>. QED  BY <1>11, <1>12, <1>13, <1>14, <1>15, <1>16, <1>17, <1>18, <1>19, <1>20, SMTT(20)

\* Where main is when it performs an operation.
LEMMA PlaceOf ==
  ASSUME step \in 1 .. 58, NEW op, Performs(op)
  PROVE  Stands(step, Entry) /\ Entry.op = op /\ ended = "no"
  BY Script DEF Performs, Entry

-----------------------------------------------------------------------------
(* The kernel's part of the table.                                         *)

\* kernel_started, has_tcb and PSP are set in this order by the entries
\* 55, 56 and 57, and the eight tasks are created before; a tick that faults
\* finds the first of the three set and not the last.
PlaceInv == /\ step \in 1 .. 58
            /\ ended \in {"no", "halted", "returned", "faulted", "tasks"}
            /\ IF step > 55 THEN kernel_started = TRUE ELSE kernel_started = FALSE
            /\ IF step > 56 THEN has_tcb = TRUE ELSE has_tcb = FALSE
            /\ IF step > 57 THEN psp = TRUE ELSE psp = FALSE
            /\ step >= 46 => task_count = IF step <= 54 THEN step - 46 ELSE 8
            /\ ended = "tasks" => step = 58
            /\ ended = "faulted" => step \in {56, 57}

\* An entry that is not about the kernel.
LEMMA GoesOnKeeps ==
  ASSUME PlaceInv, step' = step + 1, ended' = "no", UNCHANGED kernelvars,
         step \notin 45 .. 53 \cup 55 .. 58
  PROVE  PlaceInv'
<1>1. /\ step' \in 1 .. 58
      /\ step' > 55 <=> step > 55
      /\ step' > 56 <=> step > 56
      /\ step' > 57 <=> step > 57
  BY DEF PlaceInv
<1>2. step' >= 46 => task_count' = IF step' <= 54 THEN step' - 46 ELSE 8
  BY DEF PlaceInv, kernelvars
<1>. QED  BY <1>1, <1>2 DEF PlaceInv, kernelvars

\* The entries of the kernel, one by one.
LEMMA KernelKeeps ==
  ASSUME PlaceInv, PrepareKernel
  PROVE  PlaceInv'
<1>1. step' = step + 1 /\ ended' = "no" /\ step \in 1 .. 58
  BY DEF PrepareKernel, Goes_On, Performs, PlaceInv
<1>. USE DEF Stands, Pinout, Inits, Enables, Prints, PortClocks, PlaceInv
<1>2. CASE Performs("Kernel_Init") /\ kernel_started' = FALSE /\ task_count' = 0
           /\ has_tcb' = FALSE /\ UNCHANGED psp
  <2>1. step = 45
    BY <1>2, PlaceOf
  <2>. QED  BY <1>1, <1>2, <2>1
<1>3. CASE Performs("create") /\ task_count' = task_count + 1
           /\ UNCHANGED <<kernel_started, has_tcb, psp>>
  <2>1. step \in 46 .. 53
    BY <1>3, PlaceOf
  <2>2. task_count' = IF step' <= 54 THEN step' - 46 ELSE 8
    BY <1>1, <1>3, <2>1
  <2>3. step' \in 47 .. 54
    BY <1>1, <2>1
  <2>. QED  BY <1>1, <1>3, <2>1, <2>2, <2>3
<1>4. CASE Performs("started") /\ kernel_started' = TRUE
           /\ UNCHANGED <<task_count, has_tcb, psp>>
  <2>1. step = 55
    BY <1>4, PlaceOf
  <2>. QED  BY <1>1, <1>4, <2>1
<1>5. CASE Performs("first_task") /\ has_tcb' = TRUE
           /\ UNCHANGED <<kernel_started, task_count, psp>>
  <2>1. step = 56
    BY <1>5, PlaceOf
  <2>. QED  BY <1>1, <1>5, <2>1
<1>6. CASE Performs("set_PSP") /\ psp' = TRUE
           /\ UNCHANGED <<kernel_started, task_count, has_tcb>>
  <2>1. step = 57
    BY <1>6, PlaceOf
  <2>. QED  BY <1>1, <1>6, <2>1
<1>. QED  BY <1>2, <1>3, <1>4, <1>5, <1>6 DEF PrepareKernel

\* A tick can only fault when the kernel has started and PSP is not set.
LEMMA TickKeeps ==
  ASSUME PlaceInv, StartTick
  PROVE  PlaceInv'
<1>1. ended = "no" /\ UNCHANGED <<step, kernel_started, task_count, has_tcb, psp>>
  BY DEF StartTick, kernelvars
<1>2. ended' \in {"no", "faulted"}
      /\ (ended' = "faulted" => kernel_started /\ ~(has_tcb /\ psp))
  BY DEF StartTick, SwitchOnTick
<1>. QED  BY <1>1, <1>2 DEF PlaceInv

\* Every step keeps the table of the kernel.
LEMMA PlaceStep ==
  ASSUME PlaceInv, [StartNext]_<<startvars, gpiovars>>
  PROVE  PlaceInv'
<1>0. step \in 1 .. 58
  BY DEF PlaceInv
<1>1. ASSUME NEW op, Performs(op), Goes_On, UNCHANGED kernelvars,
             op \notin {"Kernel_Init", "create", "started", "first_task", "set_PSP", "enter"}
      PROVE  PlaceInv'
  <2>1. step \notin 45 .. 53 \cup 55 .. 58
    BY <1>0, <1>1, PlaceOf DEF Stands, Pinout, Inits, Enables, Prints, PortClocks
  <2>2. step' = step + 1 /\ ended' = "no"
    BY <1>1 DEF Goes_On, Performs
  <2>. QED  BY <1>1, <2>1, <2>2, GoesOnKeeps
<1>2. CASE SysTick_Init \/ SetPin \/ SetPortClock \/ SetButton \/ RaiseSelect
  BY <1>1, <1>2 DEF SysTick_Init, SetPin, SetPortClock, SetButton, RaiseSelect, PinsOnly, others
<1>3. CASE InitDevice \/ ClockDevice \/ SetControl \/ PrintText
  BY <1>1, <1>3 DEF InitDevice, ClockDevice, SetControl, PrintText, DevicesOnly, others
<1>4. CASE ReadId
  <2>1. UNCHANGED kernelvars /\ Performs("read_id")
        /\ (Goes_On \/ (ended' = "halted" /\ UNCHANGED step))
    BY <1>4 DEF ReadId, DevicesOnly, others
  <2>2. CASE ended' = "halted" /\ UNCHANGED step
    BY <2>1, <2>2 DEF PlaceInv, kernelvars
  <2>. QED  BY <1>1, <2>1, <2>2
<1>5. CASE ResetSensor \/ Delay \/ ReadCalibration \/ Configure \/ SetWatchdog
  BY <1>1, <1>5 DEF ResetSensor, Delay, ReadCalibration, Configure, SetWatchdog, DevicesOnly,
     others
<1>6. CASE LeaveMain
  <2>1. UNCHANGED <<step, kernel_started, task_count, has_tcb, psp>>
        /\ (ended' = "returned" \/ (ended' = "tasks" /\ Performs("enter")))
    BY <1>6 DEF LeaveMain, others, kernelvars
  <2>2. Performs("enter") => step = 58
    BY <1>0, PlaceOf DEF Stands, Pinout, Inits, Enables, Prints, PortClocks
  <2>. QED  BY <2>1, <2>2 DEF PlaceInv
<1>7. CASE SensorUp \/ WatchdogUpdated \/ UNCHANGED <<startvars, gpiovars>>
  BY <1>7 DEF SensorUp, WatchdogUpdated, startvars, kernelvars, PlaceInv
<1>. QED
  BY <1>2, <1>3, <1>4, <1>5, <1>6, <1>7, KernelKeeps, TickKeeps DEF StartNext, MainStep

\* A tick of the kernel before the first task has its stack can only come
\* between the store to kernel_started and the one to PSP (Kernel_Start,
\* Task_StartFirst), whatever main did before and whenever SysTick interrupts it.
THEOREM FaultsOnlyInWindow == StartSpec => []FaultOnlyInWindow
<1>1. ASSUME StartInit
      PROVE  PlaceInv
  <2>1. /\ step = 1 /\ ended = "no"
        /\ kernel_started = FALSE /\ has_tcb = FALSE /\ psp = FALSE
    BY <1>1 DEF StartInit
  <2>. QED  BY <2>1 DEF PlaceInv
<1>2. PlaceInv /\ [StartNext]_<<startvars, gpiovars>> => PlaceInv'
  BY PlaceStep
<1>3. ASSUME PlaceInv
      PROVE  FaultOnlyInWindow
  <2>1. Stands(step, Entry) /\ (ended = "faulted" => step \in {56, 57})
    BY <1>3, Script DEF PlaceInv, Entry
  <2>. QED
    BY <2>1 DEF FaultOnlyInWindow, Stands, Pinout, Inits, Enables, Prints, PortClocks
<1>. QED  BY <1>1, <1>2, <1>3, PTL DEF StartSpec

-----------------------------------------------------------------------------
(* The pins' part of the table.                                            *)

\* Pins keep what they were given; the field of the button, which shares its
\* registers with pins that are set later, is as BoardConfig.h has it, and the
\* output that deselects the ESP32 is high.
PinTable ==
  /\ RegistersOK /\ ODR \in [Port -> SUBSET Nat]
  /\ \A b \in Pinout : step > b[1] => b[2] \in ports_on /\ AsConfigured(b[2], b[3], b[4])
  /\ step > 34 => Field(MODER[PortA], 8) = {} /\ Field(PUPDR[PortA], 8) = {0}
  /\ step > 26 => 6 \in ODR[PortB]

\* What the pins of the script are given.
LEMMA PinoutConfigs ==
  ASSUME NEW b \in Pinout
  PROVE  /\ b[1] \in {2, 3, 8, 9, 22, 23, 24, 25, 36, 37}
         /\ b[2] \in Port /\ b[3] \in Pin /\ Config(b[4])
         /\ b[4].optype \subseteq {0} /\ b[4].mode \notin Interrupting
         /\ b[2] = PortA => b[3] # 8
<1>1. \A c \in {Serial, TwoWire, SpiPin, SpiSelect} :
        Config(c) /\ c.optype \subseteq {0} /\ c.mode \notin Interrupting
  <2>. USE DEF Serial, Config, Modes, Interrupting
  <2>1. Config(Serial) /\ Serial.optype \subseteq {0} /\ Serial.mode \notin Interrupting
    OBVIOUS
  <2>2. Config(TwoWire) /\ TwoWire.optype \subseteq {0} /\ TwoWire.mode \notin Interrupting
    BY DEF TwoWire
  <2>3. Config(SpiPin) /\ SpiPin.optype \subseteq {0} /\ SpiPin.mode \notin Interrupting
    BY DEF SpiPin
  <2>4. Config(SpiSelect) /\ SpiSelect.optype \subseteq {0}
        /\ SpiSelect.mode \notin Interrupting
    BY DEF SpiSelect, SpiPin
  <2>. QED  BY <2>1, <2>2, <2>3, <2>4
<1>2. b[4] \in {Serial, TwoWire, SpiPin, SpiSelect} /\ b[2] \in {PortA, PortB}
  BY DEF Pinout
<1>3. b[3] \in {2, 3, 5, 6, 7, 8, 9, 10} /\ (b[2] = PortA => b[3] # 8)
      /\ b[1] \in {2, 3, 8, 9, 22, 23, 24, 25, 36, 37}
  BY DEF Pinout, PortA, PortB
<1>. QED  BY <1>1, <1>2, <1>3, BoardAssumption

\* No pin is set up twice, and no place sets up two pins.
LEMMA PinoutApart ==
  ASSUME NEW b \in Pinout, NEW d \in Pinout, b # d
  PROVE  b[1] # d[1] /\ (b[2] # d[2] \/ b[3] # d[3])
  BY DEF Pinout, PortA, PortB

\* Steps that leave the configuration registers alone.
LEMMA PinsUntouched ==
  ASSUME PlaceInv, PinTable, step' \in {step, step + 1},
         UNCHANGED <<MODER, OSPEEDR, PUPDR, AFR, OTYPER>>, ports_on \subseteq ports_on',
         ODR' \in [Port -> SUBSET Nat],
         step' = step \/ step \notin {2, 3, 8, 9, 22, 23, 24, 25, 34, 36, 37},
         step' > 26 => 6 \in ODR'[PortB]
  PROVE  PinTable'
<1>1. step \in Nat
  BY DEF PlaceInv
<1>2. RegistersOK'
  BY DEF PinTable, RegistersOK
<1>3. ASSUME NEW b \in Pinout, step' > b[1]
      PROVE  b[2] \in ports_on' /\ AsConfigured(b[2], b[3], b[4])'
  <2>1. b[1] \in Nat /\ (step' = step \/ step # b[1])
    BY PinoutConfigs
  <2>2. step > b[1]
    BY <1>1, <1>3, <2>1
  <2>. QED  BY <1>3, <2>2 DEF PinTable, AsConfigured
<1>4. step' > 34 => Field(MODER'[PortA], 8) = {} /\ Field(PUPDR'[PortA], 8) = {0}
  <2>1. step' > 34 => step > 34
    BY <1>1
  <2>. QED  BY <2>1 DEF PinTable
<1>. QED  BY <1>2, <1>3, <1>4 DEF PinTable

\* A pin of the script is set up.
LEMMA PinsSet ==
  ASSUME PlaceInv, PinTable, SetPin
  PROVE  PinTable'
<1>1. PICK b \in Pinout : InitPin(b[2], b[3], b[4]) /\ b[1] = step
  <2>1. <<step, Entry.port, Entry.pin, Entry.config>> \in Pinout
    BY PlaceOf DEF PlaceInv, SetPin, Stands
  <2>. QED  BY <2>1 DEF SetPin
<1>. DEFINE r == b[2]
            p == b[3]
            c == b[4]
<1>2. /\ step \in {2, 3, 8, 9, 22, 23, 24, 25, 36, 37} /\ step' = step + 1
      /\ r \in Port /\ p \in Pin /\ Config(c)
      /\ c.optype \subseteq {0} /\ c.mode \notin Interrupting
      /\ r = PortA => p # 8
  BY <1>1, PinoutConfigs DEF SetPin, Goes_On
<1>3. \A d \in Pinout : d = b \/ (d[1] # step /\ (d[2] # r \/ d[3] # p))
  BY <1>1, PinoutApart
<1>4. RegistersOK' /\ ports_on' = ports_on \cup {r} /\ AsConfigured(r, p, c)'
  BY <1>1, <1>2, InitPinTakes DEF PinTable
<1>5. \A k \in c.optype : k = 0
  BY <1>2
<1>6. p \in Nat
  <2>1. p \in Pin
    BY <1>2
  <2>. QED  BY <2>1, LineField
<1>7. ASSUME NEW d \in Pinout, step' > d[1]
      PROVE  d[2] \in ports_on' /\ AsConfigured(d[2], d[3], d[4])'
  <2>1. CASE d = b
    BY <1>4, <2>1
  <2>2. CASE d # b
    <3>1. d[1] # step /\ (d[2] # r \/ d[3] # p) /\ d[1] \in Nat
      BY <1>3, <2>2, PinoutConfigs
    <3>2. step > d[1]
      BY <1>2, <1>7, <3>1
    <3>3. d[2] \in ports_on /\ AsConfigured(d[2], d[3], d[4])
      BY <3>2 DEF PinTable
    <3>4. d[2] = r => \A k \in c.optype : d[3] # p + k
      BY <1>5, <1>6, <3>1
    <3>5. d[2] \in Port /\ d[3] \in Pin
      BY PinoutConfigs
    <3>6. AsConfigured(d[2], d[3], d[4])'
      BY <1>1, <1>2, <3>1, <3>3, <3>4, <3>5, InitPinApart DEF PinTable
    <3>. QED  BY <1>4, <3>3, <3>6
  <2>. QED  BY <2>1, <2>2
<1>8. ASSUME step' > 34
      PROVE  Field(MODER'[PortA], 8) = {} /\ Field(PUPDR'[PortA], 8) = {0}
  <2>1. step > 34
    BY <1>2, <1>8
  <2>2. PortA \in Port /\ 8 \in Pin
    BY BoardAssumption
  <2>3. PortA # r \/ 8 # p
    BY <1>2
  <2>4. PortA = r => \A k \in c.optype : 8 # p + k
    BY <1>5, <1>6, <2>3
  <2>5. /\ Field(MODER'[PortA], 8) = Field(MODER[PortA], 8)
        /\ Field(PUPDR'[PortA], 8) = Field(PUPDR[PortA], 8)
    BY <1>1, <1>2, <2>2, <2>3, <2>4, InitPinApart DEF PinTable
  <2>. QED  BY <2>1, <2>5 DEF PinTable
<1>9. ODR' = ODR
  BY <1>1 DEF InitPin
<1>10. step' > 26 => step > 26
  BY <1>2
<1>. QED  BY <1>4, <1>7, <1>8, <1>9, <1>10 DEF PinTable

\* The button: the stray bits of its output type reach no pin below it, and the
\* pins above it are set up later.
LEMMA ButtonSet ==
  ASSUME PlaceInv, PinTable, SetButton
  PROVE  PinTable'
<1>1. step \in 1 .. 58 /\ Performs("button") /\ step' = step + 1
  BY DEF PlaceInv, SetButton, Goes_On
<1>2. step = 34
  BY <1>1, PlaceOf DEF Stands, Pinout, Inits, Enables, Prints, PortClocks
<1>3. PICK stray \in SUBSET StrayBits : InitPin(PortA, 8, [Button EXCEPT !.optype = stray])
  BY DEF SetButton
<1>. DEFINE c == [Button EXCEPT !.optype = stray]
<1>4. /\ Config(c) /\ c.mode \notin Interrupting /\ ModeBits(c.mode) = {}
      /\ c.pupd = {0} /\ c.optype \subseteq 0 .. 7
  BY StartAssumption DEF Button, Serial, Config, Modes, Interrupting, ModeBits
<1>5. PortA \in Port /\ 8 \in Pin
  BY BoardAssumption
<1>6. InitPin(PortA, 8, c)
  BY <1>3
<1>. HIDE DEF c
<1>7. /\ RegistersOK' /\ ports_on' = ports_on \cup {PortA}
      /\ Field(MODER'[PortA], 8) = {} /\ Field(PUPDR'[PortA], 8) = {0}
  BY <1>4, <1>5, <1>6, InitPinTakes DEF PinTable
<1>8. ASSUME NEW d \in Pinout, step' > d[1]
      PROVE  d[2] \in ports_on' /\ AsConfigured(d[2], d[3], d[4])'
  <2>1. d[1] \in {2, 3, 8, 9, 22, 23, 24, 25}
    BY <1>1, <1>2, <1>8, PinoutConfigs
  <2>2. d[2] = PortA => d[3] \in {2, 3, 5, 6, 7}
    BY <2>1 DEF Pinout, PortA, PortB
  <2>3. d[2] \in ports_on /\ AsConfigured(d[2], d[3], d[4])
    BY <1>2, <2>1 DEF PinTable
  <2>4. d[2] # PortA \/ d[3] # 8
    BY <2>2
  <2>5. d[2] = PortA => \A k \in c.optype : d[3] # 8 + k
    BY <1>4, <2>2
  <2>6. d[2] \in Port /\ d[3] \in Pin
    BY PinoutConfigs
  <2>7. AsConfigured(d[2], d[3], d[4])'
    BY <1>5, <1>6, <2>3, <2>4, <2>5, <2>6, InitPinApart DEF PinTable
  <2>. QED  BY <1>7, <2>3, <2>7
<1>9. ODR' = ODR
  BY <1>6 DEF InitPin
<1>. QED  BY <1>2, <1>7, <1>8, <1>9 DEF PinTable

\* The chip select is raised.
LEMMA SelectRaised ==
  ASSUME PlaceInv, PinTable, RaiseSelect
  PROVE  PinTable'
<1>1. step \in 1 .. 58 /\ Performs("deselect") /\ step' = step + 1
      /\ WritePin(PortB, 6, TRUE)
  BY DEF PlaceInv, RaiseSelect, Goes_On
<1>2. step = 26
  BY <1>1, PlaceOf DEF Stands, Pinout, Inits, Enables, Prints, PortClocks
<1>3. PortB \in ports_on /\ PortB \in Port
  <2>1. <<8, PortB, 8, TwoWire>> \in Pinout
    BY DEF Pinout
  <2>. QED  BY <1>2, <2>1, BoardAssumption DEF PinTable
<1>4. /\ UNCHANGED <<ports_on, MODER, OSPEEDR, PUPDR, AFR, OTYPER>>
      /\ ODR' = [ODR EXCEPT ![PortB] = ODR[PortB] \cup {6}]
  BY <1>1, <1>3 DEF WritePin, WriteOutput
<1>5. ODR' \in [Port -> SUBSET Nat] /\ 6 \in ODR'[PortB]
  BY <1>3, <1>4 DEF PinTable
<1>. QED  BY <1>1, <1>2, <1>4, <1>5, PinsUntouched

\* Every step keeps the table of the pins.
LEMMA PinStep ==
  ASSUME PlaceInv, PinTable, [StartNext]_<<startvars, gpiovars>>
  PROVE  PinTable'
<1>0. step \in 1 .. 58
  BY DEF PlaceInv
<1>1. ASSUME UNCHANGED gpiovars, step' = step
      PROVE  PinTable'
  BY <1>0, <1>1, PinsUntouched DEF PinTable, gpiovars, portregs
<1>2. ASSUME NEW op, Performs(op), Goes_On, op \notin {"pin", "button", "deselect"},
             UNCHANGED <<portregs>>, ports_on \subseteq ports_on'
      PROVE  PinTable'
  <2>1. step \notin {2, 3, 8, 9, 22, 23, 24, 25, 26, 34, 36, 37} /\ step' = step + 1
    BY <1>0, <1>2, PlaceOf DEF Goes_On, Stands, Pinout, Inits, Enables, Prints, PortClocks
  <2>2. step' > 26 => 6 \in ODR'[PortB]
    BY <1>0, <1>2, <2>1 DEF PinTable, portregs
  <2>. QED  BY <1>2, <2>1, <2>2, PinsUntouched DEF PinTable, portregs
<1>3. CASE SetPortClock
  BY <1>2, <1>3 DEF SetPortClock, ClockPort, portregs
<1>4. CASE SysTick_Init \/ InitDevice \/ ClockDevice \/ SetControl \/ PrintText
  BY <1>2, <1>4 DEF SysTick_Init, InitDevice, ClockDevice, SetControl, PrintText, DevicesOnly,
     gpiovars
<1>5. CASE ReadId
  <2>1. UNCHANGED gpiovars /\ Performs("read_id") /\ (Goes_On \/ UNCHANGED step)
    BY <1>5 DEF ReadId, DevicesOnly
  <2>. QED  BY <1>1, <1>2, <2>1 DEF gpiovars
<1>6. CASE ResetSensor \/ Delay \/ ReadCalibration \/ Configure \/ SetWatchdog
  BY <1>2, <1>6 DEF ResetSensor, Delay, ReadCalibration, Configure, SetWatchdog, DevicesOnly,
     gpiovars
<1>7. CASE PrepareKernel
  BY <1>2, <1>7 DEF PrepareKernel, gpiovars
<1>8. CASE LeaveMain \/ StartTick \/ SensorUp \/ WatchdogUpdated
           \/ UNCHANGED <<startvars, gpiovars>>
  BY <1>1, <1>8 DEF LeaveMain, StartTick, SensorUp, WatchdogUpdated, startvars
<1>. QED
  BY <1>3, <1>4, <1>5, <1>6, <1>7, <1>8, PinsSet, ButtonSet, SelectRaised DEF StartNext, MainStep

-----------------------------------------------------------------------------
(* The devices' part of the table.                                         *)

ControlBits == {"RE", "TE", "UE", "ACK", "PE", "MSTR", "SSM", "SSI", "SPE"}

\* A device has its clock and its first bits from its initialisation on, and is
\* on from its enabling on; SPI1 gets SSI in between, I2C1 ACK with read_id.
DeviceTable ==
  /\ control \in [Device -> SUBSET ControlBits]
  /\ step > 4 => "USART2" \in clocked /\ {"RE", "TE"} \subseteq control["USART2"]
  /\ step > 5 => "UE" \in control["USART2"]
  /\ step > 10 => "I2C1" \in clocked
  /\ step > 11 => "PE" \in control["I2C1"]
  /\ step > 13 => "ACK" \in control["I2C1"]
  /\ step > 27 => "SPI1" \in clocked
  /\ step > 28 => {"MSTR", "SSM"} \subseteq control["SPI1"]
  /\ step > 29 => "SSI" \in control["SPI1"]
  /\ step > 30 => "SPE" \in control["SPI1"]
  /\ step > 38 => "USART1" \in clocked /\ {"RE", "TE"} \subseteq control["USART1"]
  /\ step > 39 => "UE" \in control["USART1"]

\* What a control register holds: all that is written, unless it is the ACK of
\* an I2C that is off or the SPE of a master without SSI.
LEMMA HeldBits ==
  ASSUME NEW d \in Device, NEW bits \in SUBSET ControlBits
  PROVE  /\ Held(d, bits) \in SUBSET ControlBits
         /\ (\/ d \in {"USART1", "USART2"}
             \/ d = "I2C1" /\ "PE" \in bits
             \/ d = "SPI1" /\ ("SSI" \in bits \/ "SPE" \notin bits))
            => Held(d, bits) = bits
  BY DEF Held, Device

\* A write to the control register of a device that has its clock.
LEMMA Written ==
  ASSUME control \in [Device -> SUBSET ControlBits], NEW d \in Device, d \in clocked',
         NEW bits \in SUBSET ControlBits, WriteControl(d, bits)
  PROVE  /\ control' \in [Device -> SUBSET ControlBits]
         /\ control'[d] = Held(d, bits)
         /\ \A e \in Device \ {d} : control'[e] = control[e]
<1>1. control' = [control EXCEPT ![d] = Held(d, bits)]
  BY DEF WriteControl
<1>2. Held(d, bits) \in SUBSET ControlBits
  BY HeldBits
<1>. QED  BY <1>1, <1>2

\* Steps that leave the devices alone.
LEMMA DevicesUntouched ==
  ASSUME PlaceInv, DeviceTable, UNCHANGED devices, step' \in {step, step + 1},
         step' = step \/ step \notin {4, 5, 10, 11, 13, 27, 28, 29, 30, 38, 39}
  PROVE  DeviceTable'
<1>1. \A k \in {4, 5, 10, 11, 13, 27, 28, 29, 30, 38, 39} : step' > k => step > k
  BY DEF PlaceInv
<1>. QED  BY <1>1 DEF DeviceTable, devices

\* USART_Init, I2C_Init, SPI_Init.
LEMMA DeviceInitialised ==
  ASSUME PlaceInv, DeviceTable, InitDevice
  PROVE  DeviceTable'
<1>1. PICK b \in Inits : b[1] = step /\ b[2] = Entry.dev
  <2>1. <<step, Entry.dev>> \in Inits
    BY PlaceOf DEF PlaceInv, InitDevice, Stands
  <2>. QED  BY <2>1
<1>. DEFINE d == b[2]
<1>2. /\ step' = step + 1 /\ clocked' = clocked \cup {d}
      /\ WriteControl(d, InitialBits(d))
  BY <1>1 DEF InitDevice, Goes_On
<1>3. \/ step = 4 /\ d = "USART2"
      \/ step = 10 /\ d = "I2C1"
      \/ step = 28 /\ d = "SPI1"
      \/ step = 38 /\ d = "USART1"
  BY <1>1 DEF Inits
<1>4. d \in Device /\ InitialBits(d) \in SUBSET ControlBits /\ "SPE" \notin InitialBits(d)
  <2>1. \A e \in Device : /\ InitialBits(e) \subseteq ControlBits
                          /\ "SPE" \notin InitialBits(e)
    BY DEF Device, InitialBits, ControlBits
  <2>. QED  BY <1>3, <2>1 DEF Device
<1>5. /\ control' \in [Device -> SUBSET ControlBits]
      /\ control'[d] = Held(d, InitialBits(d))
      /\ \A e \in Device \ {d} : control'[e] = control[e]
  BY <1>2, <1>4, Written DEF DeviceTable
<1>6. d # "I2C1" => control'[d] = InitialBits(d)
  BY <1>3, <1>4, <1>5, HeldBits
<1>7. \A k \in {4, 5, 10, 11, 13, 27, 28, 29, 30, 38, 39} : step # k /\ step' > k => step > k
  BY <1>2 DEF PlaceInv
<1>. HIDE DEF d
<1>8. CASE step = 4
  BY <1>2, <1>3, <1>5, <1>6, <1>7, <1>8 DEF DeviceTable, Device, InitialBits
<1>9. CASE step = 10
  BY <1>2, <1>3, <1>5, <1>6, <1>7, <1>9 DEF DeviceTable, Device, InitialBits
<1>10. CASE step = 28
  BY <1>2, <1>3, <1>5, <1>6, <1>7, <1>10 DEF DeviceTable, Device, InitialBits
<1>11. CASE step = 38
  BY <1>2, <1>3, <1>5, <1>6, <1>7, <1>11 DEF DeviceTable, Device, InitialBits
<1>. QED  BY <1>3, <1>8, <1>9, <1>10, <1>11

\* A bit is added to a control register: by PeripheralControl, by SSIConfig, or
\* with ACK at the end of a read.
LEMMA BitAdded ==
  ASSUME PlaceInv, DeviceTable, step' = step + 1, UNCHANGED clocked,
         NEW d \in Device, NEW bit \in ControlBits, WriteControl(d, control[d] \cup {bit}),
         \/ <<step, d>> \in Enables /\ bit = OnBit(d)
         \/ step = 29 /\ d = "SPI1" /\ bit = "SSI"
         \/ step = 13 /\ d = "I2C1" /\ bit = "ACK"
  PROVE  DeviceTable'
<1>1. \/ step = 5 /\ d = "USART2" /\ bit = "UE"
      \/ step = 11 /\ d = "I2C1" /\ bit = "PE"
      \/ step = 30 /\ d = "SPI1" /\ bit = "SPE"
      \/ step = 39 /\ d = "USART1" /\ bit = "UE"
      \/ step = 29 /\ d = "SPI1" /\ bit = "SSI"
      \/ step = 13 /\ d = "I2C1" /\ bit = "ACK"
  BY DEF Enables, OnBit
<1>. DEFINE bits == control[d] \cup {bit}
<1>2. d \in clocked /\ bits \in SUBSET ControlBits
  BY <1>1 DEF DeviceTable
<1>3. Held(d, bits) = bits
  <2>1. \/ d \in {"USART1", "USART2"}
        \/ d = "I2C1" /\ "PE" \in bits
        \/ d = "SPI1" /\ "SSI" \in bits
    BY <1>1 DEF DeviceTable
  <2>. HIDE DEF bits
  <2>. QED  BY <1>2, <2>1, HeldBits
<1>4. /\ control' \in [Device -> SUBSET ControlBits]
      /\ control'[d] = bits
      /\ \A e \in Device \ {d} : control'[e] = control[e]
  <2>1. WriteControl(d, bits) /\ d \in clocked'
    BY <1>2
  <2>. HIDE DEF bits
  <2>. QED  BY <1>2, <1>3, <2>1, Written DEF DeviceTable
<1>5. \A e \in Device : control[e] \subseteq control'[e]
  BY <1>4
<1>6. \A k \in {4, 5, 10, 11, 13, 27, 28, 29, 30, 38, 39} : step # k /\ step' > k => step > k
  BY DEF PlaceInv
<1>7. bit \in control'[d]
  BY <1>4
<1>. HIDE DEF bits
<1>. QED  BY <1>1, <1>4, <1>5, <1>6, <1>7 DEF DeviceTable, Device

\* Every step keeps the table of the devices.
LEMMA DeviceStep ==
  ASSUME PlaceInv, DeviceTable, [StartNext]_<<startvars, gpiovars>>
  PROVE  DeviceTable'
<1>0. step \in 1 .. 58
  BY DEF PlaceInv
<1>1. ASSUME UNCHANGED devices, step' = step
      PROVE  DeviceTable'
  BY <1>1, DevicesUntouched
<1>2. ASSUME NEW op, Performs(op), Goes_On, UNCHANGED devices,
             op \notin {"init", "enable", "clock", "SSI", "read_id"}
      PROVE  DeviceTable'
  <2>1. step \notin {4, 5, 10, 11, 13, 27, 28, 29, 30, 38, 39} /\ step' = step + 1
    BY <1>0, <1>2, PlaceOf DEF Goes_On, Stands, Pinout, Inits, Enables, Prints, PortClocks
  <2>. QED  BY <1>2, <2>1, DevicesUntouched
<1>3. CASE ClockDevice
  <2>1. Performs("clock") /\ step' = step + 1 /\ clocked' = clocked \cup {Entry.dev}
        /\ UNCHANGED control
    BY <1>3 DEF ClockDevice, Goes_On
  <2>2. step = 27 /\ Entry.dev = "SPI1"
    BY <1>0, <2>1, PlaceOf DEF Stands, Pinout, Inits, Enables, Prints, PortClocks
  <2>3. \A k \in {4, 5, 10, 11, 13, 28, 29, 30, 38, 39} : step' > k => step > k
    BY <1>0, <2>1, <2>2
  <2>. QED  BY <2>1, <2>2, <2>3 DEF DeviceTable
<1>4. CASE SetControl
  <2>1. step' = step + 1 /\ UNCHANGED clocked
    BY <1>4 DEF SetControl, Goes_On
  <2>2. CASE Performs("enable")
             /\ WriteControl(Entry.dev, control[Entry.dev] \cup {OnBit(Entry.dev)})
    <3>1. PICK b \in Enables : b[1] = step /\ b[2] = Entry.dev
      <4>1. <<step, Entry.dev>> \in Enables
        BY <1>0, <2>2, PlaceOf DEF Stands
      <4>. QED  BY <4>1
    <3>2. b = <<step, b[2]>> /\ b[2] \in Device /\ OnBit(b[2]) \in ControlBits
      BY <3>1 DEF Enables, Device, OnBit, ControlBits
    <3>3. WriteControl(b[2], control[b[2]] \cup {OnBit(b[2])})
      BY <2>2, <3>1
    <3>. QED  BY <2>1, <3>1, <3>2, <3>3, BitAdded
  <2>3. CASE Performs("SSI") /\ WriteControl("SPI1", control["SPI1"] \cup {"SSI"})
    <3>1. step = 29
      BY <1>0, <2>3, PlaceOf DEF Stands, Pinout, Inits, Enables, Prints, PortClocks
    <3>. QED  BY <2>1, <2>3, <3>1, BitAdded DEF Device, ControlBits
  <2>. QED  BY <1>4, <2>2, <2>3 DEF SetControl
<1>5. CASE ReadId
  <2>1. Performs("read_id") /\ UNCHANGED clocked
    BY <1>5 DEF ReadId
  <2>2. step = 13
    BY <1>0, <2>1, PlaceOf DEF Stands, Pinout, Inits, Enables, Prints, PortClocks
  <2>3. CASE Goes_On /\ WriteControl("I2C1", control["I2C1"] \cup {"ACK"})
    BY <2>1, <2>2, <2>3, BitAdded DEF Goes_On, Device, ControlBits
  <2>4. CASE UNCHANGED <<step, control>>
    BY <1>1, <2>1, <2>4 DEF devices
  <2>. QED  BY <1>5, <2>3, <2>4 DEF ReadId
<1>6. CASE SysTick_Init \/ SetPin \/ SetPortClock \/ SetButton \/ RaiseSelect \/ PrintText
  BY <1>2, <1>6 DEF SysTick_Init, SetPin, SetPortClock, SetButton, RaiseSelect, PinsOnly,
     PrintText
<1>7. CASE ResetSensor \/ Delay \/ ReadCalibration \/ Configure \/ SetWatchdog
  BY <1>2, <1>7 DEF ResetSensor, Delay, ReadCalibration, Configure, SetWatchdog
<1>8. CASE PrepareKernel
  BY <1>2, <1>8 DEF PrepareKernel
<1>9. CASE LeaveMain \/ StartTick \/ SensorUp \/ WatchdogUpdated
           \/ UNCHANGED <<startvars, gpiovars>>
  BY <1>1, <1>9 DEF LeaveMain, StartTick, SensorUp, WatchdogUpdated, startvars, devices
<1>. QED
  BY <1>3, <1>4, <1>5, <1>6, <1>7, <1>8, <1>9, DeviceInitialised DEF StartNext, MainStep

\* From when on each device is set up.
LEMMA SetUpFrom ==
  ASSUME PlaceInv, PinTable, DeviceTable
  PROVE  /\ step > 5 => SetUp("USART2")
         /\ step > 11 => SetUp("I2C1")
         /\ step > 30 => SetUp("SPI1")
         /\ step > 39 => SetUp("USART1")
<1>1. ASSUME NEW d \in Device, NEW n \in {5, 11, 30, 39}, step > n,
             \A p \in PinsOf(d) : \E b \in Pinout : b[1] < n /\ p = <<b[2], b[3], b[4]>>,
             d \in clocked, Enabled(d)
      PROVE  SetUp(d)
  <2>1. ASSUME NEW p \in PinsOf(d)
        PROVE  p[1] \in ports_on /\ AsConfigured(p[1], p[2], p[3])
    <3>1. PICK b \in Pinout : b[1] < n /\ p = <<b[2], b[3], b[4]>>
      BY <1>1
    <3>2. step > b[1]
      BY <1>1, <3>1, PinoutConfigs DEF PlaceInv
    <3>. QED  BY <3>1, <3>2 DEF PinTable
  <2>. QED  BY <1>1, <2>1 DEF SetUp
<1>2. step > 5 => SetUp("USART2")
  <2>1. \A p \in PinsOf("USART2") : \E b \in Pinout : b[1] < 5 /\ p = <<b[2], b[3], b[4]>>
    <3>1. <<2, PortA, 2, Serial>> \in Pinout /\ <<3, PortA, 3, Serial>> \in Pinout
      BY DEF Pinout
    <3>. QED  BY <3>1 DEF PinsOf
  <2>2. step > 5 => "USART2" \in clocked /\ Enabled("USART2")
    BY DEF DeviceTable, PlaceInv, Enabled, OnBit, InitialBits
  <2>. QED  BY <1>1, <2>1, <2>2 DEF Device
<1>3. step > 11 => SetUp("I2C1")
  <2>1. \A p \in PinsOf("I2C1") : \E b \in Pinout : b[1] < 11 /\ p = <<b[2], b[3], b[4]>>
    <3>1. <<8, PortB, 8, TwoWire>> \in Pinout /\ <<9, PortB, 9, TwoWire>> \in Pinout
      BY DEF Pinout
    <3>. QED  BY <3>1 DEF PinsOf
  <2>2. step > 11 => "I2C1" \in clocked /\ Enabled("I2C1")
    BY DEF DeviceTable, PlaceInv, Enabled, OnBit, InitialBits
  <2>. QED  BY <1>1, <2>1, <2>2 DEF Device
<1>4. step > 30 => SetUp("SPI1")
  <2>1. \A p \in PinsOf("SPI1") : \E b \in Pinout : b[1] < 30 /\ p = <<b[2], b[3], b[4]>>
    <3>1. /\ <<22, PortA, 5, SpiPin>> \in Pinout /\ <<23, PortA, 6, SpiPin>> \in Pinout
          /\ <<24, PortA, 7, SpiPin>> \in Pinout /\ <<25, PortB, 6, SpiSelect>> \in Pinout
      BY DEF Pinout
    <3>. QED  BY <3>1 DEF PinsOf
  <2>2. step > 30 => "SPI1" \in clocked /\ Enabled("SPI1")
    BY DEF DeviceTable, PlaceInv, Enabled, OnBit, InitialBits
  <2>. QED  BY <1>1, <2>1, <2>2 DEF Device
<1>5. step > 39 => SetUp("USART1")
  <2>1. \A p \in PinsOf("USART1") : \E b \in Pinout : b[1] < 39 /\ p = <<b[2], b[3], b[4]>>
    <3>1. <<36, PortA, 9, Serial>> \in Pinout /\ <<37, PortA, 10, Serial>> \in Pinout
      BY DEF Pinout
    <3>. QED  BY <3>1 DEF PinsOf
  <2>2. step > 39 => "USART1" \in clocked /\ Enabled("USART1")
    BY DEF DeviceTable, PlaceInv, Enabled, OnBit, InitialBits
  <2>. QED  BY <1>1, <2>1, <2>2 DEF Device
<1>. QED  BY <1>2, <1>3, <1>4, <1>5

-----------------------------------------------------------------------------
(* The sensor's part of the table, and the watchdog's.                     *)

\* The sensor has answered once main is past read_id.  It may be starting again
\* at the delay only: the delay is longer than the start-up, so it is up when
\* its calibration is read, and on a sound bus it then answers every time.
SensorTable ==
  /\ flaky \in BOOLEAN /\ waited \in Nat
  /\ step <= 13 => sensor \in {"up", "missing"}
  /\ step \in {14, 16, 17, 18} => sensor = "up"
  /\ step = 15 => sensor \in {"up", "resetting"}
  /\ sensor = "resetting" => step = 15 /\ waited <= StartupTime
  /\ step > 18 => sensor \in {"up", "measuring"}
  /\ flaky = FALSE /\ step > 16 => calibrated = TRUE
  /\ flaky = FALSE /\ step > 18 => sensor = "measuring"

\* Who answers, and when it always does.
LEMMA Answered ==
  /\ Answers \subseteq BOOLEAN
  /\ TRUE \in Answers => sensor \in {"up", "measuring"}
  /\ flaky = FALSE /\ sensor = "up" /\ SetUp("I2C1") => Answers = {TRUE}
  BY DEF Answers

\* Entries that are not about the sensor.
LEMMA SensorUntouched ==
  ASSUME PlaceInv, SensorTable, step' \in {step, step + 1}, UNCHANGED <<sensorvars, waited>>,
         step' = step \/ step \notin 13 .. 18
  PROVE  SensorTable'
<1>1. step' <= 13 => step <= 13
  BY DEF PlaceInv
<1>2. \A k \in 14 .. 18 : (step' = k => step = k) /\ (step = k => step' = k)
  BY DEF PlaceInv
<1>3. \A k \in {16, 18} : step' > k => step > k
  BY DEF PlaceInv
<1>. QED  BY <1>1, <1>2, <1>3 DEF SensorTable, sensorvars

\* The entries of BMP280_Init.
LEMMA SensorSteps ==
  ASSUME PlaceInv, PinTable, DeviceTable, SensorTable,
         ReadId \/ ResetSensor \/ Delay \/ ReadCalibration \/ Configure
  PROVE  SensorTable'
<1>0. step \in 1 .. 58
  BY DEF PlaceInv
<1>. USE DEF SensorTable
<1>1. step > 11 => SetUp("I2C1")
  BY SetUpFrom
<1>2. CASE ReadId
  <2>1. Performs("read_id") /\ UNCHANGED <<sensorvars, waited>>
    BY <1>2 DEF ReadId, DevicesOnly, others
  <2>2. step = 13
    BY <1>0, <2>1, PlaceOf DEF Stands, Pinout, Inits, Enables, Prints, PortClocks
  <2>3. CASE step' = step + 1 /\ TRUE \in Answers
    <3>1. sensor = "up"
      BY <2>2, <2>3, Answered
    <3>. QED  BY <2>1, <2>2, <2>3, <3>1 DEF sensorvars
  <2>4. CASE step' = step
    BY <2>1, <2>4, SensorUntouched
  <2>. QED  BY <1>2, <2>3, <2>4 DEF ReadId, Goes_On
<1>3. CASE ResetSensor
  <2>1. /\ Performs("reset_sensor") /\ step' = step + 1 /\ waited' = 0
        /\ UNCHANGED <<flaky, calibrated>> /\ sensor' \in {"resetting", sensor}
    BY <1>3 DEF ResetSensor, Goes_On
  <2>2. step = 14
    BY <1>0, <2>1, PlaceOf DEF Stands, Pinout, Inits, Enables, Prints, PortClocks
  <2>3. 0 \in Nat /\ 0 <= StartupTime
    BY StartAssumption
  <2>. QED  BY <2>1, <2>2, <2>3
<1>4. CASE Delay
  <2>1. /\ Performs("delay") /\ step' = step + 1 /\ waited >= ResetWait
        /\ UNCHANGED <<sensorvars, waited>>
    BY <1>4 DEF Delay, Goes_On, DevicesOnly, others
  <2>2. step = 15
    BY <1>0, <2>1, PlaceOf DEF Stands, Pinout, Inits, Enables, Prints, PortClocks
  <2>3. sensor # "resetting"
    BY <2>1, StartAssumption
  <2>. QED  BY <2>1, <2>2, <2>3 DEF sensorvars
<1>5. CASE ReadCalibration
  <2>1. /\ Performs("read_calibration") /\ step' = step + 1
        /\ UNCHANGED <<sensor, flaky, waited>>
        /\ calibrated' \in Answers
    BY <1>5 DEF ReadCalibration, Goes_On
  <2>2. step = 16
    BY <1>0, <2>1, PlaceOf DEF Stands, Pinout, Inits, Enables, Prints, PortClocks
  <2>3. flaky = FALSE => calibrated' = TRUE
    <3>1. flaky = FALSE => Answers = {TRUE}
      <4>1. sensor = "up" /\ SetUp("I2C1")
        BY <1>1, <2>2
      <4>. HIDE DEF SensorTable
      <4>. QED  BY <4>1, Answered
    <3>2. calibrated' \in Answers
      BY <2>1
    <3>. HIDE DEF SensorTable
    <3>. QED  BY <3>1, <3>2
  <2>. QED  BY <2>1, <2>2, <2>3
<1>6. CASE Configure /\ Performs("configure")
  <2>1. step = 17
    BY <1>0, <1>6, PlaceOf DEF Stands, Pinout, Inits, Enables, Prints, PortClocks
  <2>2. step' = step + 1 /\ UNCHANGED <<sensor, waited, flaky, calibrated>>
    BY <1>6, <2>1, PlaceOf DEF Configure, Goes_On, Performs
  <2>. QED  BY <2>1, <2>2
<1>7. CASE Configure /\ Performs("measure")
  <2>1. step = 18
    BY <1>0, <1>7, PlaceOf DEF Stands, Pinout, Inits, Enables, Prints, PortClocks
  <2>2. step' = step + 1 /\ UNCHANGED <<waited, flaky, calibrated>>
    BY <1>7 DEF Configure, Goes_On
  <2>3. PICK a \in Answers : sensor' = IF a THEN "measuring" ELSE sensor
    BY <1>7 DEF Configure, Performs
  <2>4. sensor' \in {"up", "measuring"}
    BY <2>1, <2>3
  <2>5. flaky = FALSE => sensor' = "measuring"
    <3>1. flaky = FALSE => Answers = {TRUE}
      <4>1. sensor = "up" /\ SetUp("I2C1")
        BY <1>1, <2>1
      <4>. HIDE DEF SensorTable
      <4>. QED  BY <4>1, Answered
    <3>2. flaky = FALSE => a = TRUE
      <4>. HIDE DEF SensorTable
      <4>. QED  BY <2>3, <3>1
    <3>. QED  BY <2>3, <3>2
  <2>. QED  BY <2>1, <2>2, <2>4, <2>5
<1>. QED  BY <1>2, <1>3, <1>4, <1>5, <1>6, <1>7 DEF Configure

\* Every step keeps the table of the sensor.
LEMMA SensorStep ==
  ASSUME PlaceInv, PinTable, DeviceTable, SensorTable, [StartNext]_<<startvars, gpiovars>>
  PROVE  SensorTable'
<1>0. step \in 1 .. 58
  BY DEF PlaceInv
<1>1. ASSUME UNCHANGED <<sensorvars, waited, step>>
      PROVE  SensorTable'
  BY <1>1, SensorUntouched
<1>2. ASSUME NEW op, Performs(op), Goes_On, UNCHANGED <<sensorvars, waited>>,
             op \notin {"read_id", "reset_sensor", "delay", "read_calibration", "configure",
                        "measure"}
      PROVE  SensorTable'
  <2>1. step \notin 13 .. 18 /\ step' = step + 1
    BY <1>0, <1>2, PlaceOf DEF Goes_On, Stands, Pinout, Inits, Enables, Prints, PortClocks
  <2>. QED  BY <1>2, <2>1, SensorUntouched
<1>3. CASE SysTick_Init \/ SetPin \/ SetPortClock \/ SetButton \/ RaiseSelect
  BY <1>2, <1>3 DEF SysTick_Init, SetPin, SetPortClock, SetButton, RaiseSelect, PinsOnly, others
<1>4. CASE InitDevice \/ ClockDevice \/ SetControl \/ PrintText
  BY <1>2, <1>4 DEF InitDevice, ClockDevice, SetControl, PrintText, DevicesOnly, others
<1>5. CASE SetWatchdog \/ PrepareKernel
  BY <1>2, <1>5 DEF SetWatchdog, PrepareKernel
<1>6. CASE LeaveMain \/ WatchdogUpdated \/ UNCHANGED <<startvars, gpiovars>>
  BY <1>1, <1>6 DEF LeaveMain, others, WatchdogUpdated, startvars, sensorvars
<1>7. CASE SensorUp
  BY <1>7 DEF SensorUp, SensorTable
<1>8. CASE StartTick
  <2>1. /\ sensor = "resetting" => waited < StartupTime
        /\ waited' = IF waited < ResetWait THEN waited + 1 ELSE waited
        /\ UNCHANGED <<sensor, flaky, calibrated, step>>
    BY <1>8 DEF StartTick, sensorvars
  <2>2. waited' \in Nat /\ (sensor = "resetting" => waited' <= StartupTime)
    BY <2>1, StartAssumption DEF SensorTable
  <2>. QED  BY <2>1, <2>2 DEF SensorTable
<1>. QED
  BY <1>3, <1>4, <1>5, <1>6, <1>7, <1>8, SensorSteps DEF StartNext, MainStep

\* The watchdog has its settings once main has waited for them.
WatchdogTable == step > 43 => iwdg = "set"

LEMMA WatchdogStep ==
  ASSUME PlaceInv, WatchdogTable, [StartNext]_<<startvars, gpiovars>>
  PROVE  WatchdogTable'
<1>0. step \in 1 .. 58
  BY DEF PlaceInv
<1>1. ASSUME iwdg' = iwdg, step' \in {step, step + 1},
             step' = step \/ step # 43
      PROVE  WatchdogTable'
  BY <1>0, <1>1 DEF WatchdogTable
<1>2. ASSUME NEW op, Performs(op), Goes_On, UNCHANGED iwdg, op # "watchdog_set"
      PROVE  WatchdogTable'
  <2>1. step # 43 /\ step' = step + 1
    BY <1>0, <1>2, PlaceOf DEF Goes_On, Stands, Pinout, Inits, Enables, Prints, PortClocks
  <2>. QED  BY <1>1, <1>2, <2>1
<1>3. CASE SysTick_Init \/ SetPin \/ SetPortClock \/ SetButton \/ RaiseSelect
  BY <1>2, <1>3 DEF SysTick_Init, SetPin, SetPortClock, SetButton, RaiseSelect, PinsOnly, others
<1>4. CASE InitDevice \/ ClockDevice \/ SetControl \/ PrintText
  BY <1>2, <1>4 DEF InitDevice, ClockDevice, SetControl, PrintText, DevicesOnly, others
<1>5. CASE ReadId
  <2>1. UNCHANGED iwdg /\ Performs("read_id") /\ (Goes_On \/ UNCHANGED step)
    BY <1>5 DEF ReadId, DevicesOnly, others
  <2>. QED  BY <1>1, <1>2, <2>1
<1>6. CASE ResetSensor \/ Delay \/ ReadCalibration \/ Configure \/ PrepareKernel
  BY <1>2, <1>6 DEF ResetSensor, Delay, ReadCalibration, Configure, PrepareKernel, DevicesOnly,
     others
<1>7. CASE SetWatchdog
  <2>1. step' = step + 1
    BY <1>7 DEF SetWatchdog, Goes_On
  <2>2. CASE Performs("start_watchdog") \/ Performs("set_watchdog")
    <3>1. step \in {41, 42}
      BY <1>0, <2>2, PlaceOf DEF Stands, Pinout, Inits, Enables, Prints, PortClocks
    <3>. QED  BY <2>1, <3>1 DEF WatchdogTable
  <2>3. CASE iwdg = "set" /\ UNCHANGED iwdg
    BY <2>3 DEF WatchdogTable
  <2>. QED  BY <1>7, <2>2, <2>3 DEF SetWatchdog
<1>8. CASE LeaveMain \/ StartTick \/ SensorUp \/ UNCHANGED <<startvars, gpiovars>>
  BY <1>1, <1>8 DEF LeaveMain, others, StartTick, SensorUp, startvars
<1>9. CASE WatchdogUpdated
  BY <1>9 DEF WatchdogUpdated, WatchdogTable
<1>. QED
  BY <1>3, <1>4, <1>5, <1>6, <1>7, <1>8, <1>9 DEF StartNext, MainStep

-----------------------------------------------------------------------------
(* What is used is ready.                                                  *)

\* The whole table.
ReadyInv == PlaceInv /\ PinTable /\ DeviceTable /\ SensorTable /\ WatchdogTable

\* At reset only the peripherals' reset values are there.
LEMMA ReadyAtReset ==
  ASSUME StartInit
  PROVE  ReadyInv
<1>1. /\ step = 1 /\ ended = "no" /\ waited = 0
      /\ sensor \in {"up", "missing"}
      /\ kernel_started = FALSE /\ has_tcb = FALSE /\ psp = FALSE
      /\ flaky \in BOOLEAN
  BY StartAssumption DEF StartInit
<1>2. PlaceInv
  BY <1>1 DEF PlaceInv
<1>3. PinTable
  <2>1. RegistersOK /\ ODR \in [Port -> SUBSET Nat]
    BY DEF StartInit, GpioInit, RegistersOK, FieldRegister
  <2>2. \A b \in Pinout : ~(step > b[1])
    BY <1>1, PinoutConfigs
  <2>. QED  BY <1>1, <2>1, <2>2 DEF PinTable
<1>4. DeviceTable
  <2>1. control \in [Device -> SUBSET ControlBits]
    BY DEF StartInit
  <2>. QED  BY <1>1, <2>1 DEF DeviceTable
<1>5. SensorTable
  BY <1>1 DEF SensorTable
<1>6. WatchdogTable
  BY <1>1 DEF WatchdogTable
<1>. QED  BY <1>2, <1>3, <1>4, <1>5, <1>6 DEF ReadyInv

\* The table says of every use that what it needs comes before it.
LEMMA ReadyByTable ==
  ASSUME ReadyInv
  PROVE  ReadyWhenUsed
<1>. USE DEF ReadyInv
<1>1. step \in 1 .. 58
  BY DEF PlaceInv
<1>2. /\ step > 5 => SetUp("USART2")
      /\ step > 11 => SetUp("I2C1")
      /\ step > 30 => SetUp("SPI1")
      /\ step > 39 => SetUp("USART1")
  BY SetUpFrom
<1>3. Entry.op = "print" => step > 5
  BY <1>1, Script DEF Entry, Stands, Pinout, Inits, Enables, Prints, PortClocks
<1>4. Entry.op \in {"read_id", "reset_sensor", "read_calibration", "configure", "measure"}
        => step > 11
  BY <1>1, Script DEF Entry, Stands, Pinout, Inits, Enables, Prints, PortClocks
<1>5. ended = "tasks" => step = 58
  BY DEF PlaceInv
<1>6. \A d \in Used : SetUp(d)
  <2>1. CASE ended = "tasks"
    BY <1>2, <1>5, <2>1 DEF Used, Device
  <2>2. CASE ended = "no" /\ Entry.op = "print"
    <3>1. Used = {"USART2"}
      BY <2>2 DEF Used
    <3>. QED  BY <1>2, <1>3, <2>2, <3>1
  <2>3. CASE ended = "no" /\ Entry.op \in {"read_id", "reset_sensor", "read_calibration",
                                           "configure", "measure"}
    <3>1. Used = {"I2C1"}
      BY <2>3 DEF Used
    <3>. QED  BY <1>2, <1>4, <2>3, <3>1
  <2>4. CASE /\ ended # "tasks"
             /\ ~(ended = "no" /\ Entry.op = "print")
             /\ ~(ended = "no" /\ Entry.op \in {"read_id", "reset_sensor", "read_calibration",
                                                "configure", "measure"})
    <3>1. Used = {}
      BY <2>4 DEF Used
    <3>. QED  BY <3>1
  <2>. QED  BY <2>1, <2>2, <2>3, <2>4
<1>7. ASSUME ended = "tasks"
      PROVE  /\ PortB \in ports_on /\ 6 \in ODR[PortB]
             /\ Field(MODER[PortA], 8) = {} /\ Field(PUPDR[PortA], 8) = {0}
             /\ iwdg = "set" /\ task_count = 8
  <2>1. step = 58
    BY <1>5, <1>7
  <2>2. PortB \in ports_on
    <3>1. <<8, PortB, 8, TwoWire>> \in Pinout
      BY DEF Pinout
    <3>. QED  BY <2>1, <3>1 DEF PinTable
  <2>3. iwdg = "set" /\ task_count = 8
    BY <2>1 DEF PlaceInv, WatchdogTable
  <2>. QED  BY <2>1, <2>2, <2>3 DEF PinTable
<1>8. ended = "tasks" => (~flaky => calibrated /\ sensor = "measuring")
  BY <1>5 DEF SensorTable
<1>. QED  BY <1>6, <1>7, <1>8 DEF ReadyWhenUsed

\* Whenever main prints, talks to the sensor or hands over to the tasks, what it
\* uses has its clock, its pins and its control bits, and the tasks find the
\* board set up: for every delay that is longer than the sensor's start-up,
\* every output type that the button's configuration may hold, and whenever the
\* tick interrupts main.
THEOREM ReadyAlways == StartSpec => []ReadyWhenUsed
<1>1. StartInit => ReadyInv
  BY ReadyAtReset
<1>2. ReadyInv /\ [StartNext]_<<startvars, gpiovars>> => ReadyInv'
  BY PlaceStep, PinStep, DeviceStep, SensorStep, WatchdogStep DEF ReadyInv
<1>3. ReadyInv => ReadyWhenUsed
  BY ReadyByTable
<1>. QED  BY <1>1, <1>2, <1>3, PTL DEF StartSpec
==============================================================================
