------------------------------ MODULE GpioPort -------------------------------
(***************************************************************************)
(* The GPIO driver (Src/drivers/stm32f446xx_gpio_driver.c) with the clock, *)
(* reset and port code macros of Inc/drivers/stm32f446xx.h.                *)
(*                                                                         *)
(* A register is the set of its bits that are set: bit k of the field of   *)
(* pin p is <<p, k>>, in a register of one bit per pin it is p itself.     *)
(* Fields are cleared and set as in the code, and a value that does not    *)
(* fit its field reaches the bits of the pins above.  The registers of a   *)
(* port without clock do not take writes.  The EXTI unit is external: an   *)
(* edge of the selected port on a line that is unmasked sets its pending   *)
(* bit, and a one written to a pending bit clears it.                      *)
(***************************************************************************)
EXTENDS Integers

CONSTANTS Port,        \* the ports, as their codes (GPIO_BASEADDR_TO_CODE)
          Pin,         \* pin numbers
          PinConfig,   \* the values of GPIO_PinConfig_t that are passed
          CallPin,     \* bound: the pins that calls of GpioNext are about
          MaxCalls     \* bound: those calls

Modes == {"IN", "OUT", "ALTFN", "ANALOG", "IT_FT", "IT_RT", "IT_RFT"}

\* Fields of GPIO_PinConfig_t; all but the mode are sets of bits.
ASSUME GpioAssumption ==
  /\ Port \subseteq Nat /\ Pin \subseteq 0 .. 15 /\ CallPin \subseteq Pin /\ MaxCalls \in Nat
  /\ PinConfig \subseteq [mode : Modes, speed : SUBSET (0 .. 1), pupd : SUBSET (0 .. 1),
                          optype : SUBSET {0}, af : SUBSET (0 .. 3)]

VARIABLES ports_on,   \* AHB1ENR: ports that have a clock
          MODER, OSPEEDR, PUPDR, AFR,   \* of each port, <<pin, bit>> pairs
          OTYPER, ODR,                  \* of each port, pins
          FTSR, RTSR, IMR, PR,          \* of the EXTI unit, lines
          EXTICR,     \* SYSCFG: of each register, the code in each of its four fields
          configured, \* history: what GPIO_Init was last asked for each pin
          asked_line, \* history: port and mode last asked for each interrupt line
          last_line,  \* history: of each EXTICR register, the line last configured, if any
          gpio_calls

portregs == <<MODER, OSPEEDR, PUPDR, AFR, OTYPER, ODR>>
extiregs == <<FTSR, RTSR, IMR, PR, EXTICR>>
asked == <<configured, asked_line, last_line>>
gpiovars == <<ports_on, portregs, extiregs, asked, gpio_calls>>

Interrupting == {"IT_FT", "IT_RT", "IT_RFT"}

NotConfigured == [mode |-> "none"]

GpioInit == /\ ports_on = {}
            /\ MODER = [r \in Port |-> {}] /\ OSPEEDR = [r \in Port |-> {}]
            /\ PUPDR = [r \in Port |-> {}] /\ AFR = [r \in Port |-> {}]
            /\ OTYPER = [r \in Port |-> {}] /\ ODR = [r \in Port |-> {}]
            /\ FTSR = {} /\ RTSR = {} /\ IMR = {} /\ PR = {}
            /\ EXTICR = [i \in 0 .. 3 |-> [f \in 0 .. 3 |-> 0]]
            /\ configured = [r \in Port |-> [p \in Pin |-> NotConfigured]]
            /\ asked_line = [p \in Pin |-> NotConfigured]
            /\ last_line = [i \in 0 .. 3 |-> {}]
            /\ gpio_calls = 0

Call == gpio_calls' = gpio_calls + 1

-----------------------------------------------------------------------------
(* The configuration of a pin.                                             *)

ModeBits(mode) == CASE mode = "IN" -> {} [] mode = "OUT" -> {0}
                    [] mode = "ALTFN" -> {1} [] OTHER -> {0, 1}

\* Seeded fault: the field is not cleared before the new value is set.
SetFieldOver(reg, p, width, bits) == reg \cup {<<p, k>> : k \in bits}

\* Clear the field of pin p in a register, then set the bits of its new value.
SetField(reg, p, width, bits) == (reg \ {<<p, k>> : k \in 0 .. width - 1})
                                 \cup {<<p, k>> : k \in bits}

\* The trigger, the port selection and the mask of an interrupting pin.  The
\* selection is assigned to the whole register, with the fields of three other
\* lines.
ConfigureLine(r, p, mode) ==
  /\ FTSR' = IF mode = "IT_RT" THEN FTSR \ {p} ELSE FTSR \cup {p}
  /\ RTSR' = IF mode = "IT_FT" THEN RTSR \ {p} ELSE RTSR \cup {p}
  /\ EXTICR' = [EXTICR EXCEPT ![p \div 4] = [f \in 0 .. 3 |-> IF f = p % 4 THEN r ELSE 0]]
  /\ IMR' = IMR \cup {p}
  /\ asked_line' = [asked_line EXCEPT ![p] = [port |-> r, mode |-> mode]]
  /\ last_line' = [last_line EXCEPT ![p \div 4] = {p}]
  /\ UNCHANGED PR

\* GPIO_Init.  An interrupting pin keeps the mode it had.
InitPin(r, p, c) ==
  /\ Call
  /\ ports_on' = ports_on \cup {r}
  /\ IF c.mode \in Interrupting
     THEN ConfigureLine(r, p, c.mode) /\ UNCHANGED MODER
     ELSE /\ MODER' = [MODER EXCEPT ![r] = SetField(@, p, 2, ModeBits(c.mode))]
          /\ UNCHANGED <<extiregs, asked_line, last_line>>
  /\ OSPEEDR' = [OSPEEDR EXCEPT ![r] = SetField(@, p, 2, c.speed)]
  /\ PUPDR' = [PUPDR EXCEPT ![r] = SetField(@, p, 2, c.pupd)]
  /\ OTYPER' = [OTYPER EXCEPT ![r] = (@ \ {p}) \cup {p + k : k \in c.optype}]
  /\ AFR' = IF c.mode = "ALTFN" THEN [AFR EXCEPT ![r] = SetField(@, p, 4, c.af)] ELSE AFR
  /\ configured' = [configured EXCEPT ![r][p] = c]
  /\ UNCHANGED ODR

\* GPIO_PeriClockControl.
ClockPort(r, enable) == /\ Call
                        /\ ports_on' = IF enable THEN ports_on \cup {r} ELSE ports_on \ {r}
                        /\ UNCHANGED <<portregs, extiregs, asked>>

\* GPIO_DeInit: the port is reset through RCC, with or without its clock.
DeInitPort(r) == /\ Call
                 /\ MODER' = [MODER EXCEPT ![r] = {}]
                 /\ OSPEEDR' = [OSPEEDR EXCEPT ![r] = {}]
                 /\ PUPDR' = [PUPDR EXCEPT ![r] = {}]
                 /\ AFR' = [AFR EXCEPT ![r] = {}]
                 /\ OTYPER' = [OTYPER EXCEPT ![r] = {}]
                 /\ ODR' = [ODR EXCEPT ![r] = {}]
                 /\ configured' = [configured EXCEPT ![r] = [p \in Pin |-> NotConfigured]]
                 /\ UNCHANGED <<ports_on, extiregs, asked_line, last_line>>

-----------------------------------------------------------------------------
(* Output and interrupts.                                                  *)

\* A write to the output register of a port.
WriteOutput(r, pins) ==
  /\ Call
  /\ ODR' = IF r \in ports_on THEN [ODR EXCEPT ![r] = pins] ELSE ODR
  /\ UNCHANGED <<ports_on, MODER, OSPEEDR, PUPDR, AFR, OTYPER, extiregs, asked>>

WritePin(r, p, set) == WriteOutput(r, IF set THEN ODR[r] \cup {p} ELSE ODR[r] \ {p})

TogglePin(r, p) == WriteOutput(r, IF p \in ODR[r] THEN ODR[r] \ {p} ELSE ODR[r] \cup {p})

WritePort(r) == \E pins \in SUBSET CallPin : WriteOutput(r, pins)

\* External: an edge on a pin.
Edge(r, p, rising) == /\ p \in IMR /\ EXTICR[p \div 4][p % 4] = r
                      /\ p \in (IF rising THEN RTSR ELSE FTSR)
                      /\ PR' = PR \cup {p}
                      /\ UNCHANGED <<ports_on, portregs, FTSR, RTSR, IMR, EXTICR,
                                     asked, gpio_calls>>

\* What is left pending after "PR |= written": the bits read as one are
\* written back as one.
PendingAfter(written) == PR \ (PR \cup written)

\* GPIO_IRQHandling.
HandleLine(p) == /\ p \in PR
                 /\ Call
                 /\ PR' = PendingAfter({p})
                 /\ UNCHANGED <<ports_on, portregs, FTSR, RTSR, IMR, EXTICR, asked>>

GpioNext == /\ gpio_calls < MaxCalls
            /\ \E r \in Port :
              \/ \E p \in CallPin, c \in PinConfig : InitPin(r, p, c)
              \/ \E enable \in BOOLEAN : ClockPort(r, enable)
              \/ DeInitPort(r)
              \/ \E p \in CallPin, b \in BOOLEAN : WritePin(r, p, b) \/ Edge(r, p, b)
              \/ \E p \in CallPin : TogglePin(r, p) \/ HandleLine(p)
              \/ WritePort(r)

GpioSpec == GpioInit /\ [][GpioNext]_gpiovars

-----------------------------------------------------------------------------
\* The bits of the field of pin p.
Field(reg, p) == {k \in 0 .. 3 : <<p, k>> \in reg}

\* What was asked for pin p is in the registers of its port.
AsConfigured(r, p, c) ==
  /\ c.mode \notin Interrupting => Field(MODER[r], p) = ModeBits(c.mode)
  /\ c.mode = "ALTFN" => Field(AFR[r], p) = c.af
  /\ Field(OSPEEDR[r], p) = c.speed
  /\ Field(PUPDR[r], p) = c.pupd
  /\ p \in OTYPER[r] <=> 0 \in c.optype

\* A line is unmasked, triggers on the edges it was asked for and listens to the
\* port it was asked for, but to port A once another line of its EXTICR register
\* has been configured.
LineAsAsked(p, line) ==
  /\ p \in IMR
  /\ p \in FTSR <=> line.mode # "IT_RT"
  /\ p \in RTSR <=> line.mode # "IT_FT"
  /\ EXTICR[p \div 4][p % 4] = IF p \in last_line[p \div 4] THEN line.port ELSE 0

\* Sixteen pins of many owners share each register: a pin keeps what its last
\* GPIO_Init asked, whatever is done to the others, until the port is reset, and
\* an interrupt line, which the pins of that number of all ports share, keeps its
\* edges and its mask.  It does not keep its port: the assignment of
\* "Configure the GPIO port selection in SYSCFG_EXTICR" leaves it to the line of
\* its register that was configured last and gives the three others to port A.
\* (The values are those that the tables of stm32f446xx_gpio_driver.h allow; for
\* one that is not, the bits it sets in other pins' fields, see BoardStart.)
PinsKeepConfig ==
  /\ \A r \in Port, p \in Pin :
       configured[r][p] # NotConfigured => AsConfigured(r, p, configured[r][p])
  /\ \A p \in Pin : asked_line[p] # NotConfigured => LineAsAsked(p, asked_line[p])
=============================================================================
