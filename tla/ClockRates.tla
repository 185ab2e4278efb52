----------------------------- MODULE ClockRates ------------------------------
(***************************************************************************)
(* The arithmetic that turns the clock tree into divisors: PCLK1 and PCLK2 *)
(* (Src/drivers/stm32f446xx_rcc_driver.c), the baud rate register of a     *)
(* USART and the clock registers of an I2C.                                *)
(*                                                                         *)
(* Integers of the code have 32 bits; a division by zero yields zero, as   *)
(* UDIV does.  A product that leaves 31 bits is kept in two halves.        *)
(***************************************************************************)
EXTENDS Integers, FiniteSets

CONSTANTS AhbCodes, ApbCodes,   \* values of HPRE, 0 .. 15, and of PPRE, 0 .. 7
          Bauds, Speeds         \* the rates that are asked for

VARIABLES sw, hpre, ppre,   \* RCC_CFGR: clock source and the two prescalers
          apb2,             \* the peripheral is on APB2
          rate              \* what is asked: a baud rate or an SCL speed

ratevars == <<sw, hpre, ppre, apb2, rate>>

\* The first that main sets up is a USART.
RatesInit == /\ sw \in 0 .. 2 /\ hpre \in AhbCodes /\ ppre \in ApbCodes
             /\ apb2 \in BOOLEAN
             /\ rate \in Bauds

\* A peripheral is set up with another rate.  Nothing in the code writes
\* RCC_CFGR: the drivers read it, and each of its values is considered.
SetRate == rate' \in (Bauds \cup Speeds) \ {rate} /\ UNCHANGED <<sw, hpre, ppre, apb2>>

RatesSpec == RatesInit /\ [][SetRate]_ratevars

-----------------------------------------------------------------------------
Div(a, b) == IF b = 0 THEN 0 ELSE a \div b

\* AHB_PreScaler through a variable of eight bits: 256 and 512 become zero.
AhbDivisor == IF hpre < 8 THEN 1
              ELSE <<2, 4, 8, 16, 64, 128, 256, 512>>[hpre - 7] % 256

ApbDivisor == IF ppre < 4 THEN 1 ELSE <<2, 4, 8, 16>>[ppre - 3]

\* The PLL counts as 0 for APB1 and as the 8 MHz oscillator for APB2.
SystemClock == CASE sw = 0 -> 16000000 [] sw = 1 -> 8000000
                 [] OTHER -> IF apb2 THEN 8000000 ELSE 0

\* RCC_GetPCLK1Value and RCC_GetPCLK2Value.
Pclk == Div(Div(SystemClock, AhbDivisor), ApbDivisor)

-----------------------------------------------------------------------------
(* USART_SetBaudRate, sampling 16 times a bit.                             *)

\* The divisor in hundredths.
UsartDiv(baud) == (25 * Pclk) \div (4 * baud)

\* Seeded fault: the fraction is truncated.
FractionTruncated(div) == ((div % 100) * 16) \div 100

\* The fraction in sixteenths, rounded; sixteen sixteenths are masked to none.
Fraction(div) == (((div % 100) * 16 + 50) \div 100) % 16

BRR(baud) == (UsartDiv(baud) \div 100) * 16 + Fraction(UsartDiv(baud))

-----------------------------------------------------------------------------
(* I2C_Init: standard mode up to 100 kHz, fast mode with duty 2 above.     *)

StandardMode(speed) == speed <= 100000

\* The field of twelve bits of CCR.
CCR(speed) == (Div(Pclk, (IF StandardMode(speed) THEN 2 ELSE 3) * speed) % 65536) % 4096

\* The quotient of hi * 2^16 + lo, below 2^32, by 10^9.
Billions(hi, lo) ==
  Cardinality({k \in 1 .. 4 : LET khi == (k * 15258) + ((k * 51712) \div 65536)
                                  klo == (k * 51712) % 65536
                              IN  hi > khi \/ (hi = khi /\ lo >= klo)})

\* PCLK1 * 300 modulo 2^32, in nanoseconds.
FastRise == LET lo == (Pclk % 65536) * 300
                hi == (Pclk \div 65536) * 300 + lo \div 65536
            IN  Billions(hi % 65536, lo % 65536) + 1

TRISE(speed) == (IF StandardMode(speed) THEN Pclk \div 1000000 + 1 ELSE FastRise) % 64

-----------------------------------------------------------------------------
\* External: what the clock tree makes of the prescalers.  The code knows the
\* source and both divisors when Supported.
BusClock == (IF sw = 0 THEN 16000000 ELSE 8000000)
            \div ((IF hpre < 8 THEN 1 ELSE 2 ^ (IF hpre < 12 THEN hpre - 7 ELSE hpre - 6))
                  * (IF ppre < 4 THEN 1 ELSE 2 ^ (ppre - 3)))

Supported == sw < 2 /\ hpre < 14

\* A USART that can reach the rate is set to within two thirds of a step of
\* its divisor, at each prescaler: neither the two truncations nor the fraction
\* that rounds up to the next integer spoil a standard rate.
BaudsExact == rate \in Bauds /\ BusClock >= 16 * rate =>
                LET error == BusClock - BRR(rate) * rate
                IN  3 * error \in -2 * rate .. 2 * rate

\* The clock of a standard mode I2C is the one that was asked for, and its rise
\* time is a microsecond of periods plus one, from 2 MHz on.
SclExact == ~apb2 /\ rate \in Speeds /\ StandardMode(rate) /\ BusClock >= 2000000 =>
              /\ 2 * CCR(rate) * rate = BusClock
              /\ (TRISE(rate) - 1) * 1000000 = BusClock

\* "PCLK1 * 300" is below 2^32.
ProductFits == BusClock <= 14316557

\* The rise time of fast mode is 300 ns of periods plus one, as long as the
\* product has 32 bits: at 16 MHz it has not.
RiseExact == ~apb2 /\ rate \in Speeds /\ ~StandardMode(rate) /\ ProductFits =>
               TRISE(rate) = ((BusClock * 3) \div 10000000) + 1

\* USARTs and I2Cs get the rates they are asked for, on either bus and behind
\* any prescalers whose divisors the code can hold.
RatesExact == Supported => BaudsExact /\ SclExact /\ RiseExact
=============================================================================
