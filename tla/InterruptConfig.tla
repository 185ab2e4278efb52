--------------------------- MODULE InterruptConfig ---------------------------
(***************************************************************************)
(* Enabling, disabling and ordering interrupts: the IRQInterruptConfig and *)
(* IRQPriorityConfig functions of the GPIO, SPI, USART and I2C drivers.    *)
(*                                                                         *)
(* The NVIC is external.  Bit b of the registers ISERn and ICERn stands    *)
(* for interrupt 32 * n + b; both read as the interrupts that are enabled; *)
(* a one written to ISERn enables, a one written to ICERn disables, and    *)
(* bits of interrupts that the device does not have stay zero.             *)
(***************************************************************************)
EXTENDS Integers

CONSTANTS GpioIrqs, SpiIrqs, UsartIrqs, I2cIrqs,   \* of each driver
          Priorities    \* the priorities that are given, as sets of bits

\* External interrupts reach the GPIO driver below 64 only; every other driver has
\* some from 64 on.
ASSUME IrqAssumption == /\ GpioIrqs \subseteq 0 .. 63
                        /\ SpiIrqs \cup UsartIrqs \cup I2cIrqs \subseteq 0 .. 95

Irqs == GpioIrqs \cup SpiIrqs \cup UsartIrqs \cup I2cIrqs

Wired == 0 .. 96    \* IRQ_NO_WWDG .. IRQ_NO_FMPI2C1_ER

VARIABLES nvic_enabled,   \* the interrupts that are enabled
          nvic_priority,  \* of each interrupt, the bits of its priority
          asked_irq       \* history: "on" since it was last enabled, "off" since it was
                          \* last disabled, "swept" since another was, from "on"

nvicvars == <<nvic_enabled, nvic_priority, asked_irq>>

IrqInit == /\ nvic_enabled = {}
           /\ nvic_priority = [irq \in Irqs |-> {}]
           /\ asked_irq = [irq \in Irqs |-> "off"]

\* Seeded fault: the first register is taken to hold 33 interrupts.
RegisterTooWide(irq) == CASE irq <= 32 -> 0
                          [] irq \in 33 .. 63 -> 1
                          [] OTHER -> IF irq \in GpioIrqs THEN 2 ELSE 3

\* The register of an interrupt.  The SPI, USART and I2C drivers use the
\* fourth register, and not the third, from interrupt 64 on.
Register(irq) == CASE irq <= 31 -> 0
                   [] irq \in 32 .. 63 -> 1
                   [] OTHER -> IF irq \in GpioIrqs THEN 2 ELSE 3

\* "*NVIC_ISERx |= bit".
EnableIrq(irq) ==
  /\ nvic_enabled' = nvic_enabled \cup ({32 * Register(irq) + (irq % 32)} \cap Wired)
  /\ asked_irq' = [asked_irq EXCEPT ![irq] = "on"]
  /\ UNCHANGED nvic_priority

\* "*NVIC_ICERx |= bit": what is read as one is written back as one, so every
\* interrupt of the register is disabled.
DisableIrq(irq) ==
  /\ nvic_enabled' = {i \in nvic_enabled : i \div 32 # Register(irq)}
  /\ asked_irq' = [i \in Irqs |-> IF i = irq THEN "off"
                                 ELSE IF i \div 32 = irq \div 32 /\ asked_irq[i] = "on"
                                      THEN "swept" ELSE asked_irq[i]]
  /\ UNCHANGED nvic_priority

\* IRQPriorityConfig: the bits of the priority are set, and none is cleared.
SetPriority(irq, bits) ==
  /\ nvic_priority' = [nvic_priority EXCEPT ![irq] = @ \cup bits]
  /\ UNCHANGED <<nvic_enabled, asked_irq>>

IrqNext == \E irq \in Irqs : \/ EnableIrq(irq) \/ DisableIrq(irq)
                             \/ \E bits \in Priorities : SetPriority(irq, bits)

IrqSpec == IrqInit /\ [][IrqNext]_nvicvars

-----------------------------------------------------------------------------
\* An interrupt is enabled from when a driver enables it until a driver disables
\* it, or any other of its group of 32: DisableIrq is no finer.  And only below
\* 64: "program ISER2 register //64 to 95" is not what the SPI, USART and I2C
\* drivers do, and theirs from 64 on are never enabled.
EnabledAsAsked ==
  \A irq \in Irqs : irq \in nvic_enabled <=> asked_irq[irq] = "on" /\ irq < 64
=============================================================================
