----------------------------- MODULE BoardStart ------------------------------
(***************************************************************************)
(* Start-up of the STM32: main() from reset to the first task, with the    *)
(* set-up functions of main.c, bmp280.c, spi_telemetry.c, gsm.c and the    *)
(* watchdog, on the GPIO driver of GpioPort and the control registers of   *)
(* the other peripherals.  The calls are a script, one step per entry; the *)
(* tick interrupts it anywhere once SysTick_Init has run.                  *)
(*                                                                         *)
(* External: a peripheral without clock takes no writes; an I2C that is    *)
(* not enabled does not keep ACK; an SPI master that is enabled without    *)
(* SSI has a mode fault and is switched off.  The sensor may be missing    *)
(* or another chip; it takes StartupTime to come up after a reset; on a    *)
(* flaky bus it may miss any address.                                      *)
(***************************************************************************)
EXTENDS GpioPort, Sequences, FiniteSets

CONSTANTS ResetWait,     \* ticks of the delay after the sensor's reset; 10 in the code
          StartupTime,   \* ticks that the sensor takes at most; 2 in its data sheet
          StrayBits,     \* bits that an uninitialised GPIO_PinOPType may have
          Flaky          \* the buses that are considered

ASSUME StartAssumption == /\ StrayBits \subseteq 0 .. 7 /\ Flaky \subseteq BOOLEAN
                          /\ ResetWait \in Nat /\ StartupTime \in 0 .. ResetWait - 1

VARIABLES step,          \* main: the entry of the script it is at
          ended,         \* how main has ended: "no", "halted", "returned", "faulted", "tasks"
          ticking, waited,    \* SysTick is on; ticks since the last call of delay_ms
          clocked, control,       \* peripherals with a clock; their control bits
          sensor, flaky,      \* the chip at BMP280_I2C_ADDR; its bus
          calibrated,         \* calib_data is what the sensor holds
          iwdg,
          kernel_started, task_count,
          has_tcb, psp    \* whether current_tcb and PSP are those of the first task

startvars == <<step, ended, ticking, waited, clocked, control, sensor, flaky, calibrated, iwdg,
               kernel_started, task_count, has_tcb, psp>>
kernelvars == <<kernel_started, task_count, has_tcb, psp>>
sensorvars == <<sensor, flaky, calibrated>>
devices == <<clocked, control>>

Device == {"USART1", "USART2", "I2C1", "SPI1"}

-----------------------------------------------------------------------------
(* The script.                                                             *)

PortA == 0
PortB == 1

\* The pins of BoardConfig.h, as the set-up functions configure them.
Serial == [mode |-> "ALTFN", speed |-> {1}, pupd |-> {0}, optype |-> {}, af |-> {0, 1, 2}]
TwoWire == [Serial EXCEPT !.optype = {0}, !.af = {2}]
SpiPin == [Serial EXCEPT !.pupd = {}, !.af = {0, 2}]
SpiSelect == [SpiPin EXCEPT !.mode = "OUT"]
Button == [Serial EXCEPT !.mode = "IN"]

PinsOf(d) == CASE d = "USART2" -> {<<PortA, 2, Serial>>, <<PortA, 3, Serial>>}
               [] d = "USART1" -> {<<PortA, 9, Serial>>, <<PortA, 10, Serial>>}
               [] d = "I2C1" -> {<<PortB, 8, TwoWire>>, <<PortB, 9, TwoWire>>}
               [] d = "SPI1" -> {<<PortA, 5, SpiPin>>, <<PortA, 6, SpiPin>>, <<PortA, 7, SpiPin>>,
                                 <<PortB, 6, SpiSelect>>}

\* The pins the script names exist (the ports have sixteen).
ASSUME BoardAssumption == {PortA, PortB} \subseteq Port /\ {2, 3, 5, 6, 7, 8, 9, 10} \subseteq Pin

Do(op) == <<[op |-> op]>>
On(op, d) == <<[op |-> op, dev |-> d]>>
Pins(r, pins, c) == [i \in 1 .. Len(pins) |-> [op |-> "pin", port |-> r, pin |-> pins[i],
                                               config |-> c]]
Clock(r) == <<[op |-> "port_clock", port |-> r]>>
Text == On("print", "USART2")

USART2_Set_Up == Pins(PortA, <<2, 3>>, Serial) \o On("init", "USART2") \o On("enable", "USART2")

I2C1_Set_Up == Clock(PortB) \o Pins(PortB, <<8, 9>>, TwoWire) \o On("init", "I2C1")
               \o On("enable", "I2C1")

BMP280_Init == Do("read_id") \o Do("reset_sensor") \o Do("delay") \o Do("read_calibration")
               \o Do("configure") \o Do("measure")

\* Seeded fault: the peripheral is enabled before SSI is set.
SpiEnabledFirst ==
  Clock(PortA) \o Clock(PortB)
  \o Pins(PortA, <<5, 6, 7>>, SpiPin) \o Pins(PortB, <<6>>, SpiSelect) \o Do("deselect")
  \o On("clock", "SPI1") \o On("init", "SPI1")
  \o On("enable", "SPI1") \o Do("SSI")

Telemetry_SPI_Init ==
  Clock(PortA) \o Clock(PortB)
  \o Pins(PortA, <<5, 6, 7>>, SpiPin) \o Pins(PortB, <<6>>, SpiSelect) \o Do("deselect")
  \o On("clock", "SPI1") \o On("init", "SPI1")
  \o Do("SSI") \o On("enable", "SPI1")

GSM_Button_Init == Clock(PortA) \o Do("button")

GSM_UART_Init == Clock(PortA) \o Pins(PortA, <<9, 10>>, Serial)
                 \o On("init", "USART1") \o On("enable", "USART1")

IWDG_Init == Do("start_watchdog") \o Do("set_watchdog") \o Do("watchdog_set")

\* Seeded fault: the tasks are created before the table is cleared.
KernelInitLate == [i \in 1 .. 8 |-> [op |-> "create"]] \o Do("Kernel_Init")

Kernel_Init_Tasks == Do("Kernel_Init") \o [i \in 1 .. 8 |-> [op |-> "create"]]

Kernel_Start == Do("started") \o Do("first_task") \o Do("set_PSP") \o Do("enter")

Main == Do("SysTick_Init") \o USART2_Set_Up \o Text \o I2C1_Set_Up \o Text
        \o BMP280_Init \o Text \o Telemetry_SPI_Init \o Text \o Text
        \o GSM_Button_Init \o GSM_UART_Init \o Text \o IWDG_Init \o Text
        \o Kernel_Init_Tasks \o Text \o Kernel_Start

StartInit == /\ GpioInit
             /\ step = 1 /\ ended = "no"
             /\ ticking = FALSE /\ waited = 0
             /\ clocked = {} /\ control = [d \in Device |-> {}]
             /\ sensor \in {"up", "missing"} /\ flaky \in Flaky /\ calibrated = FALSE
             /\ iwdg = "off"
             /\ kernel_started = FALSE /\ task_count = 0
             /\ has_tcb = FALSE /\ psp = FALSE

Entry == Main[step]

\* main performs one of these operations and goes on.
Performs(op) == ended = "no" /\ Entry.op = op
Goes_On == step' = step + 1 /\ UNCHANGED ended

\* What a step that sets up pins or devices leaves alone.
others == <<ticking, waited, sensorvars, iwdg, kernelvars>>
PinsOnly == UNCHANGED <<devices, others>>
DevicesOnly == UNCHANGED <<gpiovars, others>>

-----------------------------------------------------------------------------
(* Pins and the control registers of the peripherals.                      *)

SetPin == /\ Performs("pin") /\ Goes_On
          /\ InitPin(Entry.port, Entry.pin, Entry.config)
          /\ PinsOnly

SetPortClock == /\ Performs("port_clock") /\ Goes_On
                /\ ClockPort(Entry.port, TRUE)
                /\ PinsOnly

\* The driver shifts an output type nobody has set into OTYPER: bits of it reach
\* the pins above the button.
SetButton == /\ Performs("button") /\ Goes_On
             /\ \E stray \in SUBSET StrayBits :
                  InitPin(PortA, 8, [Button EXCEPT !.optype = stray])
             /\ PinsOnly

RaiseSelect == /\ Performs("deselect") /\ Goes_On
               /\ WritePin(PortB, 6, TRUE)
               /\ PinsOnly

\* External: what a control register holds after a write of bits.
Held(d, bits) ==
  CASE d = "I2C1" /\ "PE" \notin bits -> bits \ {"ACK"}
    [] d = "SPI1" /\ {"SPE", "MSTR", "SSM"} \subseteq bits /\ "SSI" \notin bits ->
         bits \ {"SPE", "MSTR"}
    [] OTHER -> bits

WriteControl(d, bits) ==
  control' = IF d \in clocked' THEN [control EXCEPT ![d] = Held(d, bits)] ELSE control

\* USART_Init, I2C_Init, SPI_Init: the clock, then the register as a whole.
InitialBits(d) == CASE d \in {"USART1", "USART2"} -> {"RE", "TE"}
                    [] d = "I2C1" -> {"ACK"}
                    [] d = "SPI1" -> {"MSTR", "SSM"}

InitDevice == /\ Performs("init") /\ Goes_On
              /\ clocked' = clocked \cup {Entry.dev}
              /\ WriteControl(Entry.dev, InitialBits(Entry.dev))
              /\ DevicesOnly

ClockDevice == /\ Performs("clock") /\ Goes_On
               /\ clocked' = clocked \cup {Entry.dev}
               /\ UNCHANGED control /\ DevicesOnly

OnBit(d) == CASE d \in {"USART1", "USART2"} -> "UE" [] d = "I2C1" -> "PE"
                  [] d = "SPI1" -> "SPE"

\* The PeripheralControl functions, and SPI_SSIConfig.
SetControl == /\ Goes_On
              /\ UNCHANGED clocked /\ DevicesOnly
              /\ \/ Performs("enable")
                    /\ WriteControl(Entry.dev, control[Entry.dev] \cup {OnBit(Entry.dev)})
                 \/ Performs("SSI") /\ WriteControl("SPI1", control["SPI1"] \cup {"SSI"})

PrintText == /\ Performs("print") /\ Goes_On
             /\ UNCHANGED devices /\ DevicesOnly

Enabled(d) == OnBit(d) \in control[d] /\ InitialBits(d) \ {"ACK"} \subseteq control[d]

SetUp(d) == /\ d \in clocked /\ Enabled(d)
            /\ \A p \in PinsOf(d) : p[1] \in ports_on /\ AsConfigured(p[1], p[2], p[3])

-----------------------------------------------------------------------------
(* The sensor.                                                             *)

\* I2C_MasterSendData and I2C_MasterReceiveData return early, and BMP280_Init
\* goes on, when no chip acknowledges.
Answers == (IF sensor \in {"up", "measuring"} /\ SetUp("I2C1") THEN {TRUE} ELSE {FALSE})
           \cup (IF flaky THEN {FALSE} ELSE {})

\* A read of one byte ends with ACK set.  No 0x58: main prints and delays for ever.
ReadId == /\ Performs("read_id") /\ UNCHANGED clocked /\ DevicesOnly
          /\ \E answered \in Answers :
               IF answered THEN Goes_On /\ WriteControl("I2C1", control["I2C1"] \cup {"ACK"})
               ELSE ended' = "halted" /\ UNCHANGED <<step, control>>

\* The call of delay_ms follows at once.
ResetSensor == /\ Performs("reset_sensor") /\ Goes_On
               /\ \E answered \in Answers :
                    sensor' = IF answered THEN "resetting" ELSE sensor
               /\ waited' = 0
               /\ UNCHANGED <<gpiovars, devices, ticking, flaky, calibrated, iwdg, kernelvars>>

Delay == /\ Performs("delay") /\ waited >= ResetWait /\ Goes_On
         /\ UNCHANGED devices /\ DevicesOnly

\* read_calibration_data.  Without ACK the second byte never comes; without an
\* answer, what is on the stack is taken.
ReadCalibration == /\ Performs("read_calibration") /\ Goes_On
                   /\ \E answered \in Answers : /\ answered => "ACK" \in control["I2C1"]
                                                /\ calibrated' = answered
                   /\ UNCHANGED <<gpiovars, devices, ticking, waited, sensor, flaky, iwdg,
                                  kernelvars>>

\* The registers CONFIG, whose value is that of the reset, and CTRL_MEAS.
Configure == /\ Goes_On
             /\ \/ Performs("configure") /\ UNCHANGED sensor
                \/ /\ Performs("measure")
                   /\ \E answered \in Answers :
                        sensor' = IF answered THEN "measuring" ELSE sensor
             /\ UNCHANGED <<gpiovars, devices, ticking, waited, flaky, calibrated, iwdg,
                            kernelvars>>

\* External: the sensor is up again.
SensorUp == /\ sensor = "resetting" /\ sensor' = "up"
            /\ UNCHANGED <<gpiovars, devices, step, ended, ticking, waited, flaky, calibrated,
                           iwdg, kernelvars>>

-----------------------------------------------------------------------------
(* The watchdog and the kernel.                                            *)

\* IWDG_Init; the registers are updated by the clock that the start turns on.
SetWatchdog == /\ Goes_On
               /\ \/ Performs("start_watchdog") /\ iwdg' = "on"
                  \/ Performs("set_watchdog") /\ iwdg' = "updating"
                  \/ Performs("watchdog_set") /\ iwdg = "set" /\ UNCHANGED iwdg
               /\ UNCHANGED <<gpiovars, devices, ticking, waited, sensorvars, kernelvars>>

\* External.
WatchdogUpdated == /\ iwdg = "updating" /\ iwdg' = "set"
                   /\ UNCHANGED <<gpiovars, devices, step, ended, ticking, waited, sensorvars,
                                  kernelvars>>

SysTick_Init == /\ Performs("SysTick_Init") /\ Goes_On
                /\ ticking' = TRUE
                /\ UNCHANGED <<gpiovars, devices, waited, sensorvars, iwdg, kernelvars>>

\* Kernel_Init, Task_Create, and Kernel_Start with Task_StartFirst up to the
\* store to PSP.
PrepareKernel ==
  /\ \/ /\ Performs("Kernel_Init") /\ Goes_On
        /\ kernel_started' = FALSE /\ task_count' = 0 /\ has_tcb' = FALSE
        /\ UNCHANGED psp
     \/ /\ Performs("create") /\ Goes_On
        /\ task_count' = task_count + 1 /\ UNCHANGED <<kernel_started, has_tcb, psp>>
     \/ /\ Performs("started") /\ Goes_On
        /\ kernel_started' = TRUE /\ UNCHANGED <<task_count, has_tcb, psp>>
     \/ /\ Performs("first_task") /\ task_count > 0 /\ Goes_On
        /\ has_tcb' = TRUE /\ UNCHANGED <<kernel_started, task_count, psp>>
     \/ /\ Performs("set_PSP") /\ Goes_On
        /\ psp' = TRUE /\ UNCHANGED <<kernel_started, task_count, has_tcb>>
  /\ UNCHANGED <<gpiovars, devices, ticking, waited, sensorvars, iwdg>>

\* Task_StartFirst returns when there is no task, and main with it; or the
\* first task is entered.
LeaveMain == /\ \/ Performs("first_task") /\ task_count = 0 /\ ended' = "returned"
                \/ Performs("enter") /\ ended' = "tasks"
             /\ UNCHANGED <<gpiovars, step, others, devices>>

\* Seeded fault: the tick asks for a switch before the kernel has started.
SwitchAlways == TRUE

SwitchOnTick == kernel_started

\* SysTick_Handler.  PendSV follows at once: it saves what runs on the process
\* stack, in current_tcb.  Without these two it writes to where there is no RAM.
StartTick == /\ ticking /\ ended = "no"
             /\ sensor = "resetting" => waited < StartupTime
             /\ waited' = IF waited < ResetWait THEN waited + 1 ELSE waited
             /\ ended' = IF SwitchOnTick /\ ~(has_tcb /\ psp) THEN "faulted" ELSE "no"
             /\ UNCHANGED <<gpiovars, devices, step, ticking, sensorvars, iwdg, kernelvars>>

MainStep == \/ SysTick_Init \/ SetPin \/ SetPortClock \/ SetButton \/ RaiseSelect
            \/ InitDevice \/ ClockDevice \/ SetControl \/ PrintText
            \/ ReadId \/ ResetSensor \/ Delay \/ ReadCalibration \/ Configure
            \/ SetWatchdog \/ PrepareKernel \/ LeaveMain

StartNext == MainStep \/ StartTick \/ SensorUp \/ WatchdogUpdated

StartSpec == StartInit /\ [][StartNext]_<<startvars, gpiovars>>

-----------------------------------------------------------------------------
\* What main, and then the tasks, work with.
Used == CASE ended = "tasks" -> Device
          [] ended = "no" /\ Entry.op = "print" -> {"USART2"}
          [] ended = "no" /\ Entry.op \in {"read_id", "reset_sensor", "read_calibration",
                                           "configure", "measure"} -> {"I2C1"}
          [] OTHER -> {}

\* A peripheral has its clock, its pins and its control bits whenever it is
\* used, whatever the steps before did to the registers it shares with others
\* and whatever an uninitialised configuration wrote to them.  The tasks find
\* all of the board set up, and a sensor on a sound bus calibrated and
\* measuring: it was up again when it was read, with ACK set.
ReadyWhenUsed ==
  /\ \A d \in Used : SetUp(d)
  /\ ended = "tasks" =>
       /\ PortB \in ports_on /\ 6 \in ODR[PortB]
       /\ Field(MODER[PortA], 8) = {} /\ Field(PUPDR[PortA], 8) = {0}
       /\ iwdg = "set" /\ task_count = 8
       /\ ~flaky => calibrated /\ sensor = "measuring"

\* A tick of the kernel before the first task has its stack would save the
\* registers of main to nowhere: it can only do so in the few instructions
\* between the store to kernel_started and the one to PSP.
FaultOnlyInWindow == ended = "faulted" => Entry.op \in {"first_task", "set_PSP"}

\* With the sensor in place main gets to the tasks; no wait of it is for ever.
StartsInTheEnd == step > 1 /\ sensor # "missing" /\ ~flaky ~> ended \in {"tasks", "faulted"}

\* "Initialization successful": BMP280_Init returns 1 with the sensor set up.
InitMeansSetUp == ended = "tasks" => calibrated /\ sensor = "measuring"
=============================================================================
