------------------------------ MODULE MCBoard -------------------------------
(***************************************************************************)
(* Model checking the parts of the firmware below the application: the     *)
(* kernel, start-up, the peripheral drivers, the polled transfer of the    *)
(* SPI link, the arithmetic of the clocks and the median filter.  One      *)
(* behaviour exercises one of these parts: they share no state but the     *)
(* pins, which start-up and the GPIO driver both set.                      *)
(***************************************************************************)
EXTENDS Kernel, SpiDriver, UsartDriver, I2cMaster, SpiPolling, BoardStart, InterruptConfig,
        ClockRates, MedianFilter

CONSTANT Parts  \* the parts to exercise

VARIABLE part   \* the part this behaviour exercises

\* An output, two alternate functions and an interrupt that differ in every field.
MCPinConfig ==
  {[mode |-> "OUT", speed |-> {0}, pupd |-> {}, optype |-> {0}, af |-> {}],
   [mode |-> "ALTFN", speed |-> {1}, pupd |-> {0}, optype |-> {}, af |-> {0, 2}],
   [mode |-> "ALTFN", speed |-> {0, 1}, pupd |-> {1}, optype |-> {0}, af |-> {0, 1, 2}],
   [mode |-> "IT_FT", speed |-> {}, pupd |-> {0}, optype |-> {}, af |-> {}]}

MCBauds == {1200, 2400, 9600, 19200, 38400, 57600, 115200, 230400, 460800, 921600,
            2000000, 3000000}

\* The initial state of each part, and one for the behaviours of the others.
Case(name, PartInit, fixed) == PartInit /\ (part # name => fixed)

BoardInit ==
  /\ part \in Parts
  /\ Case("kernel", Init, TRUE)
  /\ Case("spi", SpiInit, spi_tidy)
  /\ Case("usart", UsartInit, us_api = "interrupt" /\ us_prompt)
  /\ Case("i2c", I2cInit, i2c_api = "interrupt" /\ patient /\ wedged)
  /\ Case("polling", PollInit, TRUE)
  /\ Case("start", StartInit, sensor = "missing" /\ ~flaky)
  /\ Case("nvic", IrqInit, TRUE)
  /\ Case("rates", RatesInit, sw = 0 /\ hpre = 0 /\ ppre = 0 /\ apb2 /\ rate = 9600)
  /\ Case("filter", MedianInit, median = 0)

boardvars == <<startvars, gpiovars, nvicvars>>
mathvars == <<ratevars, medianvars>>

Tasks == part = "kernel" /\ Next
  /\ UNCHANGED <<part, spivars, usvars, i2cvars, pollvars, boardvars, mathvars>>
SpiExchanges == part = "spi" /\ SpiNext
  /\ UNCHANGED <<part, vars, usvars, i2cvars, pollvars, boardvars, mathvars>>
UsartTransfers == part = "usart" /\ UsartNext
  /\ UNCHANGED <<part, vars, spivars, i2cvars, pollvars, boardvars, mathvars>>
I2cTransfers == part = "i2c" /\ I2cNext
  /\ UNCHANGED <<part, vars, spivars, usvars, pollvars, boardvars, mathvars>>
PolledPackets == part = "polling" /\ PollNext
  /\ UNCHANGED <<part, vars, spivars, usvars, i2cvars, boardvars, mathvars>>
StartUp == part = "start" /\ StartNext
  /\ UNCHANGED <<part, vars, spivars, usvars, i2cvars, pollvars, nvicvars, mathvars>>
PinCalls == part = "pins" /\ GpioNext
  /\ UNCHANGED <<part, vars, spivars, usvars, i2cvars, pollvars, startvars, nvicvars,
                 mathvars>>
IrqCalls == part = "nvic" /\ IrqNext
  /\ UNCHANGED <<part, vars, spivars, usvars, i2cvars, pollvars, startvars, gpiovars,
                 mathvars>>
RateSettings == part = "rates" /\ SetRate
  /\ UNCHANGED <<part, vars, spivars, usvars, i2cvars, pollvars, boardvars, medianvars>>
Filtering == part = "filter" /\ MedianNext
  /\ UNCHANGED <<part, vars, spivars, usvars, i2cvars, pollvars, boardvars, ratevars>>

BoardNext == \/ Tasks \/ SpiExchanges \/ UsartTransfers \/ I2cTransfers \/ PolledPackets
             \/ StartUp \/ PinCalls \/ IrqCalls \/ RateSettings \/ Filtering

systemvars == <<part, vars, spivars, usvars, i2cvars, pollvars, boardvars, mathvars>>

\* Tasks, handlers, peripherals and ticks go on; the fairness of the kernel is that
\* of Kernel.tla.  Only what a driver has begun is fair: nothing forces the
\* application to ask for a transfer.
BoardFairness ==
  /\ WF_vars(part = "kernel" /\ SysTick)
  /\ WF_vars(part = "kernel" /\ PendSV)
  /\ \A t \in Task :
       SF_vars(part = "kernel" /\ (DelayBlock(t) \/ DelayYield(t) \/ DelayReturn(t)))
  /\ WF_spivars(part = "spi" /\ SpiBusy /\ SpiTask)
  /\ WF_spivars(part = "spi" /\ SPI_IRQHandling)
  /\ WF_spivars(part = "spi" /\ SpiExchange)
  /\ WF_usvars(part = "usart" /\ UsartBusy /\ UsartTask)
  /\ WF_usvars(part = "usart" /\ USART_IRQHandling)
  /\ WF_usvars(part = "usart" /\ ShiftOut)
  /\ WF_usvars(part = "usart" /\ Arrive)
  /\ WF_i2cvars(part = "i2c" /\ I2cStep)
  /\ WF_i2cvars(part = "i2c" /\ I2cBus)
  /\ WF_<<startvars, gpiovars>>(part = "start" /\ MainStep)
  /\ WF_<<startvars, gpiovars>>(part = "start" /\ StartTick)
  /\ WF_<<startvars, gpiovars>>(part = "start" /\ (SensorUp \/ WatchdogUpdated))

BoardSpec == BoardInit /\ [][BoardNext]_systemvars /\ BoardFairness

\* An interrupt is enabled, or pending, only while the handle has a transfer
\* for it.  Otherwise the handler would move frames from NULL, or would leave
\* its cause in place and be entered again for ever.  This is so while the SPI is
\* used by a tidy application and the USART by a prompt task, and for every cause
\* but the overrun of the USART; TxeOffWhenOver and OverrunServed are what happens
\* otherwise.
InterruptsServed == SpiInterruptsServed /\ UsartInterruptsServed /\ I2cInterruptsServed

\* "This prevents interrupts from setting up of TXE flag" and "TxLen is zero ...
\* clear the TXEIE bit (disable interrupt for TXE flag)": when a transmission by SPI
\* or by the USART is over, its interrupt is off, in whatever order the application
\* calls the functions and wherever a tick holds it up.
TxeOffWhenOver == /\ "TXEIE" \in cr2 => spi_tx.busy
                  /\ "TXEIE" \in cr1 => us_tx.busy

\* Frames are sent in the order of the buffer and stored in the order they
\* arrive, none twice; a transmission by a tidy SPI or a patient I2C application
\* skips none.  A frame left over from before the transfer may be stored first: by
\* the SPI, by the polled USART and by the polled I2C of a task that is held up.
FramesInOrder == SpiFramesInOrder /\ UsartFramesInOrder /\ I2cFramesInOrder

\* Every transfer of a tidy SPI application, of any USART task and of a patient I2C
\* application ends as ByteTransfer says: completion is reported once, after the
\* last frame, and before the next transfer begins.  (Not so otherwise: SentWhole.)
TransfersKept == /\ SpiSend!Spec /\ SpiReceive!Spec
                 /\ UsartSend!Spec /\ UsartReceive!Spec
                 /\ I2cTransfer!Spec

\* A transfer that was accepted ends, but for an I2C bus that is stuck.  (A tidy SPI
\* application and a patient I2C one: a reception by SPI that is asked for after the
\* frames were sent is left without clock.)
TransfersEnd == /\ (spi_tidy /\ spi_tx.busy) ~> ~spi_tx.busy
                /\ (spi_tidy /\ spi_rx.busy) ~> ~spi_rx.busy
                /\ us_tx.busy ~> ~us_tx.busy
                /\ us_rx.busy ~> ~us_rx.busy
                /\ (patient /\ Busy) ~> (~Busy \/ Stuck)
=============================================================================
