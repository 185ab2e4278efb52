# TLA+ models of the STM32 telemetry firmware and its ESP32 gateway

Two microcontrollers run the system. An STM32F446 reads a BMP280 sensor over
I2C, filters the values, sends them over SPI and answers two requests for an
SMS: a button, and a command of a web dashboard. An ESP32 is the SPI slave; it
publishes what it receives over MQTT and passes the dashboard's commands back
in the response of the next SPI transaction. The STM32 firmware runs on a
preemptive kernel written for it (`Src/rtos`), the ESP32 on FreeRTOS.

Paths below are relative to `stm32-rtos-dsp-telemetry-system/` (STM32) and
`esp32-spi-mqtt-telemetry/` (ESP32).

## 1. Inventory

| Component | State | Operations | Interacts by | What makes it correct |
|---|---|---|---|---|
| Kernel `Src/rtos/task.c`, `kernel.c`, `context_switch.s`, `idle.c` | TCBs (state, ticks, stack pointer), `current_tcb`, `current_task_idx`, tick count | `Task_Create`, `Task_Delay`, `Task_Yield`, SysTick handler, PendSV handler | interrupts between any two stores of a task | no lost wake-up, no early return, one running task, bounded overtaking, every delay returns |
| Mutex, semaphore, queue, event group (`mutex.c`, `semaphore.c`, `queue.c`, `event.c`) | a few words each | lock/unlock, take/give, send/receive, set/wait | critical sections (`cpsid i`), spin and yield | exclusion, permits conserved, FIFO, one consumer per event |
| Software timers `timer.c` | array of active timers | start, stop, tick walk with callbacks | callbacks inside the walk | array and flags agree, no timer skipped, none removed early |
| Heap `heap.c` | bytes handed out | `Heap_Malloc` | any task | disjoint, aligned blocks inside the heap |
| Cooperative scheduler `scheduler.c` | table of functions and times | add, run | nothing calls it | each function runs at its interval, also where the counter wraps |
| Application tasks `Src/app/app_tasks.c`, watchdog `Src/watchdog` | global raw and filtered values, IWDG counter | seven loops ending in `Task_Delay` | shared globals without locks | watchdog served, packets fresh and consistent |
| GSM handler `app_tasks.c`, `Src/gsm/gsm.c`, `delay.c` | cooldown, command flag, button | button routine, command routine | flag set by the SPI task, `delay_ms` | one SMS per press, commands answered and spaced |
| SPI link `Src/esp32-telemetry/spi_telemetry.c`; ESP32 `spi_slave.c`, `telemetry_stm32.c` | shared buffer, `trans_done`, `cmd.usr`, the command flag | transaction, receive, publish, respond | SPI, flag set by the MQTT listener | link never deaf, packets published once, commands heard |
| MQTT client ESP32 `main/main.c`, `mqtt_server.c`, `sms_controller.c` | `mqtt_sock` | Wi-Fi events, connect, publish, listen | one socket shared by three tasks | nothing sent before CONNECT, packets well formed |
| Drivers `Src/drivers` (I2C, SPI, USART) | handles, registers | blocking and interrupt-driven transfers | interrupts and callbacks | a transfer ends once, after its last byte |
| GPIO, NVIC and RCC parts of `Src/drivers` | registers shared by pins and interrupts; the clock tree | configure, read, write, enable; divisors | every set-up function | a pin keeps its configuration, an enabled interrupt is enabled, rates are right |
| Start-up `Src/main.c` with the set-up functions | clocks, control bits, the sensor, the task table | a fixed sequence of calls | the tick interrupts it | everything is set up before it is used; the kernel starts |
| BMP280 `Src/sensors`, DSP `Src/dsp` | calibration, filter state | read, compensate, filter | called by one task each | the median is that of the last readings; the rest is numeric |

Hard to test in this code: a tick between two stores of `Task_Delay`; a switch
between test and update in a service; callbacks that change the array that is
being walked; tasks that are preempted in the middle of reading or writing the
shared values; a command, a press and a cooldown that overlap; a slave task that
is late for the next SPI transaction. `PROJECT.json` lists each hazard at its
line with the properties that cover it. Nothing is persisted, so there is no
recovery from a crash to model: a watchdog reset starts from `main`.

Three hazards have no property. The context switch does not save the
floating-point registers (`context_switch.s:20`): contexts are program counters
here. The values of an SMS are copied before the button routine, which may take
seconds (`app_tasks.c:62`): how old they are depends on the AT dialogue, which is
a duration here. `printf` is called by tasks that preempt each other, with one
buffer and one USART (`main.c:91`): C library code.

## 2. Modules

| Module | Models | Checked by |
|---|---|---|
| `Kernel` | the preemptive kernel; EXTENDS nothing of the project | runs `board`, `priority` |
| `DelayService` | abstract: what `Task_Delay` promises; `Kernel` refines it | run `board`, `DelayPromise` |
| `Cpu` | what the kernel looks like from inside a service: a switch at any step unless interrupts are masked | all services |
| `Mutex`, `Semaphore`, `Queue`, `EventGroup`, `Heap` | the services on `Cpu` | run `tasks` |
| `BoundedFifo` | abstract: a bounded FIFO channel; `Queue` refines it | run `tasks`, `FifoOrder` |
| `SoftTimers` | the timer array and its walk | run `tasks` |
| `CooperativeScheduler` | the table of periodic functions and its loop | run `tasks` |
| `AppTasks`, `MCAppTasks` | EXTENDS `Kernel`: the loops of the tasks on it | runs `tasks`, `app_filtered` |
| `MCTasks` | one behaviour exercises the application tasks or one service | |
| `CommandFlag` | the variable `sms_trigger_pending` that the next two share | |
| `MqttClient` | the life of `mqtt_sock` on the ESP32 | runs `remote`, `mqtt_order` |
| `TelemetryLink` | both ends of the SPI link and the command flag | runs `remote`, `link_command` |
| `GsmHandler` | the GSM task in time | runs `remote`, `gsm_spacing` |
| `MCRemote` | one behaviour exercises one of these, or the path of a command through link and handler | |
| `ByteTransfer` | abstract: what a driver promises of a transfer; each driver refines it | run `board`, `TransfersKept` |
| `TransferHandle` | one direction of a driver handle, and operators on frames | |
| `SpiDriver`, `UsartDriver`, `I2cMaster` | the transfers of the three drivers over external peripherals | runs `board`, `spi_order`, `usart_overrun`, `i2c_repeat` |
| `PacketExchange` | abstract: a transaction of the SPI link, which `TelemetryLink` takes as one step | |
| `SpiPolling` | the polled byte loop of `Telemetry_Send`; refines `PacketExchange` | run `board`, `ExchangeExact` |
| `GpioPort` | the GPIO driver on registers that pins share | run `board` |
| `BoardStart` | `main` from reset to the first task, on `GpioPort` | runs `board`, `init_claim` |
| `InterruptConfig` | enabling and ordering interrupts in the NVIC | run `board` |
| `ClockRates` | bus clocks, baud rates and I2C timing as arithmetic | run `board` |
| `MedianFilter` | the ring and the sort of the median filter | run `board` |
| `MCBoard` | one behaviour exercises the kernel, one driver, start-up, the arithmetic or the filter | |
| `KernelProofs`, `ServiceProofs`, `QueueProofs`, `TimerProofs` | theorems about the kernel, about mutex, semaphore, event group and heap, about the queue, about timers and scheduler | |
| `RemoteProofs`, `GsmProofs`, `BoardProofs`, `DriverProofs` | theorems about link, MQTT client and the handler behind the link, about the GSM handler, about pins and start-up, about the drivers | |

Definitions whose comment begins "Seeded fault" model no code. Each is a
plausible mistake in the operator that follows it, and replacing that operator
by it makes a property fail; `PROJECT.json` pairs them under "mutants".

### Kernel

A task is an index of `tcb_array`. `DelayArm`, `DelayBlock`, `DelayYield` are
the three stores of `Task_Delay`, `DelayReturn` its return, `Yield` a bare
`Task_Yield`; `SysTick` may come between any two of them. `PendSV` is the whole
handler with `Task_SelectNext`, which runs with interrupts masked. `Selects(t)`
says where the do-while search of `Task_SelectNext` stops: the READY task at the
smallest ring distance, or the start itself. `overtaken` is a history variable.
The last task is Idle, which executes WFI and so never leaves the ring.

Assumptions about the hardware: a pending PendSV is taken before the task on
the processor executes another instruction of the model, and SysTick has a
higher priority than PendSV (`Kernel_Start` gives PendSV the lowest one).
`Task_Delay(0)` is excluded: it would sleep for ever, and no caller passes 0.

### Services

Threads call a service in turn. Every step between two accesses of shared
memory is an action, the accesses inside a critical section included, so the
mask itself is what the properties depend on: dropping it breaks them. A thread
that spins is never BLOCKED, which is why `Cpu` may dispatch any thread. The
event group chooses each waiter's arguments initially; the heap's requests come
from `Requests` and size_t is `SizeSpan` wide. The services are independent of
each other and of the application's tasks, so `MCTasks` picks one per behaviour rather
than their product.
In `SoftTimers` the walk is the tick handler, which tasks cannot interrupt, and
its steps are separate only because callbacks act in between.

`CooperativeScheduler` keeps the counter modulo `TickSpan`, which stands for
2^32, and starts it anywhere. A pass of the loop reads it once, as the code does,
and the tick goes on counting while tasks run; `MaxRun` bounds a task. `elapsed`,
`drift` and `gap` are histories that do not wrap, so `EveryInterval` compares the
code's subtraction modulo 2^32 with the time that really went by.

### AppTasks

`Code` lists, for each kind of task, the accesses to shared variables of one
loop, in the order of the code; a task executes them one at a time on the kernel
and then calls `Task_Delay`. A value is abstracted to its stage (zero, raw,
filtered) and its age in samples. `packet` is the parameter list and local
packet of `Telemetry_Send`. The watchdog counter counts ticks since
`IWDG_Refresh`. The GSM task takes part as a printing task: what it does between two
reads of shared values takes time and nothing else.

SysTick runs free. What the model assumes of it is that no step takes longer than a
third of its period, 5333 cycles at 16 MHz, so that `SliceSteps` = 3 steps at least are
executed between two ticks, by whichever tasks are dispatched in that time: `ran`
counts them and no switch resets it. A task that another one has given way to, by
`Task_Delay` late in the period, may be preempted before its first step, and so may
the first one after start-up (`ran` starts anywhere). What does take longer is cut
into steps of its own: the sensor's burst of nine bytes at 100 kHz, `pow()` in software
and the packet of twenty bytes at 250 kHz between its waiting loops are `busy` lines of
`Code`. While Idle runs the tick may come at any time, so a task that is woken by it
starts with a whole period. Some bound is needed at all because a task could
otherwise be starved by ticks alone.

### GsmHandler

One process, the handler, with a countdown `wait` for `Task_Delay` and
`delay_ms`; after it the handler may be dispatched at once or late, which covers
every schedule of the kernel. `RaiseTrigger` (the SPI task) and `MoveButton`
(user or bouncing contacts) act at any moment. `quiet`, `anyquiet` and `letgo`
are histories.

In the "path" behaviours of `MCRemote` nothing raises the trigger but the
transaction of `TelemetryLink`, and only the handler takes it: the variable
`trigger` of the two modules is one. `CommandTexted` follows a command from the
flag on the ESP32 to the SMS or to the cooldown that drops it, with a handler
that may be waiting, sending or watching the button when the trigger comes.

### TelemetryLink

A transaction is one step: the bytes of both directions shift through the same
buffer under the master's clock. `prompt` fixes the pace of a behaviour: when it
holds, the slave task is back at its poll before the next transaction, as the
half second of `APP_TELEMETRY_SPI_INTERVAL_MS` allows; when it does not, the
task was held up, for instance by `send()` on a full TCP window, and
transactions come at any moment. A slave that is not armed is taken to answer no
magic word. `owed` counts commands taken into the flag and not yet heard.

### MqttClient

`handler` is where `wifi_event_handler` stands in its GOT_IP branch; the event
loop runs one event at a time from the queue `events`. `publisher` is
`spi_slave_task` between the test of `mqtt_sock` and `send`, which reads the
global again. `receiver` is `mqtt_rx_task`; the two reads of line 18 and 19 of
`sms_controller.c` may be one or two in the binary, and `RxCall` allows both.
`sock` is lwIP's view of a socket, `session` the broker's, `inbox` the chunks
that `recv` will return. A lost connection is noticed (`reset`) or not (`dead`).
`PacketLen` is the length the builders return, refusals included.

What the model shows beyond its properties: when the lookup, `socket()` or
`connect()` fails, or the broker closes the connection, nothing is tried again
until Wi-Fi is lost (the run stops there, hence `CHECK_DEADLOCK FALSE`); each
GOT_IP that replaces a connected socket leaks it; and `CommandRaised` has to
except the task that is `Deaf`, in `recv` on a connection nobody closes.
`TelemetryLink` takes over from `sms_trigger_pending`: both modules EXTEND
`CommandFlag`, and `FlagTaken` is what the other end does to it.

### Drivers

`ByteTransfer` says that frames move one at a time, that the end is reported
once and not before the last frame, and that the next transfer begins after it.
Each driver maps the length asked for, the frames that have reached the wire or
the application's buffer, and the event it reported.

`SpiDriver` and `UsartDriver` take the load and the store of a control register
as two steps, with the handler in between, and the whole handler as one. A
frame is the position of its byte in the buffer. `I2cMaster` has one action for
each flag the code waits for, shared by the polling functions and
`I2C_EV_IRQHandling`, which run through the same protocol: `call.at` is where a
polling call stands, or "busy" with interrupts. `line` is the state of the bus;
the clock is stretched in "SB" and "ADDR". `prompt` is a task that polls without
being preempted for a byte time.

`UsartDriver` has the overrun: a frame that arrives while DR is full, in a reception
or between two, sets ORE, which RXNEIE lets interrupt and which only a read of SR and
then of DR clears. The handler's own part for it does neither, and looks at other
flags.

What a driver promises depends on how it is used, and each model has the other uses too.
A constant chooses among them, and the properties name the case they are about:

- `spi_tidy`: the application asks to receive before it asks to send, or sends only,
  and waits until the wire is quiet. Otherwise the handler may close the
  transmission between the load and the store of CR2 in `SPI_ReceiveDataIT`, and the
  store enables TXE again with nothing to send (`TxeOffWhenOver`, run `spi_order`).
- `us_prompt`: the task is not held up for a frame time between the load and the store
  of CR1. One that is preempted there stores TXEIE again after the handler has cleared
  it; TC closes the transmission, and the handler is entered for ever: `TxeOffWhenOver`
  is violated in that way too, by `SpiOrder.cfg` with the USART for its part. Even for a
  prompt task an overrun from before a reception has that effect, until a frame
  arrives (run `usart_overrun`).
- `patient`: the application does not begin another I2C transmission by interrupts while
  the bus is in the data phase of the last one. The driver tests its handle and not the
  bus, so otherwise the first byte goes out in front of the START and the
  transmission is reported complete (run `i2c_repeat`).
- `prompt`: a task that polls I2C is not preempted for a byte time. One that is
  acknowledges a byte too many, which the next transfer finds; `AckManaged` and the last
  part of `I2cFramesInOrder` are about prompt ones.

`TransfersKept` and `FramesInOrder` hold of USART tasks that are held up, too: what goes
wrong there is the processor's time and not the frames. `FramesInOrder` allows a frame
left over from before the transfer in front of the others, for the drivers that do not
empty DR: SPI, the polled USART, and the polled I2C of a task that is not prompt.

Of the hardware one thing is assumed, in guards with a comment (`SpiExchange`,
`HwReceive`): a frame takes longer than the latency of an interrupt.

`SpiPolling` is the other way to move bytes: `Telemetry_Send` polls TXE, RXNE and
BSY itself. A byte has a place, a transaction and a side; the hardware takes its
steps whenever it likes, so the task may be preempted between any two accesses.
The loop still exchanges whole packets, which is what allows `TelemetryLink` to
take a transaction for one step.

### Pins, interrupts, clocks, filter

In `GpioPort` a register is the set of its bits that are set, and a field is
cleared and set by the same operations on it as in the code, value for value; a
value that is wider than its field reaches its neighbours. A port without clock
takes no writes. `configured` is a history: what each pin was last asked to be.
`PinsKeepConfig` compares it with what the registers say, after any calls for the
other pins, and `asked_line` with the edges, the mask and the port of each interrupt
line. The port is the exception: `GPIO_Init` assigns the whole of EXTICR
(`stm32f446xx_gpio_driver.c:152`), so a line listens to the port it was asked for only
until another line of its register is configured, and to port A from then on, whatever
port that other line was asked for. `last_line` is the history that says which of the
two it is; the property is what the register holds, and a reader who takes the code's
comment for a promise should know that the port is not kept. Values are those of the
driver's tables, which fit their fields; the firmware's one exception is in `BoardStart`.

`InterruptConfig` has one action per driver function over the registers of the
NVIC. `asked_irq` is the history of what the drivers were asked, and `EnabledAsAsked`
what came of it: an interrupt below 64 is enabled until a driver disables it or any
other of its group of 32 (`*ICERx |=` reads what is enabled and disables it all); one
of the SPI, USART or I2C drivers from 64 on is never enabled, because they write ISER3 in
place of ISER2 (`stm32f446xx_spi_driver.c:354`, `stm32f446xx_usart_driver.c:580`,
`stm32f446xx_i2c_driver.c:491`; USART6 is interrupt 71).

`ClockRates` computes PCLK1 and PCLK2, BRR, CCR and TRISE as the code does,
with its widths, and `RatesExact` compares the result with the exact rate at every
prescaler these represent, for the rates the bus clock can reach. `MedianFilter`
is the ring buffer, the copy and the insertion sort over ranks of readings.

What these modules show beyond their properties. `PR |=` (line 436) clears
all pending lines and not one. Priorities are ORed in and can only
become larger. The firmware polls everything and calls none of these yet.
The RCC functions take a PLL for 0 Hz (PCLK1) or 8 MHz (PCLK2), the prescalers 256
and 512 become zero in a variable of eight bits, and TRISE of fast mode is truncated at 16 MHz.

### BoardStart

`Main` is the script of calls that `main` and its set-up functions make, one
entry for each pin, control register, transfer to the sensor, wait, task and line
of text, in the order of the code; `step` is the entry `main` is at. Once
`SysTick_Init` has run, the tick may come between any two entries. The hardware
is external: clocks gate register writes, an I2C without PE does not keep ACK, an
SPI master without SSI switches itself off, and the sensor may be missing, slow
to reset, or not acknowledge (`flaky`).

`ReadyWhenUsed` holds although `GSM_Button_Init` leaves `GPIO_PinOPType`
uninitialised (`StrayBits` says what may be there): the pins above the button that
it reaches are set up after it. It also holds although `I2C_Init` writes ACK before PE
is set, and so loses it: `BMP280_Init` reads one byte first, and a read of one
byte ends by setting ACK. The window in which a tick of the kernel finds no stack
to save to is in the model: such a behaviour ends "faulted", and
`FaultOnlyInWindow` says that there is no other.

## 3. Runs

| Run | Bounds | Shows |
|---|---|---|
| `priority` | 3 tasks | expected violation: the idle task runs while others are READY; the comments and the repository's README speak of priorities that `Task_SelectNext` never reads |
| `tasks` | 3 threads; capacity 2; 2 bits; 16-byte heap; 3 timers in 2 slots; 2 periodic functions, intervals 2 and 4, runs of 2 ticks, a counter modulo 16; 4 application tasks, intervals of 4, 8, 12 and 13 ticks, a reload of 15, two task tables | the services' invariants, the FIFO refinement, the scheduler's intervals across the wrap; watchdog served, packets at most 3 samples old and 2 apart under a free tick |
| `app_filtered` | the application of `tasks`, data path | expected violation: a packet with raw values |
| `remote` | 2 sockets, 2 lost connections, 2 commands; packets numbered modulo 4, 3 commands under way; interval 2, cooldown 3 loops, SMS 4 ticks; in the path one command, a cooldown of 2 and delays of one tick | a whole command raises the flag; the link never goes deaf and neither loses nor invents commands while the slave is prompt; commands are spaced and answered, one SMS per press; a command in the flag is texted or dropped by the cooldown; failed attempts leave no socket open |
| `gsm_spacing` | as the handler in `remote` | expected violation: the cooldown does not cover the button |
| `link_command` | late slave task | expected violation: a late response loses a command |
| `mqtt_order` | no losses | expected violation: "Publish to MQTT if socket is connected" tests a socket that is only open |
| `board` | 4 kernel tasks, delays of 1 and 2 ticks; transfers of 1 to 3 frames, one frame lost, polling and interrupts; polled packets of 4 bytes; 3 GPIO calls for 2 pins of 2 ports; 4 interrupts in 3 registers; all prescalers, 12 baud rates, 3 speeds; a window of 5 over 4 readings; a reset that takes up to 2 ticks of a wait of 3 | the kernel's invariants, the refinement of `DelayService`, and that each `Task_Delay` returns; each driver implements `ByteTransfer` and the polled loop `PacketExchange`; transfers end; pins keep their configuration, interrupts below 64 are enabled as asked and no others; all is set up before it is used and the tasks start; rates are exact and the median is that of the last five |
| `spi_order` | an application that is not tidy | expected violation: TXEIE is on after the transmission was closed |
| `usart_overrun` | a prompt task | expected violation: an overrun interrupts with no frame to fetch that would clear it |
| `i2c_repeat` | patient applications and others | expected violation: a transmission is reported complete whose bytes were not sent to the slave addressed |
| `init_claim` | a flaky bus | expected violation: `BMP280_Init` reports success with a sensor that is not set up |

Why the bounds are enough to be interesting. Four kernel tasks let two
sleepers wake in the same tick while a third is READY and Idle runs; two delays
let wake-ups coincide or not. Three threads let two waiters race while a third
holds or gives. A queue of two slots wraps, fills and empties. Three timers in
two slots make Start fail, and leave a hole to fill. The heap's 16 bytes admit
one or two of the requests 1 and 9. In `tasks` the tightest passing constants are
used: ages of 2, a skew of 1 and a reload of 14 ticks are violated. In `remote` an
SMS takes longer than a loop and shorter than the cooldown, as in the code, and
packets are numbered modulo 4 only to tell neighbours apart. Two losses and
two sockets let the third GOT_IP find no socket left. The path keeps the order of
the delays and not their ratios, since a trigger may come at any of its ticks.
Transfers of 1, 2 and 3 frames are all the cases the I2C code distinguishes, and
with a register in front of the shift register the third frame is the first to
wait. Three GPIO calls change a pin, its neighbour and the first again, with
configurations that differ in every field. A counter modulo
16 starts anywhere, so it wraps at every place of the loop. The sensor's wait is 10 ticks in
the code and 3 here, longer than its start-up time in both. Every prescaler of the clock
tree is considered, and every window of five readings of four ranks.

`CHECK_DEADLOCK FALSE` stands where the system may really stop. In `MCRemote.cfg` and
`MqttOrder.cfg` the client stops for good after a failed attempt or when the
broker closes the connection. In `MCBoard.cfg`, in `InitClaim.cfg` and in the three
configurations that look at one part of the board (`SpiOrder.cfg`,
`UsartOverrun.cfg`, `I2cRepeat.cfg`) a bus that is held low or a
slave that refuses a byte stops the I2C code (`Stuck`), which has no time limit
there, `main` ends in the tasks, in a fault or in the loop after a missing
sensor, and the calls of the GPIO driver are bounded.

Bounds in guards: `AgeCap` (ages from 6 on are one, above every age a property
mentions), `Spacing` (histories stop counting where the properties stop asking),
`MaxOwed` (3 commands under way or lost), `SeqSpan`, `Span`, `LenSpan` and
`TickSpan` (16 for 2^32), `MaxRun`, `MaxLost`, `MaxLosses`, `MaxCommands`,
`CallPin` and `MaxCalls` (GPIO calls), `Bauds`, `Speeds`. Everything else is finite
by itself: `overtaken` is bounded by what `BoundedOvertaking` asserts.

### Fairness

- `Kernel!FairSpec`, which `MCBoard!BoardFairness` states of the behaviours that exercise
  the kernel: SysTick is a timer that never stops, a pending PendSV is
  taken, and a task that is dispatched again and again eventually executes its
  next store, since a tick period is thousands of instructions. Nothing is
  assumed of `DelayArm` or `Yield`: a task need not call the kernel.
- `MCRemote!FairRemote` has the fairness of three modules.
  - `GsmHandler`: the tick, and that the kernel dispatches the handler, which is
    what `DelayReturns` shows of the kernel. `LetsGo` says that the handler is
    outside its wait for the release again and again, that is, that the user does
    not hold the button for ever: without it the wait never ends, and neither does
    the code's.
  - `TelemetryLink`: the master calls `Telemetry_Send` again and again and FreeRTOS
    runs the slave task.
  - `MqttClient`: FreeRTOS runs the tasks, and the station, which reconnects on
    every STA_DISCONNECTED, finds the access point in the end.
- `MCBoard!BoardFairness`, for the drivers and for start-up: a call that has begun goes on,
  pending handlers run and the peripherals move frames. A reception of the USART ends only
  if the other side sends; that is assumed (`Arrive`), the code has no time limit. `main` goes on,
  SysTick counts, and the sensor and the watchdog come up after they were started.
  `ExchangeExact` needs no fairness.

## 4. Proofs

TLAPS checks the following for every value of the constants that satisfies the
modules' assumptions.

- `KernelProofs`: `TypeOK`, `NoLostWakeup`, `NoEarlyReturn`, `OneRunning`,
  `BoundedOvertaking`, and that `Kernel` implements `DelayService`. The
  properties are not inductive on their own. The invariant adds where a BLOCKED
  task may stand in `Task_Delay`, that Idle is never BLOCKED and so the search
  of `Task_SelectNext` never falls back on a sleeper, and that the number of
  switches a READY task has seen is bounded by its ring distance from the
  current task. The last of these is what bounds overtaking for every number of
  tasks. Each action has a lemma.
- `KernelProofs`, tasks: `AppTasks` implements `Kernel` for every task table, so all of
  the above holds of the programmed tasks; and `NoWatchdogReset` for any number of
  tasks, under three hypotheses: no step takes longer than a third of a tick
  (`SliceSteps` >= 3), the watchdog task is created first and Idle last
  (`WatchdogFirst`, as `AppTasks_Init` does), and `Reload` is at least the delay of the
  watchdog task and 2 N ticks. The code has 8 tasks, a delay of 1 s and a reload of
  20 s. The invariant bounds the counter at each place of the watchdog task by the
  turns it still has to wait for: a tick for each task in front of it, once before it
  can block and once after it was woken. Its own turns are whole ones, since what
  precedes it in the ring is Idle, which only a tick ends; without that the free tick
  could cut every turn of it short. The bound is nearly tight: with four tasks and a
  delay of 8 the theorem asks for a reload of 16, the run `tasks` passes with 15, and 14 is
  violated.
- `ServiceProofs`, mutex: `OwnerInside` and `MutualExclusion`. The invariant adds
  that a thread between `cpsid i` and `cpsie i` is the current one and has interrupts
  masked, so at most one is there, and that a thread about to store the flag
  still finds it free.
- `ServiceProofs`, semaphore: `PermitsConserved` and `CountInRange`. The invariant adds
  that a thread in the critical section holds the processor, so one at most is
  there, and that the value it has loaded is still the count when it stores it.
  The set of threads need not be finite.
- `ServiceProofs`, event group: `BitsNotConsumedTwice`. The invariant adds who may be
  between its poll and its return: the one thread that masks interrupts. That is
  also the only one that changes the flags.
- `ServiceProofs`, heap: `BlocksDisjoint`. The invariant adds that blocks end below
  `heap_allocated`, which is a multiple of 8 inside the heap, and that the size
  computed before the critical section is the rounded size of the request.
- `QueueProofs`: `RingConsistent`, and that `Queue` implements `BoundedFifo` for any
  capacity. The invariant adds that what a thread saw under the mask, a free slot
  or an item, is still so when it acts on it; lemmas about the ring's arithmetic
  say that the slot written is the one behind the last item.
- `TimerProofs`, timers: `ListedOnce` whatever callbacks do, and `WalkExact` while none
  stops a timer, for any timers and any length of the array. The invariant adds
  what lies in front of the index of the walk (timers it has ticked) and at the
  index (the timer whose callback runs, which has run out); a callback that stops
  a timer breaks both, which is why the code reads the slot again after it.
- `TimerProofs`, scheduler: `EveryInterval` for any table, intervals, run times and
  width of the counter that `SchedAssumption` allows: a function is due well before
  the counter wraps. The invariant ties the two readings of the time to the
  histories that do not wrap: `last_run_ms` is behind `current_time` by `elapsed`
  less `drift` modulo the span, so the code's subtraction is the true distance;
  and it bounds `drift` by what the tasks of a pass may take, from its place in
  the table.
- `RemoteProofs`, link: `NeverDeaf` at any pace, and `NoPhantomCommand`,
  `CommandKeptIfPrompt` and `PublishesLatest`, under `LinkAssumption`. The invariant
  says, for each place of the slave task, which flags are up, what is in its
  response and what the shared buffer holds, and counts the commands under way.
- `RemoteProofs`, MQTT client: the type invariant of `MqttClient` and
  `FailedAttemptsClosed`. `mqtt_sock` is overwritten by `socket()` and after a failed
  `connect()`; the invariant adds that a socket which is open and not connected
  exists only while the handler waits for `connect()`, which is at neither place.
- `GsmProofs` and `RemoteProofs`, GSM handler: `CommandsSpaced` and `OnePressOneSms`, in
  every behaviour of `MCRemote`, where the handler runs by itself or at the end of
  the path; `GsmAssumption` (the delays are positive) is assumed of both instances.
  `GsmProofs` shows what a step of the handler keeps; in the path the link takes a
  step of its environment, since it raises the trigger or leaves the handler alone.
  The cooldown counts loops, so the invariant turns loops into time: every loop that
  has taken one off the cooldown had slept an interval before, and what the button
  adds only makes the SMS later. A button not let go since its SMS is down and waited for.
- `BoardProofs`, pins: `PinsKeepConfig` for any ports, pins and configurations whose
  values fit their fields, with the edges and the mask of each interrupt line and the
  port it really listens to. The invariant is that every register consists of fields of
  its width; lemmas say that setting a field changes no other, and that the four lines
  of an EXTICR register are the four fields of it.
- `BoardProofs`, start-up: `FaultOnlyInWindow` and `ReadyWhenUsed`, for any waits and
  stray bits, as long as the wait after the sensor's reset is longer than its start-up
  (`BoardAssumption` says that the pins of the script exist). The invariant is a table
  of places: what the script holds at each, and which entries main must have passed
  for a clock, a pin, a device, the sensor, the watchdog and the kernel's variables to
  be as they are. A pin that stray bits may reach stands in the table only from the
  entry that sets it up again, and ACK only from the first read of the sensor on.
- `DriverProofs`, polling: `ExchangeExact`, that the loop of `Telemetry_Send` implements
  `PacketExchange` for packets of any length. The invariant says which byte is in
  DR, in the shift register and in the receive register for each place of the
  loop; the master's read of every byte keeps the two at most one apart.
- `DriverProofs`, transfers: `InterruptsServed`, `FramesInOrder`, and that each driver
  implements `ByteTransfer` in both directions (`TransfersKept`), for transfers of any
  length the length counter holds and in every behaviour of `MCBoard`, whatever its
  applications and tasks are like. The properties themselves say which of them they are
  about: tidy ones for SPI, patient ones for I2C, and prompt ones for the USART part of
  `InterruptsServed`. The invariant counts frames: what the buffer has given, what is in
  the data and shift registers and what has arrived add up, so a frame in a register is
  the next one; the interrupt enables follow from the handle and from the place between
  load and store of the control register. For a USART task that is held up the enables
  do not follow, and what remains is enough for the frames: the handler writes no frame
  unless the handle has one. The SPI part has three cases: a reception open while nothing
  moves yet, both directions moving, and sending alone, where a frame nobody fetches
  stays in DR.
- `DriverProofs`, NVIC: `EnabledAsAsked`, for any sets of interrupts that reach the
  drivers. The invariant is the property with the types: a group of 32 is a register.
- `DriverProofs`, I2C: `AckManaged`, in every behaviour. The phases of a transfer
  (asking for the bus, sending, receiving) say where ACK is on and how many bytes
  the slave has given for those the buffer still wants.

`Kernel!TypeOK`, `Kernel!NoEarlyReturn`, `Kernel!OneRunning`, `Semaphore!CountInRange`,
`Queue!RingConsistent` and `AppSpec => Spec` are theorems that no run states as a property:
`DelayPromise`, `DelayReturns`, `PermitsConserved` and `FifoOrder` fail where they fail.

Only model-checked, and why:

- `RatesExact`: it is about the listed rates and false of others. Where the fraction
  of the divisor rounds up to sixteen sixteenths the code masks it to none, and
  the register is short of a whole unit; no standard rate meets this.
- `MedianOfLast`: the sort is a fold, and what it computes needs induction.
- `PacketFresh` and `SkewBounded`: under a tick that runs free, how long a loop takes depends
  on how much of its period each switch leaves, and no invariant is stated for that.
- All liveness: `DelayReturns`, `TransfersEnd`, `StartsInTheEnd`, `CommandRaised`,
  `CommandAnswered`, `CommandTexted`. The prover does not treat fairness and ENABLED.

## 5. Not modelled

- Drivers: 9- and 16-bit frames, `SPI_SendData` and `SPI_ReceiveData` (nothing
  calls them), I2C slave mode, USART error interrupts other than the overrun, its flow control,
  oversampling by 8, duty 16/9 (no caller sets them), the empty DeInit functions.
- GSM: the AT dialogue is a duration; its texts, its time limits and the values it
  reports are left out.
- Link and MQTT: `SPI_Slave_Init`, the layout of packets, formatted output.
- Arithmetic: the floating- and fixed-point arithmetic of the sensor, the IIR and
  the Kalman filter, out of TLC's reach.
- Kernel: the contents of stacks and registers in a context switch.
- Vendor start-up code, C library stubs, the SVC stub, the dashboard.

`PROJECT.json` lists every component with its status.

## 6. Plan

1. (done) Kernel and its promise; services; application tasks, GSM handler and
   link; proofs of kernel, mutex and heap.
2. (done) `MqttClient`; the drivers and `ByteTransfer`.
3. (done) The composition of link and handler, the cooperative scheduler, start-up,
   GPIO and interrupts, clocks and rates, the polled SPI transfer and its
   abstraction, the median filter; proofs of semaphore, queue, link and GPIO.
4. Models: the AT dialogue of `gsm.c` with its time limits, and with it the age of
   the values in an SMS; the slave mode of I2C.
5. (done) Proofs of event group, timers, scheduler, GSM handler, polled transfer,
   drivers with their refinements, start-up's last steps, and the watchdog.
6. (done) Proof of `ReadyWhenUsed` along the script. The uses of the drivers that fail, as
   runs of their own; a tick that runs free.
7. Proof: the age of the packets from the response times of the sensor's and the DSP's
   loops under that tick.
