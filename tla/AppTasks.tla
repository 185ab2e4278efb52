------------------------------ MODULE AppTasks ------------------------------
(***************************************************************************)
(* The application tasks (Src/app/app_tasks.c) on the kernel of Kernel.tla: *)
(* the watchdog task, the data path sensor -> DSP -> SPI through global    *)
(* variables that no lock protects, and the tasks that only print.  The    *)
(* GSM task is in GsmHandler.tla.                                          *)
(*                                                                         *)
(* A task is a loop of stores, any of which a tick may separate from the   *)
(* next, followed by Task_Delay.  Measurements are abstracted to the stage *)
(* of the pipeline a variable holds and to its age: the number of samples  *)
(* the sensor has taken since the one the variable comes from.             *)
(*                                                                         *)
(* SysTick runs free.  No step takes longer than a third of its period     *)
(* (5333 cycles at 16 MHz): what does is cut into steps of its own,        *)
(* "busy".  So at least SliceSteps = 3 steps are executed between two      *)
(* ticks, by whichever tasks are dispatched in that time: one that another *)
(* has given way to late in the period may be preempted before its first.  *)
(***************************************************************************)
EXTENDS Kernel, Sequences

CONSTANTS Tables,     \* the task tables to consider: task -> the code it runs
          Interval,   \* the argument each code gives to Task_Delay
          Reload,     \* ticks from a refresh of the IWDG to the reset
          AgeCap,     \* bound: ages from AgeCap on are not told apart
          SliceSteps  \* steps executed between two ticks, unless Idle runs

Field == {"temperature", "pressure", "altitude"}
Output == Field \cup {"vertical_speed"}

\* The loops of the tasks, up to Task_Delay.  The burst of the sensor is nine
\* bytes at 100 kHz and pow() is computed in software; a packet is 20 bytes at
\* 250 kHz between two waiting loops.
Code == [
  watchdog |-> << <<"refresh">> >>,
  sensor |-> << <<"acquire">>, <<"busy">>, <<"busy">>, <<"busy">>,
                <<"store", "temperature">>, <<"store", "pressure">>,
                <<"busy">>, <<"store", "altitude">> >>,
  dsp |-> << <<"copy", "temperature">>, <<"copy", "pressure">>, <<"copy", "altitude">>,
             <<"filter", "temperature">>, <<"filter", "pressure">>,
             <<"filter", "vertical_speed">>, <<"filter", "altitude">> >>,
  spi |-> << <<"pack", "temperature">>, <<"pack", "pressure">>, <<"pack", "altitude">>,
             <<"pack", "vertical_speed">>, <<"send">>,
             <<"busy">>, <<"busy">>, <<"busy">>, <<"busy">> >>,
  print |-> << <<"print">> >>,
  idle |-> << >>]

ASSUME AppAssumption == /\ Tables \subseteq [Task -> DOMAIN Code]
                        /\ Interval \in [DOMAIN Code -> Delays]
                        /\ Reload \in Nat /\ AgeCap \in Nat /\ SliceSteps \in Nat

VARIABLES code,          \* the table of this behaviour
          line,          \* where each task stands in its code
          raw,           \* age of raw_temperature, raw_pressure, raw_altitude
          filt,          \* filt_* and dsp.vertical_speed: stage and age
          packet,        \* the packet Telemetry_Send is given
          iwdg,          \* ticks since the watchdog was refreshed
          ran            \* steps executed since the tick, up to SliceSteps

data == <<raw, filt, packet>>
appvars == <<code, line, data, iwdg, ran>>
allvars == <<vars, appvars>>

Zero == [f \in Output |-> [stage |-> "zero", age |-> 0]]

AppInit == /\ Init
           /\ code \in Tables
           /\ line = [t \in Task |-> 1]
           /\ raw = [f \in Field |-> 0]
           /\ filt = Zero /\ packet = Zero
           /\ iwdg = 0
           /\ ran \in 0 .. SliceSteps    \* SysTick runs since SysTick_Init

Older(n) == IF n < AgeCap THEN n + 1 ELSE n
Aged(values) == [f \in Output |-> IF values[f].stage = "zero" THEN values[f]
                                  ELSE [values[f] EXCEPT !.age = Older(@)]]

Runs(b) == \E t \in Task : code[t] = b

-----------------------------------------------------------------------------
(* The code of the tasks.                                                  *)

\* One more step since the tick.
Step == ran' = IF ran < SliceSteps THEN ran + 1 ELSE ran

\* Task t executes the given line of its code.
Does(t, op) == /\ Executes(t)
               /\ t # Idle
               /\ pc[t] = "code"
               /\ line[t] <= Len(Code[code[t]])
               /\ Code[code[t]][line[t]] = op
               /\ Step
               /\ UNCHANGED <<vars, code>>

Advance(t) == line' = [line EXCEPT ![t] = @ + 1]

\* Seeded fault: the key that is written does not reload the counter.
RefreshWrongKey(t) == /\ Does(t, <<"refresh">>)
                      /\ Advance(t)
                      /\ UNCHANGED <<data, iwdg>>

\* IWDG_Refresh.
Refresh(t) == /\ Does(t, <<"refresh">>)
              /\ Advance(t)
              /\ iwdg' = 0
              /\ UNCHANGED data

\* The I2C transfer of BMP280_ReadData begins: the sensor has a sample in hand,
\* of age 0, and everything held elsewhere is one sample older.
Acquire(t) == /\ Does(t, <<"acquire">>)
              /\ Advance(t)
              /\ raw' = [f \in Field |-> Older(raw[f])]
              /\ filt' = Aged(filt)
              /\ packet' = Aged(packet)
              /\ UNCHANGED iwdg

\* *temperature = ..., *pressure = ..., *altitude = ...
Store(t, f) == /\ Does(t, <<"store", f>>)
               /\ Advance(t)
               /\ raw' = [raw EXCEPT ![f] = 0]
               /\ UNCHANGED <<filt, packet, iwdg>>

\* filt_* = raw_*: the filtered variable holds a raw value until it is filtered.
Copy(t, f) == /\ Does(t, <<"copy", f>>)
              /\ Advance(t)
              /\ filt' = [filt EXCEPT ![f] = [stage |-> "raw", age |-> raw[f]]]
              /\ UNCHANGED <<raw, packet, iwdg>>

\* DSP_Process, one Cascade_Update per field; the one of the altitude stores
\* the vertical speed before it returns.
Filter(t, f) ==
  LET of == IF f = "vertical_speed" THEN "altitude" ELSE f
  IN  /\ Does(t, <<"filter", f>>)
      /\ Advance(t)
      /\ filt' = [filt EXCEPT ![f] = [stage |-> "filtered", age |-> filt[of].age]]
      /\ UNCHANGED <<raw, packet, iwdg>>

\* The arguments of Telemetry_Send are loaded one after the other.
Pack(t, f) == /\ Does(t, <<"pack", f>>)
              /\ Advance(t)
              /\ packet' = [packet EXCEPT ![f] = filt[f]]
              /\ UNCHANGED <<raw, filt, iwdg>>

\* Telemetry_Send begins; the packet is a local variable and goes with it.
Send(t) == /\ Does(t, <<"send">>)
           /\ Advance(t)
           /\ packet' = Zero
           /\ UNCHANGED <<raw, filt, iwdg>>

\* A task that prints keeps the USART busy for as long as it takes.
PrintLine(t) == /\ Does(t, <<"print">>)
                /\ Advance(t) \/ UNCHANGED line
                /\ UNCHANGED <<data, iwdg>>

\* Part of a transfer or of a calculation.
KeepBusy(t) == /\ Does(t, <<"busy">>)
               /\ Advance(t)
               /\ UNCHANGED <<data, iwdg>>

CodeStep(t) == \/ Refresh(t) \/ Acquire(t) \/ Send(t) \/ PrintLine(t) \/ KeepBusy(t)
               \/ \E f \in Field : Store(t, f) \/ Copy(t, f)
               \/ \E f \in Output : Filter(t, f) \/ Pack(t, f)

-----------------------------------------------------------------------------
(* The kernel.                                                             *)

\* Seeded fault: the sensor task runs without Task_Delay.
LoopDelay(t) ==
  /\ Step
  /\ UNCHANGED <<code, data, iwdg>>
  /\ \/ /\ line[t] > Len(Code[code[t]])
        /\ IF code[t] = "sensor"
           THEN Executes(t) /\ pc[t] = "code" /\ UNCHANGED vars /\ line' = [line EXCEPT ![t] = 1]
           ELSE DelayArm(t, Interval[code[t]]) /\ UNCHANGED line
     \/ (DelayBlock(t) \/ DelayYield(t)) /\ UNCHANGED line
     \/ DelayReturn(t) /\ line' = [line EXCEPT ![t] = 1]

\* Task_Delay at the end of the loop, and back to the top when it returns.
AppDelay(t) ==
  /\ Step
  /\ UNCHANGED <<code, data, iwdg>>
  /\ \/ /\ line[t] > Len(Code[code[t]])
        /\ DelayArm(t, Interval[code[t]])
        /\ UNCHANGED line
     \/ (DelayBlock(t) \/ DelayYield(t)) /\ UNCHANGED line
     \/ DelayReturn(t) /\ line' = [line EXCEPT ![t] = 1]

\* The IWDG counts on by itself; Reload ticks without a refresh reset the MCU.
\* Tables without the watchdog task leave it out.  While Idle runs the tick may
\* come at any time.
AppTick == /\ ran = SliceSteps
           /\ SysTick
           /\ ran' = 0
           /\ iwdg' = IF Runs("watchdog") /\ iwdg < Reload THEN iwdg + 1 ELSE iwdg
           /\ UNCHANGED <<code, line, data>>

AppSwitch == /\ PendSV
             /\ ran' = IF current_tcb' = Idle THEN SliceSteps ELSE ran
             /\ UNCHANGED <<code, line, data, iwdg>>

AppNext == \/ \E t \in Task : CodeStep(t) \/ AppDelay(t)
           \/ AppTick
           \/ AppSwitch

AppSpec == AppInit /\ [][AppNext]_allvars

-----------------------------------------------------------------------------
\* The watchdog task, one task among others in the round robin, refreshes the
\* IWDG in time however long the other tasks stay busy.  It is created first, so
\* that it follows Idle in the ring and no other task uses up its tick.
NoWatchdogReset == Runs("watchdog") => iwdg < Reload

\* A task has packed its packet and is about to send it.
Sending == \E t \in Task : /\ line[t] <= Len(Code[code[t]])
                           /\ Code[code[t]][line[t]] = <<"send">>

\* The values of a packet come from samples at most two apart, although the
\* sensor, the DSP and the SPI task may be interrupted between any two of
\* their accesses: one sample for a tear in the raw variables and one for a
\* tear in the filtered ones.
SkewBounded == Sending =>
  \A f, g \in Output : /\ packet[f].stage # "zero" /\ packet[g].stage # "zero"
                        => packet[f].age - packet[g].age <= 2

\* No value of a packet is more than three samples old: one being stored while
\* the DSP task copies, one for its own loop and one for the packing.
PacketFresh == Sending =>
  \A f \in Output : packet[f].stage # "zero" => packet[f].age <= 3

\* Telemetry_SPI "packs filtered data": no packet holds a raw value.
PacketsFiltered == Sending => \A f \in Output : packet[f].stage # "raw"
=============================================================================
