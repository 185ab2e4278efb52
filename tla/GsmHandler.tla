----------------------------- MODULE GsmHandler -----------------------------
(***************************************************************************)
(* Task_GSM_Handler (Src/app/app_tasks.c) with the button and SMS routines *)
(* it calls (Src/gsm/gsm.c).  The task reads the button, sends an SMS when *)
(* it is pressed, then looks at the flag the SPI task raises for a command *)
(* of the dashboard, and keeps a cooldown for those commands only.         *)
(*                                                                         *)
(* Time is counted in ticks.  Task_Delay and delay_ms both keep the task   *)
(* from its next step for a number of ticks; after them it may be          *)
(* dispatched at once or any number of ticks later (Kernel.tla).  The SPI  *)
(* task and the button act between any two of its steps.                   *)
(***************************************************************************)
EXTENDS Integers

CONSTANTS Interval,    \* APP_GSM_HANDLER_INTERVAL_MS
          Settle,      \* Task_Delay before the SMS of a command
          Debounce,    \* delay_ms between the two readings of the button
          SendTicks,   \* the delays of GSM_SendSMS together
          HeldPoll,    \* delay_ms between two readings of a held button
          Cooldown     \* what sms_cooldown is set to

\* What the constants have to satisfy.
GsmAssumption == /\ {Interval, Settle, Debounce, SendTicks, HeldPoll} \subseteq Nat \ {0}
                 /\ Cooldown \in Nat

VARIABLES pc,             \* where the handler stands
          wait,           \* ticks before its next step
          sms_cooldown,
          trigger,        \* trigger_sms_from_dashboard
          pressed,        \* the button pulls its pin low
          quiet,          \* history: ticks since the last SMS of a command ended
          anyquiet,       \* history: ticks since the last SMS of any cause ended
          letgo           \* history: the button has been up since its last SMS

vars == <<pc, wait, sms_cooldown, trigger, pressed, quiet, anyquiet, letgo>>

\* The shortest time between two SMS of commands; histories stop counting there.
Spacing == Cooldown * Interval + Settle

Init == /\ pc = "loop"
        /\ wait = 0
        /\ sms_cooldown = 0
        /\ trigger = FALSE
        /\ pressed \in BOOLEAN
        /\ quiet = Spacing /\ anyquiet = Spacing
        /\ letgo = TRUE

\* The handler goes on from one place to the next, which takes some ticks.
Goto(from, to, ticks) == /\ pc = from
                         /\ wait = 0
                         /\ pc' = to
                         /\ wait' = ticks
                         /\ UNCHANGED pressed

-----------------------------------------------------------------------------
\* Seeded fault: every loop starts by forgetting the flag.
LoopTopForgets == /\ Goto("loop", "button", 0)
                  /\ sms_cooldown' = IF sms_cooldown > 0 THEN sms_cooldown - 1 ELSE 0
                  /\ trigger' = FALSE
                  /\ UNCHANGED <<quiet, anyquiet, letgo>>

\* The cooldown runs down; the values to report are copied (see AppTasks.tla).
LoopTop == /\ Goto("loop", "button", 0)
           /\ sms_cooldown' = IF sms_cooldown > 0 THEN sms_cooldown - 1 ELSE 0
           /\ UNCHANGED <<trigger, quiet, anyquiet, letgo>>

ReadButton == /\ IF pressed THEN Goto("button", "debounce", Debounce)
                            ELSE Goto("button", "trigger", 0)
              /\ UNCHANGED <<sms_cooldown, trigger, quiet, anyquiet, letgo>>

\* The second reading decides: the SMS is sent with the delays of GSM_SendSMS.
ReadAgain == /\ IF pressed THEN /\ Goto("debounce", "buttonSms", SendTicks)
                                /\ letgo' = FALSE
                           ELSE /\ Goto("debounce", "trigger", 0)
                                /\ UNCHANGED letgo
             /\ UNCHANGED <<sms_cooldown, trigger, quiet, anyquiet>>

ButtonSmsDone == /\ Goto("buttonSms", "release", 0)
                 /\ anyquiet' = 0
                 /\ UNCHANGED <<sms_cooldown, trigger, quiet, letgo>>

StillHeld == /\ pressed
             /\ Goto("release", "release", HeldPoll)
             /\ UNCHANGED <<sms_cooldown, trigger, quiet, anyquiet, letgo>>

\* Seeded fault: the handler does not wait for the release.
DoNotWaitForRelease == /\ Goto("release", "trigger", 0)
                       /\ UNCHANGED <<sms_cooldown, trigger, quiet, anyquiet, letgo>>

Released == /\ ~pressed
            /\ Goto("release", "trigger", 0)
            /\ UNCHANGED <<sms_cooldown, trigger, quiet, anyquiet, letgo>>

TestTrigger == /\ IF trigger THEN Goto("trigger", "clear", 0)
                             ELSE Goto("trigger", "sleep", Interval)
               /\ UNCHANGED <<sms_cooldown, trigger, quiet, anyquiet, letgo>>

ClearTrigger == /\ Goto("clear", "test", 0)
                /\ trigger' = FALSE
                /\ UNCHANGED <<sms_cooldown, quiet, anyquiet, letgo>>

\* Seeded fault: the last step of the cooldown is taken for its end.
TestCooldownEarly == /\ IF sms_cooldown <= 1 THEN Goto("test", "settle", Settle)
                                             ELSE Goto("test", "sleep", Interval)
                     /\ UNCHANGED <<sms_cooldown, trigger, quiet, anyquiet, letgo>>

\* During the cooldown the command is dropped.
TestCooldown == /\ IF sms_cooldown = 0 THEN Goto("test", "settle", Settle)
                                       ELSE Goto("test", "sleep", Interval)
                /\ UNCHANGED <<sms_cooldown, trigger, quiet, anyquiet, letgo>>

CommandSms == /\ Goto("settle", "commandSms", SendTicks)
              /\ UNCHANGED <<sms_cooldown, trigger, quiet, anyquiet, letgo>>

CommandSmsDone == /\ Goto("commandSms", "sleep", Interval)
                  /\ sms_cooldown' = Cooldown
                  /\ quiet' = 0 /\ anyquiet' = 0
                  /\ UNCHANGED <<trigger, letgo>>

Wake == /\ Goto("sleep", "loop", 0)
        /\ UNCHANGED <<sms_cooldown, trigger, quiet, anyquiet, letgo>>

Handler == \/ LoopTop \/ ReadButton \/ ReadAgain \/ ButtonSmsDone \/ StillHeld
           \/ Released \/ TestTrigger \/ ClearTrigger \/ TestCooldown \/ CommandSms
           \/ CommandSmsDone \/ Wake

-----------------------------------------------------------------------------
Later(n) == IF n < Spacing THEN n + 1 ELSE n

Tick == /\ wait' = IF wait > 0 THEN wait - 1 ELSE 0
        /\ quiet' = Later(quiet)
        /\ anyquiet' = Later(anyquiet)
        /\ UNCHANGED <<pc, sms_cooldown, trigger, pressed, letgo>>

\* Telemetry_Send has read the magic word.
RaiseTrigger == /\ trigger' = TRUE
                /\ UNCHANGED <<pc, wait, sms_cooldown, pressed, quiet, anyquiet, letgo>>

\* The user, or the contacts when they bounce.
MoveButton == /\ pressed' = ~pressed
              /\ letgo' = (letgo \/ pressed)
              /\ UNCHANGED <<pc, wait, sms_cooldown, trigger, quiet, anyquiet>>

Next == Handler \/ Tick \/ RaiseTrigger \/ MoveButton

Spec == Init /\ [][Next]_vars

\* The user does not keep the button down at every poll for ever: the wait for
\* the release ends.
LetsGo == []<>(pc # "release")

\* The tick runs, and the kernel dispatches the task (DelayReturns of Kernel.tla).
FairSpec == Spec /\ WF_vars(Tick) /\ WF_vars(Handler) /\ LetsGo

-----------------------------------------------------------------------------
\* Two SMS sent for commands are at least Cooldown intervals apart, although
\* the cooldown counts loops of the handler and not time, and commands and
\* presses arrive at any moment.
SpacedStep == pc = "settle" /\ pc' = "commandSms" => quiet = Spacing
CommandsSpaced == [][SpacedStep]_vars

\* One press sends one SMS: between two SMS of the button the button has been
\* up, however long it is held and however its contacts bounce.
OnePressOneSms == [][pc = "debounce" /\ pc' = "buttonSms" => letgo]_vars

\* A command that finds no cooldown running and no SMS on its way is answered
\* by an SMS, whatever the button does meanwhile.
CommandAnswered ==
  trigger /\ sms_cooldown = 0 /\ pc \notin {"settle", "commandSms"} ~> pc = "commandSms"

\* "5-second cooldown between SMS (prevents spam)": no SMS of any cause starts
\* within Cooldown intervals of the end of another.
SmsSpaced == [][pc # pc' /\ pc' \in {"commandSms", "buttonSms"} =>
                  anyquiet >= Cooldown * Interval]_vars
=============================================================================
