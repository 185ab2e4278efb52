----------------------------- MODULE GsmProofs ------------------------------
(***************************************************************************)
(* What Task_GSM_Handler promises of its SMS, for every value of its       *)
(* delays and of the cooldown that GsmAssumption allows.                   *)
(*                                                                         *)
(* The cooldown counts loops of the handler.  The invariant turns loops    *)
(* into time: each loop that has taken one off the cooldown had slept for  *)
(* an interval before, and what the button adds only makes it later.       *)
(***************************************************************************)
EXTENDS GsmHandler, TLAPS

HandlerPlace == {"loop", "button", "debounce", "buttonSms", "release", "trigger", "clear",
                 "test", "settle", "commandSms", "sleep"}

GsmTypeOK == /\ pc \in HandlerPlace
             /\ wait \in Nat /\ sms_cooldown \in 0 .. Cooldown
             /\ trigger \in BOOLEAN /\ pressed \in BOOLEAN /\ letgo \in BOOLEAN
             /\ quiet \in 0 .. Spacing

\* The ticks that the loops since the last SMS of a command have slept.
Slept(c) == (Cooldown - c) * Interval

\* The history shows n ticks, or as many as it counts.
QuietFor(n) == quiet >= n \/ quiet = Spacing

\* How long it has been quiet: what the cooldown says, the sleep that the next
\* loop takes off it, and the delay before the SMS.
QuietLongEnough ==
  /\ QuietFor(Slept(sms_cooldown))
  /\ pc = "sleep" => wait <= Interval
  /\ pc = "sleep" /\ sms_cooldown > 0 => QuietFor(Slept(sms_cooldown) + Interval - wait)
  /\ pc = "loop" /\ sms_cooldown > 0 => QuietFor(Slept(sms_cooldown) + Interval)
  /\ pc = "settle" => wait <= Settle /\ QuietFor(Slept(0) + Settle - wait)
  /\ pc \in {"settle", "commandSms"} => sms_cooldown = 0

\* A button that has not been let go since its last SMS is down, and the handler
\* waits for it.
HeldSinceSms == ~letgo => pressed /\ pc \in {"buttonSms", "release"}

GsmInv == GsmTypeOK /\ QuietLongEnough /\ HeldSinceSms

-----------------------------------------------------------------------------
\* The numbers: what the loops have slept grows by an interval with each, and
\* reaches the spacing, short of the delay before the SMS, with the last.
LEMMA SleptNumbers ==
  ASSUME GsmAssumption
  PROVE  /\ Slept(Cooldown) = 0
         /\ Slept(0) + Settle = Spacing
         /\ Spacing \in Nat
         /\ \A c \in 0 .. Cooldown : Slept(c) \in Nat /\ Slept(c) <= Slept(0)
         /\ \A c \in 1 .. Cooldown : /\ Slept(c - 1) = Slept(c) + Interval
                                    /\ Slept(c) + Interval <= Slept(0)
<1>. USE DEF GsmAssumption
<1>1. \A m, n \in Nat : m * n \in Nat
  OBVIOUS
<1>2. Slept(Cooldown) = 0
  BY DEF Slept
<1>3. Slept(0) = Cooldown * Interval /\ Cooldown * Interval \in Nat
  BY <1>1 DEF Slept
<1>4. ASSUME NEW c \in 0 .. Cooldown
      PROVE  Slept(c) \in Nat /\ Slept(c) <= Slept(0)
  <2>1. Cooldown - c \in Nat /\ c \in Nat
    OBVIOUS
  <2>2. Slept(c) \in Nat /\ c * Interval \in Nat
    BY <1>1, <2>1 DEF Slept
  <2>3. Cooldown * Interval = Slept(c) + c * Interval
    BY <2>1 DEF Slept
  <2>. QED  BY <1>3, <2>2, <2>3
<1>5. ASSUME NEW c \in 1 .. Cooldown
      PROVE  Slept(c - 1) = Slept(c) + Interval /\ Slept(c) + Interval <= Slept(0)
  <2>1. Slept(c - 1) = Slept(c) + Interval
    BY DEF Slept
  <2>2. c - 1 \in 0 .. Cooldown
    OBVIOUS
  <2>. QED  BY <1>4, <2>1, <2>2
<1>. QED  BY <1>2, <1>3, <1>4, <1>5 DEF Spacing

\* The initial state satisfies the inductive invariant.
LEMMA GsmInitInv == GsmAssumption /\ Init => GsmInv
<1>. SUFFICES ASSUME GsmAssumption, Init PROVE GsmInv
  OBVIOUS
<1>1. GsmTypeOK
  <2>1. quiet \in 0 .. Spacing
    BY SleptNumbers DEF Init
  <2>2. wait \in Nat /\ sms_cooldown \in 0 .. Cooldown
    BY DEF Init, GsmAssumption
  <2>. QED  BY <2>1, <2>2, Zenon DEF Init, GsmTypeOK, HandlerPlace
<1>2. QuietLongEnough
  BY DEF Init, QuietLongEnough, QuietFor
<1>3. HeldSinceSms
  BY DEF Init, HeldSinceSms
<1>. QED  BY <1>1, <1>2, <1>3 DEF GsmInv

\* The steps of the handler that neither start nor end a sleep, nor a delay
\* before an SMS, nor a loop.
LEMMA HandlerStepInv ==
  ASSUME GsmAssumption, GsmInv,
         \/ ReadButton \/ ReadAgain \/ ButtonSmsDone \/ StillHeld \/ Released
         \/ ClearTrigger
  PROVE  GsmInv'
<1>. USE DEF GsmInv, GsmTypeOK, HandlerPlace, GsmAssumption, QuietLongEnough, QuietFor,
             HeldSinceSms, Goto, Slept, Spacing
<1>1. CASE ReadButton
  BY <1>1 DEF ReadButton
<1>2. CASE ReadAgain
  BY <1>2 DEF ReadAgain
<1>3. CASE ButtonSmsDone
  BY <1>3 DEF ButtonSmsDone
<1>4. CASE StillHeld
  BY <1>4 DEF StillHeld
<1>5. CASE Released
  BY <1>5 DEF Released
<1>6. CASE ClearTrigger
  BY <1>6 DEF ClearTrigger
<1>. QED  BY <1>1, <1>2, <1>3, <1>4, <1>5, <1>6

\* A loop takes one off the cooldown for the interval that it has slept.
LEMMA LoopTopInv ==
  ASSUME GsmAssumption, GsmInv, LoopTop
  PROVE  GsmInv'
<1>. USE DEF GsmInv
<1>1. /\ pc = "loop" /\ pc' = "button" /\ wait' = 0
      /\ UNCHANGED <<pressed, trigger, quiet, letgo>>
      /\ sms_cooldown' = IF sms_cooldown > 0 THEN sms_cooldown - 1 ELSE 0
  BY DEF LoopTop, Goto
<1>2. sms_cooldown \in 0 .. Cooldown /\ sms_cooldown' \in 0 .. Cooldown
      /\ Cooldown \in Nat
  BY <1>1 DEF GsmTypeOK, GsmAssumption
<1>3. GsmTypeOK'
  <2>1. quiet' \in (0 .. Spacing)'
    BY <1>1 DEF GsmTypeOK, Spacing
  <2>. QED  BY <1>1, <1>2, <2>1 DEF GsmTypeOK, HandlerPlace
<1>4. QuietFor(Slept(sms_cooldown'))
  <2>1. CASE sms_cooldown > 0
    <3>1. Slept(sms_cooldown - 1) = Slept(sms_cooldown) + Interval
      BY <1>2, <2>1, SleptNumbers
    <3>. QED  BY <1>1, <2>1, <3>1 DEF QuietLongEnough
  <2>2. CASE sms_cooldown = 0
    BY <1>1, <2>2 DEF QuietLongEnough
  <2>. QED  BY <1>2, <2>1, <2>2
<1>5. QuietLongEnough'
  BY <1>1, <1>4 DEF QuietLongEnough, QuietFor, Slept, Spacing
<1>6. HeldSinceSms'
  BY <1>1 DEF HeldSinceSms
<1>. QED  BY <1>3, <1>5, <1>6

\* The handler goes to sleep, or into the delay before the SMS of a command.
LEMMA DecideInv ==
  ASSUME GsmAssumption, GsmInv, TestTrigger \/ TestCooldown
  PROVE  GsmInv'
<1>. USE DEF GsmInv
<1>1. /\ \/ pc = "trigger" /\ pc' = "clear" /\ wait' = 0
         \/ pc \in {"trigger", "test"} /\ pc' = "sleep" /\ wait' = Interval
         \/ pc = "test" /\ sms_cooldown = 0 /\ pc' = "settle" /\ wait' = Settle
      /\ UNCHANGED <<pressed, sms_cooldown, trigger, quiet, letgo>>
  BY DEF TestTrigger, TestCooldown, Goto
<1>2. GsmTypeOK'
  BY <1>1 DEF GsmTypeOK, HandlerPlace, GsmAssumption, Spacing
<1>3. sms_cooldown \in 0 .. Cooldown /\ Interval \in Nat /\ Settle \in Nat /\ Cooldown \in Nat
  BY DEF GsmTypeOK, GsmAssumption
<1>4. Slept(sms_cooldown) \in Nat /\ Slept(0) \in Nat
  BY <1>3, SleptNumbers
<1>5. /\ Slept(sms_cooldown) + Interval - Interval = Slept(sms_cooldown)
      /\ Slept(0) + Settle - Settle = Slept(0)
  BY <1>3, <1>4
<1>6. QuietLongEnough'
  <2>1. QuietFor(Slept(sms_cooldown))
    BY DEF QuietLongEnough
  <2>2. CASE pc' = "clear"
    BY <1>1, <2>1, <2>2 DEF QuietLongEnough, QuietFor, Slept, Spacing
  <2>3. CASE pc' = "sleep"
    <3>1. wait' = Interval /\ sms_cooldown' = sms_cooldown /\ quiet' = quiet
      BY <1>1, <2>3
    <3>2. QuietFor(Slept(sms_cooldown) + Interval - wait')
      BY <1>5, <2>1, <3>1
    <3>3. QuietFor(Slept(sms_cooldown))' /\ QuietFor(Slept(sms_cooldown) + Interval - wait)'
      BY <2>1, <3>1, <3>2 DEF QuietFor, Slept, Spacing
    <3>. QED  BY <1>3, <2>3, <3>1, <3>3 DEF QuietLongEnough
  <2>4. CASE pc' = "settle"
    <3>1. wait' = Settle /\ sms_cooldown' = 0 /\ sms_cooldown = 0 /\ quiet' = quiet
      BY <1>1, <2>4
    <3>2. QuietFor(Slept(0) + Settle - wait')
      BY <1>5, <2>1, <3>1
    <3>3. QuietFor(Slept(sms_cooldown))' /\ QuietFor(Slept(0) + Settle - wait)'
      BY <2>1, <3>1, <3>2 DEF QuietFor, Slept, Spacing
    <3>. QED  BY <1>3, <2>4, <3>1, <3>3 DEF QuietLongEnough
  <2>. QED  BY <1>1, <2>2, <2>3, <2>4
<1>7. HeldSinceSms'
  BY <1>1 DEF HeldSinceSms
<1>. QED  BY <1>2, <1>6, <1>7

\* The SMS of a command: it starts after the delay, and its end starts the
\* cooldown and the history anew.
LEMMA CommandSmsInv ==
  ASSUME GsmAssumption, GsmInv, CommandSms \/ CommandSmsDone
  PROVE  GsmInv'
<1>. USE DEF GsmInv
<1>1. CASE CommandSms
  <2>1. /\ pc = "settle" /\ pc' = "commandSms" /\ wait' = SendTicks
        /\ UNCHANGED <<pressed, sms_cooldown, trigger, quiet, letgo>>
    BY <1>1 DEF CommandSms, Goto
  <2>2. GsmTypeOK' /\ HeldSinceSms'
    BY <2>1 DEF GsmTypeOK, HandlerPlace, GsmAssumption, Spacing, HeldSinceSms
  <2>3. QuietLongEnough'
    BY <2>1 DEF QuietLongEnough, QuietFor, Slept, Spacing
  <2>. QED  BY <2>2, <2>3
<1>2. CASE CommandSmsDone
  <2>1. /\ pc = "commandSms" /\ pc' = "sleep" /\ wait' = Interval
        /\ sms_cooldown' = Cooldown /\ quiet' = 0
        /\ UNCHANGED <<pressed, trigger, letgo>>
    BY <1>2 DEF CommandSmsDone, Goto
  <2>2. GsmTypeOK' /\ HeldSinceSms'
    BY <2>1, SleptNumbers
    DEF GsmTypeOK, HandlerPlace, GsmAssumption, Spacing, HeldSinceSms
  <2>3. Slept(Cooldown) = 0 /\ Slept(Cooldown) + Interval - Interval = 0
        /\ Interval \in Nat
    BY SleptNumbers DEF GsmAssumption
  <2>4. QuietFor(Slept(sms_cooldown))' /\ QuietFor(Slept(sms_cooldown) + Interval - wait)'
    BY <2>1, <2>3 DEF QuietFor, Slept
  <2>. QED  BY <2>1, <2>2, <2>3, <2>4 DEF QuietLongEnough
<1>. QED  BY <1>1, <1>2

\* A sleep that ends has lasted for an interval.
LEMMA WakeInv ==
  ASSUME GsmAssumption, GsmInv, Wake
  PROVE  GsmInv'
<1>. USE DEF GsmInv
<1>1. /\ pc = "sleep" /\ pc' = "loop" /\ wait = 0 /\ wait' = 0
      /\ UNCHANGED <<pressed, sms_cooldown, trigger, quiet, letgo>>
  BY DEF Wake, Goto
<1>2. GsmTypeOK' /\ HeldSinceSms'
  BY <1>1 DEF GsmTypeOK, HandlerPlace, Spacing, HeldSinceSms
<1>3. sms_cooldown > 0 => QuietFor(Slept(sms_cooldown) + Interval)
  <2>1. /\ sms_cooldown \in 0 .. Cooldown /\ Slept(sms_cooldown) \in Nat
        /\ Interval \in Nat
    BY SleptNumbers DEF GsmTypeOK, GsmAssumption
  <2>2. Slept(sms_cooldown) + Interval - wait = Slept(sms_cooldown) + Interval
    BY <1>1, <2>1
  <2>. QED  BY <1>1, <2>2 DEF QuietLongEnough
<1>4. QuietLongEnough'
  BY <1>1, <1>3 DEF QuietLongEnough, QuietFor, Slept, Spacing
<1>. QED  BY <1>2, <1>4

\* A tick: the delay gets shorter by as much as the history gets longer.
LEMMA TickInv ==
  ASSUME GsmAssumption, GsmInv, Tick
  PROVE  GsmInv'
<1>. USE DEF GsmInv
<1>1. /\ wait' = IF wait > 0 THEN wait - 1 ELSE 0
      /\ quiet' = IF quiet < Spacing THEN quiet + 1 ELSE quiet
      /\ UNCHANGED <<pc, sms_cooldown, trigger, pressed, letgo>>
  BY DEF Tick, Later
<1>2. /\ wait \in Nat /\ wait' \in Nat /\ quiet \in 0 .. Spacing /\ Spacing \in Nat
      /\ quiet' \in 0 .. Spacing /\ quiet' >= quiet
  BY <1>1, SleptNumbers DEF GsmTypeOK
<1>3. GsmTypeOK' /\ HeldSinceSms'
  BY <1>1, <1>2 DEF GsmTypeOK, Spacing, HeldSinceSms
<1>4. \A n \in Int : QuietFor(n) => quiet' >= n \/ quiet' = Spacing
  BY <1>1, <1>2 DEF QuietFor
<1>5. \A n \in Int : QuietFor(n - wait) => quiet' >= n - wait' \/ quiet' = Spacing \/ wait = 0
  BY <1>1, <1>2 DEF QuietFor
<1>6. \A n \in Int : QuietFor(n - wait) => quiet' >= n - wait' \/ quiet' = Spacing
  BY <1>1, <1>2, <1>4, <1>5
<1>7. /\ sms_cooldown \in 0 .. Cooldown /\ Cooldown \in Nat /\ Interval \in Nat
      /\ Settle \in Nat
  BY DEF GsmTypeOK, GsmAssumption
<1>8. /\ Slept(sms_cooldown) \in Int /\ Slept(sms_cooldown) + Interval \in Int
      /\ Slept(0) + Settle \in Int
  BY <1>7, SleptNumbers
<1>9. Slept(sms_cooldown') = Slept(sms_cooldown)
  BY <1>1
<1>10. QuietLongEnough'
  <2>1. QuietFor(Slept(sms_cooldown))'
    BY <1>4, <1>8, <1>9 DEF QuietLongEnough, QuietFor, Slept, Spacing
  <2>2. pc = "sleep" => wait' <= Interval
    BY <1>1, <1>2, <1>7 DEF QuietLongEnough
  <2>3. pc = "sleep" /\ sms_cooldown > 0 =>
          quiet' >= Slept(sms_cooldown) + Interval - wait' \/ quiet' = Spacing
    <3>. DEFINE n == Slept(sms_cooldown) + Interval
    <3>1. /\ Slept(sms_cooldown) + Interval - wait = n - wait
          /\ Slept(sms_cooldown) + Interval - wait' = n - wait'
          /\ n \in Int
      BY <1>2, <1>7, <1>8, SleptNumbers
    <3>. HIDE DEF n
    <3>2. pc = "sleep" /\ sms_cooldown > 0 => QuietFor(n - wait)
      BY <3>1 DEF QuietLongEnough
    <3>3. QuietFor(n - wait) => quiet' >= n - wait' \/ quiet' = Spacing
      BY <1>6, <3>1
    <3>. QED  BY <3>1, <3>2, <3>3
  <2>4. pc = "loop" /\ sms_cooldown > 0 =>
          quiet' >= Slept(sms_cooldown) + Interval \/ quiet' = Spacing
    BY <1>4, <1>8 DEF QuietLongEnough
  <2>5. pc = "settle" => /\ wait' <= Settle
                         /\ quiet' >= Slept(0) + Settle - wait' \/ quiet' = Spacing
    BY <1>1, <1>2, <1>6, <1>7, <1>8 DEF QuietLongEnough
  <2>. QED  BY <1>1, <2>1, <2>2, <2>3, <2>4, <2>5 DEF QuietLongEnough, QuietFor, Slept, Spacing
<1>. QED  BY <1>3, <1>10

\* Every step keeps the inductive invariant.
LEMMA GsmNextInv ==
  ASSUME GsmAssumption, GsmInv, [Next]_vars
  PROVE  GsmInv'
<1>1. CASE Handler
  BY <1>1, HandlerStepInv, LoopTopInv, DecideInv, CommandSmsInv, WakeInv DEF Handler
<1>2. CASE Tick
  BY <1>2, TickInv
<1>3. CASE RaiseTrigger \/ MoveButton \/ UNCHANGED vars
  BY <1>3 DEF RaiseTrigger, MoveButton, vars, GsmInv, GsmTypeOK, HandlerPlace,
              QuietLongEnough, QuietFor, HeldSinceSms, Slept, Spacing
<1>. QED  BY <1>1, <1>2, <1>3 DEF Next

\* The inductive invariant holds throughout.
LEMMA GsmSpecInv == GsmAssumption => (Spec => []GsmInv)
<1>. SUFFICES ASSUME GsmAssumption PROVE Spec => []GsmInv
  OBVIOUS
<1>1. ASSUME GsmInv, [Next]_vars
      PROVE  GsmInv'
  BY <1>1, GsmNextInv
<1>. QED  BY <1>1, GsmInitInv, PTL DEF Spec

-----------------------------------------------------------------------------
\* The SMS of a command starts when it has been quiet for the spacing.
LEMMA GsmNextSpaced ==
  ASSUME GsmAssumption, GsmInv, Next
  PROVE  SpacedStep
<1>1. ASSUME pc = "settle", pc' = "commandSms"
      PROVE  quiet = Spacing
  <2>1. wait = 0
    BY <1>1 DEF Next, Handler, LoopTop, ReadButton, ReadAgain, ButtonSmsDone,
       StillHeld, Released, TestTrigger, ClearTrigger, TestCooldown, CommandSms,
       CommandSmsDone, Wake, Goto, Tick, RaiseTrigger, MoveButton
  <2>2. QuietFor(Slept(0) + Settle - wait) /\ quiet \in 0 .. Spacing
    BY <1>1 DEF GsmInv, QuietLongEnough, GsmTypeOK
  <2>3. /\ Slept(0) + Settle = Spacing /\ Spacing \in Nat
        /\ Slept(0) \in Nat /\ Settle \in Nat
    BY SleptNumbers DEF GsmAssumption
  <2>4. Slept(0) + Settle - wait = Spacing
    BY <2>1, <2>3
  <2>. QED  BY <2>2, <2>3, <2>4 DEF QuietFor
<1>. QED  BY <1>1 DEF SpacedStep

\* The handler passes from the second reading to an SMS of the button only if
\* the button has been up since the last one.
LEMMA GsmLetGo == GsmInv => (pc = "debounce" => letgo)
BY DEF GsmInv, GsmTypeOK, HeldSinceSms

\* Between two SMS of commands lie at least the intervals of the cooldown and the
\* delay before the SMS, although the cooldown counts loops and not time.
THEOREM HandlerSpacesCommands == GsmAssumption => (Spec => CommandsSpaced)
<1>. SUFFICES ASSUME GsmAssumption PROVE Spec => CommandsSpaced
  OBVIOUS
<1>1. GsmInv /\ [Next]_vars => [SpacedStep]_vars
  BY GsmNextSpaced
<1>. QED  BY <1>1, GsmSpecInv, PTL DEF Spec, CommandsSpaced

\* Before each SMS of the button the button has been up since the last one.
THEOREM HandlerNeedsPress == GsmAssumption => (Spec => OnePressOneSms)
<1>. SUFFICES ASSUME GsmAssumption PROVE Spec => OnePressOneSms
  OBVIOUS
<1>1. GsmInv /\ [Next]_vars => [pc = "debounce" /\ pc' = "buttonSms" => letgo]_vars
  BY GsmLetGo
<1>. QED  BY <1>1, GsmSpecInv, PTL DEF Spec, OnePressOneSms
=============================================================================
