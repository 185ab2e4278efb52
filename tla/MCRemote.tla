------------------------------ MODULE MCRemote ------------------------------
(***************************************************************************)
(* Model checking the way of a command from the dashboard to the SMS: the  *)
(* MQTT client and the slave task of the ESP32, the SPI link, and the GSM  *)
(* handler of the STM32.  One behaviour exercises one of them, at the      *)
(* moments that its environment is free to choose, or the "path" from the  *)
(* flag on the ESP32 to the SMS, in which the link and the handler share   *)
(* the trigger: one raises it, the other takes it.                         *)
(***************************************************************************)
EXTENDS MqttClient, TelemetryLink

CONSTANTS Interval, Settle, Debounce, SendTicks, HeldPoll, Cooldown,   \* of GsmHandler
          PathCooldown   \* Cooldown in the path, whose other delays are one tick

VARIABLES gsm_pc, wait, sms_cooldown, pressed, quiet, anyquiet, letgo,   \* of GsmHandler,
                         \* which shares the variable trigger with TelemetryLink
          part           \* what this behaviour exercises

G == INSTANCE GsmHandler WITH pc <- gsm_pc

\* The handler and the link of the path.
P == INSTANCE GsmHandler WITH pc <- gsm_pc, Interval <- 1, Settle <- 1, Debounce <- 1,
                              SendTicks <- 1, HeldPoll <- 1, Cooldown <- PathCooldown
Q == INSTANCE TelemetryLink WITH SeqSpan <- 2, MaxOwed <- 1

ASSUME RemoteAssumption == G!GsmAssumption /\ LinkAssumption /\ P!GsmAssumption
                           /\ Q!LinkAssumption

handlervars == <<gsm_pc, wait, sms_cooldown, pressed, quiet, anyquiet, letgo>>
slavevars == <<seq, data_buf, trans_done, usr, slave_pc, rx_packet, resp, prompt, owed>>
mqttvars == <<world, handler, mqtt_sock, net, publisher, receiver, rx_sock>>
remotevars == <<part, handlervars, slavevars, mqttvars, trigger, sms_trigger_pending>>

\* Behaviours that do not exercise the link, or the button, are counted once.
\* In those of the MQTT client nobody counts the commands in the flag, and the
\* pace of the slave task is not prompt, which promises nothing of them.
RemoteInit == /\ part \in {"gsm", "link", "mqtt", "path"}
              /\ Init /\ LinkInit
              /\ IF part = "path" THEN P!Init ELSE G!Init
              /\ part \in {"gsm", "path"} => prompt
              /\ part = "mqtt" => ~prompt
              /\ part \in {"mqtt", "link"} => ~pressed

-----------------------------------------------------------------------------
\* A step of one of them, by itself.
InGsm(A) == part = "gsm" /\ A
            /\ UNCHANGED <<part, slavevars, mqttvars, sms_trigger_pending>>
InLink(A) == part = "link" /\ A /\ UNCHANGED <<part, handlervars, mqttvars>>
InMqtt(A) == part = "mqtt" /\ A /\ UNCHANGED <<part, handlervars, slavevars, trigger>>

\* In the path: the transaction, in which Telemetry_Send may raise the trigger,
\* the slave task and the command in the flag; or the GSM handler, which takes
\* the trigger, its button and its time.
OnLink(A) == part = "path" /\ A /\ UNCHANGED <<part, handlervars, mqttvars>>
OnHandler(A) == part = "path" /\ A
                /\ UNCHANGED <<part, slavevars, mqttvars, sms_trigger_pending>>

RemoteNext == \/ InGsm(G!Next) \/ InLink(LinkNext) \/ InMqtt(Next)
              \/ OnLink(Q!Exchange \/ Q!SlaveTask \/ Q!Command)
              \/ OnHandler(P!Handler \/ P!Tick \/ P!MoveButton)

\* A, where one is exercised by itself, B in the path.
Either(alone, A, B) == (part = alone /\ A) \/ (part = "path" /\ B)

gsmvars == G!vars

RemoteSpec == RemoteInit /\ [][RemoteNext]_remotevars

\* The fairness of MqttClient, TelemetryLink and GsmHandler, each where the
\* behaviour exercises it.
FairRemote ==
  /\ RemoteSpec
  /\ WF_vars(part = "mqtt" /\ Handler) /\ WF_vars(part = "mqtt" /\ Publisher)
  /\ WF_vars(part = "mqtt" /\ Receiver) /\ WF_vars(part = "mqtt" /\ Associate)
  /\ WF_linkvars(Either("link", Exchange, Q!Exchange))
  /\ WF_linkvars(Either("link", SlaveTask, Q!SlaveTask))
  /\ WF_gsmvars(Either("gsm", G!Tick, P!Tick))
  /\ WF_gsmvars(Either("gsm", G!Handler, P!Handler))
  /\ G!LetsGo

-----------------------------------------------------------------------------
(* The properties of GsmHandler, as they are stated there.                 *)

\* Two SMS sent for commands are at least Cooldown intervals apart, although
\* the cooldown counts loops of the handler and not time.
CommandsSpaced == [][/\ part = "gsm" => G!SpacedStep
                     /\ part = "path" => P!SpacedStep]_remotevars

\* One press sends one SMS, however long it is held and however it bounces.
OnePressOneSms == G!OnePressOneSms

\* A command that finds no cooldown running and no SMS on its way is answered.
CommandAnswered == part = "gsm" => G!CommandAnswered

-----------------------------------------------------------------------------
\* Dropped by the cooldown, which the handler tests after it has taken the
\* trigger.
Dropped == gsm_pc = "test" /\ sms_cooldown > 0

\* A command in the flag of the ESP32 ends in an SMS, or is dropped by the
\* cooldown: neither side loses it between the response, the shared buffer, the
\* transaction, the trigger and the button, whatever their relative pace.
CommandTexted == part = "path" /\ sms_trigger_pending ~> gsm_pc = "commandSms" \/ Dropped
=============================================================================
