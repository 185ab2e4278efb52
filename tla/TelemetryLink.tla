--------------------------- MODULE TelemetryLink ----------------------------
(***************************************************************************)
(* The SPI link between the two MCUs.  The STM32 is the master: in each    *)
(* transaction Telemetry_Send (Src/esp32-telemetry/spi_telemetry.c) shifts *)
(* a packet out and the content of the ESP32's buffer in.  On the ESP32    *)
(* spi_slave_task (telemetry_stm32.c) receives the packet, publishes it    *)
(* and loads the response of the next transaction into the same buffer     *)
(* (spi_slave.c); mqtt_rx_task (sms_controller.c) leaves commands of the   *)
(* dashboard in a flag for it.                                             *)
(*                                                                         *)
(* The transaction is one step.  The slave peripheral takes part in it     *)
(* only while cmd.usr is set, and clears cmd.usr and sets trans_done at    *)
(* its end; a slave that is not armed is taken to answer no magic word.    *)
(* The master leaves half a second between transactions: a slave task that *)
(* is back at its poll by then is "prompt"; a send() that blocks on a full *)
(* TCP window makes it late, and transactions then come at any moment.     *)
(***************************************************************************)
EXTENDS Integers, CommandFlag

CONSTANTS SeqSpan,    \* bound: packets are numbered modulo SeqSpan
          MaxOwed,    \* bound: commands that are under way or lost
          Paces       \* whether the slave task is prompt, the cases considered

\* What the constants have to satisfy.
LinkAssumption == /\ SeqSpan \in Nat \ {0} /\ MaxOwed \in Nat \ {0}
                  /\ Paces \subseteq BOOLEAN

VARIABLES seq,          \* current_timestamp of Telemetry_Send
          trigger,      \* trigger_sms_from_dashboard
          data_buf, trans_done, usr,   \* registers of SPI3
          slave_pc,     \* where spi_slave_task stands
          rx_packet,    \* what SPI_Slave_Receive returned
          resp,         \* the response being prepared
          prompt,       \* the pace of this behaviour
          owed          \* history: commands accepted and not yet heard

linkvars == <<seq, trigger, data_buf, trans_done, usr, slave_pc, rx_packet, resp,
          sms_trigger_pending, prompt, owed>>

spi3 == <<data_buf, trans_done, usr>>
stm32 == <<seq, trigger>>

Packet(n) == [kind |-> "telemetry", stamp |-> n]
Magic == [kind |-> "magic", stamp |-> 0]
Blank == [kind |-> "blank", stamp |-> 0]

Message == {Packet(n) : n \in 0 .. SeqSpan - 1} \cup {Magic, Blank}

LinkInit == /\ seq = 0 /\ trigger = FALSE
            /\ data_buf = Blank /\ trans_done = FALSE /\ usr = TRUE
            /\ slave_pc = "poll" /\ rx_packet = Blank /\ resp = Blank
            /\ sms_trigger_pending = FALSE
            /\ prompt \in Paces
            /\ owed = 0

-----------------------------------------------------------------------------
(* The STM32.                                                              *)

InTime == prompt => slave_pc = "poll" /\ ~trans_done

\* Telemetry_Send.
Exchange ==
  /\ InTime
  /\ seq' = (seq + 1) % SeqSpan
  /\ IF usr
     THEN /\ data_buf' = Packet(seq')
          /\ trans_done' = TRUE
          /\ usr' = FALSE
          /\ IF data_buf = Magic THEN trigger' = TRUE /\ owed' = owed - 1
                                 ELSE UNCHANGED <<trigger, owed>>
     ELSE UNCHANGED <<spi3, trigger, owed>>
  /\ UNCHANGED <<slave_pc, rx_packet, resp, sms_trigger_pending, prompt>>

\* The GSM task consumes the trigger (GsmHandler.tla).
ClearTrigger == /\ trigger
                /\ trigger' = FALSE
                /\ UNCHANGED <<seq, spi3, slave_pc, rx_packet, resp, sms_trigger_pending,
                               prompt, owed>>

-----------------------------------------------------------------------------
(* spi_slave_task.                                                         *)

SlaveGoto(from, to) == slave_pc = from /\ slave_pc' = to

\* Seeded fault: the buffer is read whether or not a transaction is done.
PollIgnoresDone == /\ SlaveGoto("poll", "copied")
                   /\ rx_packet' = data_buf
                   /\ UNCHANGED <<stm32, spi3, resp, sms_trigger_pending, prompt, owed>>

\* The poll of SPI_Slave_Receive succeeds.  When it runs into its time limit
\* the task calls it again.
Poll == /\ trans_done
        /\ SlaveGoto("poll", "copied")
        /\ rx_packet' = data_buf
        /\ UNCHANGED <<stm32, spi3, resp, sms_trigger_pending, prompt, owed>>

ClearDone == /\ SlaveGoto("copied", "cleared")
             /\ trans_done' = FALSE
             /\ UNCHANGED <<stm32, data_buf, usr, rx_packet, resp, sms_trigger_pending,
                            prompt, owed>>

Rearm == /\ SlaveGoto("cleared", "publish")
         /\ usr' = TRUE
         /\ UNCHANGED <<stm32, data_buf, trans_done, rx_packet, resp, sms_trigger_pending,
                        prompt, owed>>

\* The log and, if there is a socket, the MQTT message.
Publish == /\ SlaveGoto("publish", "respond")
           /\ resp' = Blank
           /\ UNCHANGED <<stm32, spi3, rx_packet, sms_trigger_pending, prompt, owed>>

TestPending == /\ IF sms_trigger_pending THEN SlaveGoto("respond", "take")
                                         ELSE SlaveGoto("respond", "load")
               /\ UNCHANGED <<stm32, spi3, rx_packet, resp, sms_trigger_pending, prompt, owed>>

\* Seeded fault: the flag is not reset.
TakeKeepsPending == /\ SlaveGoto("take", "load")
                    /\ resp' = Magic
                    /\ UNCHANGED <<stm32, spi3, rx_packet, sms_trigger_pending, prompt, owed>>

TakePending == /\ SlaveGoto("take", "load")
               /\ resp' = Magic
               /\ sms_trigger_pending' = FALSE
               /\ UNCHANGED <<stm32, spi3, rx_packet, prompt, owed>>

\* Seeded fault: the flag is reset once the response is loaded.
LoadThenReset == /\ SlaveGoto("load", "poll")
                 /\ data_buf' = resp
                 /\ sms_trigger_pending' = FALSE
                 /\ UNCHANGED <<stm32, trans_done, usr, rx_packet, resp, prompt, owed>>

\* SPI_Slave_LoadResponse.
LoadResponse == /\ SlaveGoto("load", "poll")
                /\ data_buf' = resp
                /\ UNCHANGED <<stm32, trans_done, usr, rx_packet, resp, sms_trigger_pending,
                               prompt, owed>>

\* Seeded fault: the slave is armed again before trans_done is reset.
SlaveTaskArmsFirst ==
  \/ /\ SlaveGoto("copied", "cleared")
     /\ usr' = TRUE
     /\ UNCHANGED <<stm32, data_buf, trans_done, rx_packet, resp, sms_trigger_pending,
                    prompt, owed>>
  \/ /\ SlaveGoto("cleared", "publish")
     /\ trans_done' = FALSE
     /\ UNCHANGED <<stm32, data_buf, usr, rx_packet, resp, sms_trigger_pending,
                    prompt, owed>>
  \/ Poll \/ Publish \/ TestPending \/ TakePending \/ LoadResponse

SlaveTask == Poll \/ ClearDone \/ Rearm \/ Publish \/ TestPending \/ TakePending
             \/ LoadResponse

-----------------------------------------------------------------------------
\* mqtt_rx_task has found a command; one that finds the flag set merges with it.
Command == /\ owed < MaxOwed
           /\ sms_trigger_pending' = TRUE
           /\ owed' = IF sms_trigger_pending THEN owed ELSE owed + 1
           /\ UNCHANGED <<stm32, spi3, slave_pc, rx_packet, resp, prompt>>

LinkNext == Exchange \/ ClearTrigger \/ SlaveTask \/ Command

LinkSpec == LinkInit /\ [][LinkNext]_linkvars

\* Telemetry_Send is called for ever and the slave task is scheduled.
FairLinkSpec == LinkSpec /\ WF_linkvars(Exchange) /\ WF_linkvars(SlaveTask)

-----------------------------------------------------------------------------
\* The link never goes deaf: a slave that is not armed has a transaction to
\* report, or its task is about to arm it, even when a transaction completes
\* while the task is late.  A slave in neither case would wait for ever.
NeverDeaf == ~usr /\ ~trans_done => slave_pc = "cleared"

\* A trigger on the STM32 comes from a command of the dashboard, each command
\* raises at most one, and telemetry echoed out of the shared buffer is never
\* taken for one, even when the slave task is late.
NoPhantomCommand == owed >= 0

\* Commands on their way from the flag to the STM32.
UnderWay == (IF sms_trigger_pending THEN 1 ELSE 0)
            + (IF slave_pc = "load" /\ resp = Magic THEN 1 ELSE 0)
            + (IF data_buf = Magic THEN 1 ELSE 0)

\* "Loads magic word into SPI TX buffer for next transaction": a command taken
\* from the flag is in the response, then in the buffer, until it is heard.
CommandKept == owed = UnderWay

\* The command channel loses and merges nothing while the slave task is
\* prompt, whatever the moment at which a command arrives.
CommandKeptIfPrompt == prompt => CommandKept

\* A prompt slave task publishes each packet: the one it has in hand is the
\* last one the STM32 has sent, and never a response of its own that it finds
\* in the shared buffer.
PublishesLatest == prompt /\ slave_pc = "publish" => rx_packet = Packet(seq)

\* A command reaches the GSM task while the slave task is prompt.
CommandHeard == prompt /\ sms_trigger_pending ~> trigger
=============================================================================
