----------------------------- MODULE MqttClient -----------------------------
(***************************************************************************)
(* The MQTT side of the ESP32: the life of the global socket mqtt_sock.    *)
(* wifi_event_handler (main.c) opens and connects it in the event loop     *)
(* task, spi_slave_task (telemetry_stm32.c) publishes on it and            *)
(* mqtt_rx_task (sms_controller.c) receives the commands of the dashboard  *)
(* from it.  Nothing protects it; each use reads it anew.                  *)
(*                                                                         *)
(* Wi-Fi, lwIP and the broker are external.  A socket is closed, open,     *)
(* connected, or, once its connection is gone, reset (recv returns) or     *)
(* dead (nobody noticed: recv waits for ever).  The broker drops a session *)
(* whose first packet is not CONNECT.                                      *)
(***************************************************************************)
EXTENDS Integers, Sequences, CommandFlag

CONSTANTS MaxSockets,    \* sockets lwIP can allocate
          PayloadLens,   \* lengths of the JSON text that is published
          MaxLosses,     \* bound: connections that are lost
          MaxCommands    \* bound: messages the dashboard sends

ASSUME MqttAssumption == /\ MaxSockets \in Nat \ {0} /\ PayloadLens \subseteq Nat
                         /\ MaxLosses \in Nat /\ MaxCommands \in Nat

VARIABLES events, wifi,        \* the queue of the event loop; the association
          handler, mqtt_sock,  \* where wifi_event_handler stands; the global
          sock, session, inbox,   \* of each socket: its state, the broker's
                               \* session, the chunks recv will return
          publisher,           \* where spi_slave_task stands
          receiver, rx_sock,   \* where mqtt_rx_task stands; the argument of recv
          losses, commands     \* counters of the bounds

net == <<sock, session, inbox>>
rx == <<receiver, rx_sock, sms_trigger_pending>>
world == <<events, wifi, losses, commands>>
vars == <<world, handler, mqtt_sock, net, publisher, rx>>

Socket == 0 .. MaxSockets - 1
None == -1

Init == /\ events = <<"STA_START">> /\ wifi = "off"
        /\ handler = "idle" /\ mqtt_sock = None
        /\ sock = [s \in Socket |-> "closed"] /\ session = [s \in Socket |-> "none"]
        /\ inbox = [s \in Socket |-> <<>>]
        /\ publisher = "idle" /\ receiver = "test" /\ rx_sock = None
        /\ sms_trigger_pending = FALSE
        /\ losses = 0 /\ commands = 0

-----------------------------------------------------------------------------
(* The packets of mqtt_server.c: their length, negative when it is refused. *)

\* The remaining length is written as one byte.
PacketLen(remaining, buf_len) == IF remaining > 127 THEN -2
                                 ELSE IF 2 + remaining > buf_len THEN -1
                                 ELSE 2 + remaining

ConnectLen == PacketLen(10 + 2 + 19, 128)
SubscribeLen == PacketLen(2 + 2 + 11 + 1, 128)
PublishLen(payload_len) == PacketLen(2 + 16 + payload_len, 512)

\* send(): what the broker makes of the packet.
Send(s, packet) ==
  IF s # None /\ sock[s] = "connected"
  THEN session' = [session EXCEPT ![s] =
         CASE @ = "none" -> IF packet = "CONNECT" THEN "up" ELSE "refused"
           [] @ = "up" /\ packet = "SUBSCRIBE" -> "subscribed"
           [] OTHER -> @]
  ELSE UNCHANGED session

-----------------------------------------------------------------------------
(* wifi_event_handler.                                                     *)

Goto(from, to) == handler = from /\ handler' = to

NextEvent(e) == events # <<>> /\ Head(events) = e /\ events' = Tail(events)

\* STA_START and STA_DISCONNECTED.
WifiConnect == /\ handler = "idle"
               /\ NextEvent("STA_START") \/ NextEvent("STA_DISCONNECTED")
               /\ wifi' = (IF wifi = "off" THEN "connecting" ELSE wifi)
               /\ UNCHANGED <<losses, commands, handler, mqtt_sock, net, publisher, rx>>

\* GOT_IP, with the DNS lookup; when that fails, nothing is tried again.
GotIp == /\ handler = "idle" /\ NextEvent("GOT_IP")
         /\ handler' \in {"idle", "resolved"}
         /\ UNCHANGED <<wifi, losses, commands, mqtt_sock, net, publisher, rx>>

Closed == {s \in Socket : sock[s] = "closed"}

\* The old value of mqtt_sock is overwritten without a close.
OpenSocket ==
  /\ IF Closed = {}
     THEN mqtt_sock' = None /\ Goto("resolved", "idle") /\ UNCHANGED net
     ELSE /\ mqtt_sock' \in Closed /\ Goto("resolved", "opened")
          /\ sock' = [sock EXCEPT ![mqtt_sock'] = "open"]
          /\ session' = [session EXCEPT ![mqtt_sock'] = "none"]
          /\ inbox' = [inbox EXCEPT ![mqtt_sock'] = <<>>]
  /\ UNCHANGED <<world, publisher, rx>>

Connect == /\ Goto("opened", "connected") /\ wifi = "up"
           /\ sock' = [sock EXCEPT ![mqtt_sock] = "connected"]
           /\ UNCHANGED <<world, mqtt_sock, session, inbox, publisher, rx>>

\* Seeded fault: the socket of a failed attempt is not closed.
ConnectFailsOpen == /\ Goto("opened", "failed")
                    /\ UNCHANGED <<world, mqtt_sock, net, publisher, rx>>

ConnectFails == /\ Goto("opened", "failed")
                /\ sock' = [sock EXCEPT ![mqtt_sock] = "closed"]
                /\ UNCHANGED <<world, mqtt_sock, session, inbox, publisher, rx>>

ForgetSocket == /\ Goto("failed", "idle")
                /\ mqtt_sock' = None
                /\ UNCHANGED <<world, net, publisher, rx>>

SendConnect == /\ Goto("connected", "waiting")
               /\ ConnectLen > 0 /\ Send(mqtt_sock, "CONNECT")
               /\ UNCHANGED <<world, mqtt_sock, sock, inbox, publisher, rx>>

SendSubscribe == /\ Goto("waiting", "idle")
                 /\ SubscribeLen > 0 /\ Send(mqtt_sock, "SUBSCRIBE")
                 /\ UNCHANGED <<world, mqtt_sock, sock, inbox, publisher, rx>>

Handler == \/ WifiConnect \/ GotIp \/ OpenSocket \/ Connect \/ ConnectFails
           \/ ForgetSocket \/ SendConnect \/ SendSubscribe

-----------------------------------------------------------------------------
(* spi_slave_task: "publish to MQTT if socket is connected".               *)

PublishTest == /\ publisher = "idle" /\ mqtt_sock # None
               /\ publisher' = "send"
               /\ UNCHANGED <<world, handler, mqtt_sock, net, rx>>

PublishSend(n) == /\ publisher = "send" /\ publisher' = "idle"
                  /\ IF PublishLen(n) > 0 THEN Send(mqtt_sock, "PUBLISH")
                                          ELSE UNCHANGED session
                  /\ UNCHANGED <<world, handler, mqtt_sock, sock, inbox, rx>>

Publisher == PublishTest \/ \E n \in PayloadLens : PublishSend(n)

-----------------------------------------------------------------------------
(* mqtt_rx_task.                                                           *)

RxTest == /\ receiver = "test" /\ mqtt_sock # None
          /\ receiver' = "call" /\ rx_sock' = mqtt_sock
          /\ UNCHANGED <<world, handler, mqtt_sock, net, publisher, sms_trigger_pending>>

\* mqtt_sock is not volatile: the compiler may read it once or twice.
RxCall == /\ receiver = "call" /\ receiver' = "recv"
          /\ rx_sock' \in {rx_sock, mqtt_sock}
          /\ UNCHANGED <<world, handler, mqtt_sock, net, publisher, sms_trigger_pending>>

HasData(s) == s # None /\ sock[s] # "closed" /\ inbox[s] # <<>>

\* Seeded fault: the loop goes on with the socket it has.
BackToRecv == receiver = "recv" /\ receiver' = "recv"

BackToTest == receiver = "recv" /\ receiver' = "test"

\* A chunk; the command is found only if it is not split.
RxChunk == /\ BackToTest /\ HasData(rx_sock)
           /\ sms_trigger_pending' = (sms_trigger_pending \/ Head(inbox[rx_sock]) = "command")
           /\ inbox' = [inbox EXCEPT ![rx_sock] = Tail(@)]
           /\ UNCHANGED <<world, handler, mqtt_sock, sock, session, publisher, rx_sock>>

\* recv() returns 0 or an error.
RxFails == /\ BackToTest /\ ~HasData(rx_sock)
           /\ rx_sock \notin {s \in Socket : sock[s] \in {"connected", "dead"}}
           /\ UNCHANGED <<world, handler, mqtt_sock, net, publisher, rx_sock,
                          sms_trigger_pending>>

Receiver == RxTest \/ RxCall \/ RxChunk \/ RxFails

\* External to this module: spi_slave_task takes the flag (TelemetryLink.tla).
FlagTaken == /\ sms_trigger_pending /\ sms_trigger_pending' = FALSE
             /\ UNCHANGED <<world, handler, mqtt_sock, net, publisher, receiver, rx_sock>>

-----------------------------------------------------------------------------
(* External: Wi-Fi, lwIP and the broker.                                   *)

Associate == /\ wifi = "connecting" /\ wifi' = "up"
             /\ events' = Append(events, "GOT_IP")
             /\ UNCHANGED <<losses, commands, handler, mqtt_sock, net, publisher, rx>>

Connected == {s \in Socket : sock[s] = "connected"}

LinkLost == /\ wifi = "up" /\ losses < MaxLosses
            /\ wifi' = "off" /\ losses' = losses + 1
            /\ events' = Append(events, "STA_DISCONNECTED")
            /\ \E fate \in {"dead", "reset"} :
                 sock' = [s \in Socket |-> IF s \in Connected THEN fate ELSE sock[s]]
            /\ UNCHANGED <<commands, handler, mqtt_sock, session, inbox, publisher, rx>>

\* The broker closes a connection: one that it has refused, or any one.
BrokerCloses(s) == /\ s \in Connected
                   /\ \/ session[s] = "refused" /\ UNCHANGED losses
                      \/ losses < MaxLosses /\ losses' = losses + 1
                   /\ sock' = [sock EXCEPT ![s] = "reset"]
                   /\ UNCHANGED <<events, wifi, commands, handler, mqtt_sock, session, inbox,
                                  publisher, rx>>

\* A message of the dashboard arrives, in one chunk or split in two.
Dashboard(s) == /\ s \in Connected /\ session[s] = "subscribed"
                /\ commands < MaxCommands /\ commands' = commands + 1
                /\ \E chunks \in {<<"command">>, <<"part", "part">>} :
                     inbox' = [inbox EXCEPT ![s] = @ \o chunks]
                /\ UNCHANGED <<events, wifi, losses, handler, mqtt_sock, sock, session,
                               publisher, rx>>

World == Associate \/ LinkLost \/ \E s \in Socket : BrokerCloses(s) \/ Dashboard(s)

Next == Handler \/ Publisher \/ Receiver \/ FlagTaken \/ World

Spec == Init /\ [][Next]_vars

\* The tasks are scheduled, and the access point is there in the end.
FairSpec == Spec /\ WF_vars(Handler) /\ WF_vars(Publisher) /\ WF_vars(Receiver)
                 /\ WF_vars(Associate)

-----------------------------------------------------------------------------
\* The global and the argument of recv are sockets or None, and every thread
\* stands where its code has a step.
TypeOK == /\ mqtt_sock \in Socket \cup {None} /\ rx_sock \in Socket \cup {None}
          /\ sock \in [Socket -> {"closed", "open", "connected", "dead", "reset"}]
          /\ handler \in {"idle", "resolved", "opened", "connected", "waiting", "failed"}
          /\ publisher \in {"idle", "send"} /\ receiver \in {"test", "call", "recv"}
          /\ sms_trigger_pending \in BOOLEAN /\ wifi \in {"off", "connecting", "up"}

\* A failed attempt leaves nothing behind: a socket that never got a
\* connection is in mqtt_sock, or closed.  (One that had a connection is left
\* open when the next GOT_IP replaces it.)
FailedAttemptsClosed == \A s \in Socket : sock[s] = "open" => s = mqtt_sock

\* "Publish to MQTT if socket is connected": a packet is not on its way to a
\* socket that has never been connected.
PublishesIfConnected == [][PublishTest => sock[mqtt_sock] # "open"]_vars

\* The receiving task waits in recv for a connection that is gone, and no
\* longer looks at mqtt_sock: nobody closes the old socket.
Deaf == receiver = "recv" /\ rx_sock # mqtt_sock /\ rx_sock # None /\ sock[rx_sock] = "dead"

\* A command that has arrived in one chunk raises the flag, unless the socket
\* is replaced first or the task is deaf.
CommandRaised ==
  \A s \in Socket :
    (s = mqtt_sock /\ \E i \in DOMAIN inbox[s] : inbox[s][i] = "command")
      ~> (sms_trigger_pending \/ s # mqtt_sock \/ Deaf)
=============================================================================
