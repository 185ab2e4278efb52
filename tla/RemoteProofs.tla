---------------------------- MODULE RemoteProofs ----------------------------
(***************************************************************************)
(* The safety of the two parts of the ESP32 that a command passes: the SPI *)
(* link, for every span, every number of commands and both paces of the    *)
(* slave task, and the MQTT client, for every number of sockets, losses    *)
(* and commands; and of the GSM handler on the STM32 behind the link.      *)
(***************************************************************************)
EXTENDS MCRemote, TLAPS

-----------------------------------------------------------------------------
(* The SPI link.                                                           *)
(*                                                                         *)
(* NeverDeaf needs nothing else.  What becomes of a command needs where    *)
(* the task stands: it takes the flag only while it is set, and it is not  *)
(* preparing a response while it decides.  At any pace a command under way *)
(* is one that is owed (Owed); at a prompt pace the buffer holds a command *)
(* only while the task polls, and a packet from the exchange until it is   *)
(* published (PromptBuffer), so that none is overwritten.                  *)

Flags == /\ trans_done \in BOOLEAN /\ usr \in BOOLEAN
         /\ sms_trigger_pending \in BOOLEAN /\ prompt \in BOOLEAN

\* The response is blank until the flag is found set, and then it is taken.
Response == /\ slave_pc \in {"respond", "take"} => resp = Blank
            /\ slave_pc = "take" => sms_trigger_pending

\* At any pace no more commands are under way than are owed.
Owed == UnderWay <= owed

\* A prompt task: commands wait in the buffer only while it polls.
PromptBuffer == prompt =>
  /\ data_buf = Magic => slave_pc = "poll" /\ ~trans_done
  /\ slave_pc = "poll" /\ trans_done => data_buf = Packet(seq)
  /\ slave_pc \in {"copied", "cleared", "publish"} => rx_packet = Packet(seq)
  /\ slave_pc \in {"cleared", "publish", "respond", "take", "load"} => ~trans_done

LinkControl == Flags /\ NeverDeaf /\ Response /\ PromptBuffer

LinkCounts == owed \in Int /\ Owed /\ CommandKeptIfPrompt

LinkInv == LinkControl /\ LinkCounts

-----------------------------------------------------------------------------
\* The three kinds of content of the buffer differ.
LEMMA Kinds == \A n : Packet(n) # Magic /\ Packet(n) # Blank /\ Blank # Magic
BY DEF Packet, Magic, Blank

\* The number of commands under way is a number.
LEMMA UnderWayType == UnderWay \in 0 .. 3
BY DEF UnderWay

\* The initial state satisfies the invariant of the link.
LEMMA LinkInitInv == LinkAssumption /\ LinkInit => LinkInv
<1>. SUFFICES ASSUME LinkAssumption, LinkInit PROVE LinkInv
  OBVIOUS
<1>1. LinkControl
  BY Kinds DEF LinkAssumption, LinkInit, LinkControl, Flags, NeverDeaf, Response, PromptBuffer
<1>2. UnderWay = 0
  BY Kinds DEF LinkInit, UnderWay
<1>. QED  BY <1>1, <1>2 DEF LinkInit, LinkInv, LinkCounts, Owed, CommandKeptIfPrompt, CommandKept

\* Where the task stands, the registers and the buffer.
LEMMA NextLinkControl ==
  ASSUME LinkControl, LinkNext
  PROVE  LinkControl'
<1>. USE Kinds DEF LinkControl, Flags, NeverDeaf, Response, PromptBuffer, SlaveGoto, spi3, stm32
<1>1. CASE Exchange
  BY <1>1 DEF Exchange, InTime
<1>2. CASE Poll
  BY <1>2 DEF Poll
<1>3. CASE ClearDone
  BY <1>3 DEF ClearDone
<1>4. CASE Rearm
  BY <1>4 DEF Rearm
<1>5. CASE Publish \/ TestPending
  BY <1>5 DEF Publish, TestPending
<1>6. CASE TakePending
  BY <1>6 DEF TakePending
<1>7. CASE LoadResponse
  BY <1>7 DEF LoadResponse
<1>8. CASE Command
  BY <1>8 DEF Command
<1>9. CASE ClearTrigger
  BY <1>9 DEF ClearTrigger
<1>. QED  BY <1>1, <1>2, <1>3, <1>4, <1>5, <1>6, <1>7, <1>8, <1>9 DEF LinkNext, SlaveTask

\* A step that counts a command exactly: as many are under way more, or less,
\* as are owed more, or less.
LEMMA Counted ==
  ASSUME LinkCounts, NEW d \in Int, owed' = owed + d, UnderWay' = UnderWay + d,
         UNCHANGED prompt
  PROVE  LinkCounts'
BY UnderWayType DEF LinkCounts, Owed, CommandKeptIfPrompt, CommandKept

\* A step that loses one, which a prompt task does not make.
LEMMA Lost ==
  ASSUME LinkCounts, owed' = owed, UnderWay' \in Int, UnderWay' <= UnderWay, ~prompt,
         UNCHANGED prompt
  PROVE  LinkCounts'
BY UnderWayType DEF LinkCounts, Owed, CommandKeptIfPrompt

\* A transaction: the command that leaves the buffer is heard.
LEMMA ExchangeCounts ==
  ASSUME LinkInv, Exchange
  PROVE  LinkCounts'
<1>. USE Kinds DEF Exchange, spi3
<1>1. CASE usr /\ data_buf = Magic
  <2>1. owed' = owed - 1 /\ UnderWay' = UnderWay - 1
    BY <1>1 DEF UnderWay
  <2>. QED  BY <2>1, UnderWayType, Counted DEF LinkInv, LinkCounts
<1>2. CASE ~(usr /\ data_buf = Magic)
  <2>1. owed' = owed /\ UnderWay' = UnderWay
    BY <1>2 DEF UnderWay
  <2>. QED  BY <2>1, UnderWayType, Counted DEF LinkInv, LinkCounts
<1>. QED  BY <1>1, <1>2

\* The slave task moves a command from the flag to the response and on to the
\* buffer, where only a late one finds another.
LEMMA SlaveCounts ==
  ASSUME LinkInv, SlaveTask
  PROVE  LinkCounts'
<1>. USE Kinds DEF SlaveGoto, spi3, stm32
<1>1. CASE Poll \/ ClearDone \/ Rearm \/ Publish \/ TestPending
  <2>1. owed' = owed /\ prompt' = prompt /\ UnderWay' = UnderWay
    BY <1>1 DEF Poll, ClearDone, Rearm, Publish, TestPending, UnderWay, LinkInv, LinkControl,
                Response
  <2>. QED  BY <2>1, UnderWayType, Counted DEF LinkInv, LinkCounts
<1>2. CASE TakePending
  <2>1. sms_trigger_pending /\ slave_pc = "take" /\ slave_pc' = "load" /\ resp' = Magic
        /\ sms_trigger_pending' = FALSE
        /\ UNCHANGED <<data_buf, owed, prompt>>
    BY <1>2 DEF TakePending, LinkInv, LinkControl, Response
  <2>2. UnderWay' = UnderWay
    BY <2>1 DEF UnderWay
  <2>. QED  BY <2>1, <2>2, UnderWayType, Counted DEF LinkInv, LinkCounts
<1>3. CASE LoadResponse
  <2>1. /\ slave_pc = "load" /\ slave_pc' = "poll" /\ data_buf' = resp
        /\ UNCHANGED <<sms_trigger_pending, owed, prompt>>
    BY <1>3 DEF LoadResponse
  <2>2. CASE data_buf # Magic
    <3>1. UnderWay' = UnderWay
      BY <2>1, <2>2 DEF UnderWay
    <3>. QED  BY <2>1, <3>1, UnderWayType, Counted DEF LinkInv, LinkCounts
  <2>3. CASE data_buf = Magic
    <3>1. ~prompt
      BY <2>1, <2>3 DEF LinkInv, LinkControl, PromptBuffer
    <3>2. UnderWay' \in Int /\ UnderWay' <= UnderWay
      BY <2>1, <2>3 DEF UnderWay
    <3>. QED  BY <2>1, <3>1, <3>2, Lost DEF LinkInv
  <2>. QED  BY <2>2, <2>3
<1>. QED  BY <1>1, <1>2, <1>3 DEF SlaveTask

\* A command is counted once, when it sets the flag.
LEMMA CommandCounts ==
  ASSUME LinkInv, Command \/ ClearTrigger
  PROVE  LinkCounts'
<1>. USE DEF spi3, stm32
<1>1. CASE Command /\ ~sms_trigger_pending
  <2>1. owed' = owed + 1 /\ prompt' = prompt /\ UnderWay' = UnderWay + 1
    BY <1>1 DEF Command, UnderWay
  <2>. QED  BY <2>1, Counted DEF LinkInv, LinkCounts
<1>2. CASE ClearTrigger \/ (Command /\ sms_trigger_pending)
  <2>1. owed' = owed /\ prompt' = prompt /\ UnderWay' = UnderWay
    BY <1>2 DEF Command, ClearTrigger, UnderWay
  <2>. QED  BY <2>1, UnderWayType, Counted DEF LinkInv, LinkCounts
<1>. QED  BY <1>1, <1>2

\* The inductive invariant holds throughout.
LEMMA LinkSpecInv == LinkAssumption /\ LinkSpec => []LinkInv
<1>1. ASSUME LinkInv, [LinkNext]_linkvars
      PROVE  LinkInv'
  <2>1. CASE LinkNext
    BY <1>1, <2>1, NextLinkControl, ExchangeCounts, SlaveCounts, CommandCounts DEF LinkNext, LinkInv
  <2>2. CASE UNCHANGED linkvars
    BY <1>1, <2>2 DEF linkvars, LinkInv, LinkControl, Flags, NeverDeaf, Response, PromptBuffer,
       LinkCounts, Owed, CommandKeptIfPrompt, CommandKept, UnderWay
  <2>. QED  BY <1>1, <2>1, <2>2
<1>. QED  BY <1>1, LinkInitInv, PTL DEF LinkSpec

-----------------------------------------------------------------------------
\* SPI_Slave_Receive never leaves the slave unarmed for ever, at any pace.
THEOREM LinkNeverDeaf == LinkAssumption /\ LinkSpec => []NeverDeaf
<1>1. LinkInv => NeverDeaf
  BY DEF LinkInv, LinkControl
<1>. QED  BY <1>1, LinkSpecInv, PTL

\* Telemetry_Send raises a trigger only for a command, at any pace.
THEOREM LinkInventsNothing == LinkAssumption /\ LinkSpec => []NoPhantomCommand
<1>1. LinkInv => NoPhantomCommand
  BY UnderWayType DEF LinkInv, LinkCounts, Owed, NoPhantomCommand
<1>. QED  BY <1>1, LinkSpecInv, PTL

\* A prompt spi_slave_task loses no command.
THEOREM LinkKeepsCommands == LinkAssumption /\ LinkSpec => []CommandKeptIfPrompt
<1>1. LinkInv => CommandKeptIfPrompt
  BY DEF LinkInv, LinkCounts
<1>. QED  BY <1>1, LinkSpecInv, PTL

\* A prompt spi_slave_task publishes the last packet sent.
THEOREM LinkPublishesLatest == LinkAssumption /\ LinkSpec => []PublishesLatest
<1>1. LinkInv => PublishesLatest
  BY DEF LinkInv, LinkControl, PromptBuffer, PublishesLatest
<1>. QED  BY <1>1, LinkSpecInv, PTL
-----------------------------------------------------------------------------
(* The MQTT client.                                                        *)
(*                                                                         *)
(* FailedAttemptsClosed is not inductive: mqtt_sock is overwritten twice,  *)
(* by socket() and after a failed connect().  The invariant says where the *)
(* handler stands while a socket is open and not connected, which is       *)
(* neither place.                                                          *)

\* Only the handler that waits for connect() has such a socket, in mqtt_sock.
OpenWhileConnecting ==
  \A s \in Socket : sock[s] = "open" => handler = "opened" /\ s = mqtt_sock

\* Between socket() and connect() the global is a socket.
OpenedIsSocket == handler = "opened" => mqtt_sock \in Socket

SocketInv == TypeOK /\ OpenWhileConnecting /\ OpenedIsSocket

\* The value of mqtt_sock without a socket is the number of none.
LEMMA NoneIsNoSocket == None \notin Socket
  BY SMT DEF None, Socket

\* The handler's steps: it alone opens and closes sockets and writes mqtt_sock.
LEMMA HandlerPreserves == SocketInv /\ Handler => SocketInv'
<1> SUFFICES ASSUME SocketInv, Handler PROVE SocketInv'
  OBVIOUS
<1> USE DEF SocketInv, TypeOK, OpenWhileConnecting, OpenedIsSocket
<1>1. CASE WifiConnect
  BY <1>1 DEF WifiConnect, net, rx
<1>2. CASE GotIp
  BY <1>2 DEF GotIp, net, rx
<1>3. CASE OpenSocket
  BY <1>3 DEF OpenSocket, Closed, Goto, net, rx, world
<1>4. CASE Connect
  BY <1>4 DEF Connect, Goto, world, rx
<1>5. CASE ConnectFails
  BY <1>5 DEF ConnectFails, Goto, world, rx
<1>6. CASE ForgetSocket
  BY <1>6 DEF ForgetSocket, Goto, world, net, rx
<1>7. CASE SendConnect
  BY <1>7 DEF SendConnect, Goto, world, rx
<1>8. CASE SendSubscribe
  BY <1>8 DEF SendSubscribe, Goto, world, rx
<1> QED
  BY <1>1, <1>2, <1>3, <1>4, <1>5, <1>6, <1>7, <1>8 DEF Handler

\* The two other tasks only read mqtt_sock.
LEMMA TasksPreserve == SocketInv /\ (Publisher \/ Receiver \/ FlagTaken) => SocketInv'
<1> SUFFICES ASSUME SocketInv, Publisher \/ Receiver \/ FlagTaken PROVE SocketInv'
  OBVIOUS
<1> USE DEF SocketInv, TypeOK, OpenWhileConnecting, OpenedIsSocket
<1>1. CASE Publisher
  BY <1>1 DEF Publisher, PublishTest, PublishSend, world, net, rx
<1>2. CASE RxTest \/ RxCall
  BY <1>2 DEF RxTest, RxCall, world, net
<1>3. CASE RxChunk \/ RxFails
  BY <1>3 DEF RxChunk, RxFails, BackToTest, world, net
<1>4. CASE FlagTaken
  BY <1>4 DEF FlagTaken, world, net
<1> QED
  BY <1>1, <1>2, <1>3, <1>4 DEF Receiver

\* Wi-Fi and the broker end connections; an open socket has none.
LEMMA WorldPreserves == SocketInv /\ World => SocketInv'
<1> SUFFICES ASSUME SocketInv, World PROVE SocketInv'
  OBVIOUS
<1> USE DEF SocketInv, TypeOK, OpenWhileConnecting, OpenedIsSocket
<1>1. CASE Associate
  BY <1>1 DEF Associate, net, rx
<1>2. CASE LinkLost
  BY <1>2 DEF LinkLost, Connected, rx
<1>3. ASSUME NEW s \in Socket, BrokerCloses(s) PROVE SocketInv'
  BY <1>3 DEF BrokerCloses, Connected, rx
<1>4. ASSUME NEW s \in Socket, Dashboard(s) PROVE SocketInv'
  BY <1>4 DEF Dashboard, rx
<1> QED
  BY <1>1, <1>2, <1>3, <1>4 DEF World

\* The invariant of the sockets holds throughout.
LEMMA SocketSpecInv == Spec => []SocketInv
<1>1. Init => SocketInv
  BY NoneIsNoSocket DEF Init, SocketInv, TypeOK, OpenWhileConnecting, OpenedIsSocket
<1>2. SocketInv /\ [Next]_vars => SocketInv'
  <2> SUFFICES ASSUME SocketInv, [Next]_vars PROVE SocketInv'
    OBVIOUS
  <2>1. CASE Next
    BY <2>1, HandlerPreserves, TasksPreserve, WorldPreserves DEF Next
  <2>2. CASE UNCHANGED vars
    BY <2>2 DEF vars, world, net, rx, SocketInv, TypeOK, OpenWhileConnecting, OpenedIsSocket
  <2> QED
    BY <2>1, <2>2
<1> QED
  BY <1>1, <1>2, PTL DEF Spec

\* Every thread and every socket stays in one of its states.
THEOREM TypeCorrect == Spec => []TypeOK
  BY SocketSpecInv, PTL DEF SocketInv

\* A socket that never got a connection is in mqtt_sock or closed, whatever
\* fails and however often, in wifi_event_handler.
THEOREM FailedAttemptsLeaveNothing == Spec => []FailedAttemptsClosed
<1>1. SocketInv => FailedAttemptsClosed
  BY DEF SocketInv, OpenWhileConnecting, FailedAttemptsClosed
<1> QED
  BY <1>1, SocketSpecInv, PTL

-----------------------------------------------------------------------------
(* The GSM handler, by itself and at the end of the path.  GsmProofs shows *)
(* what its steps keep, for any delays; here the handler that is exercised *)
(* takes one of these steps or none.  In the path the link takes a step of *)
(* its environment: the STM32's half of it raises the trigger, or leaves   *)
(* the handler alone.                                                      *)

GH == INSTANCE GsmProofs WITH pc <- gsm_pc
PH == INSTANCE GsmProofs WITH pc <- gsm_pc, Interval <- 1, Settle <- 1, Debounce <- 1,
                              SendTicks <- 1, HeldPoll <- 1, Cooldown <- PathCooldown

HandlersInv == (part = "gsm" => GH!GsmInv) /\ (part = "path" => PH!GsmInv)

\* Both instances of the handler satisfy what its proofs assume.
LEMMA HandlersAssume == GH!GsmAssumption /\ PH!GsmAssumption
BY RemoteAssumption DEF G!GsmAssumption, P!GsmAssumption, GH!GsmAssumption, PH!GsmAssumption

\* The steps of a handler are those its proofs are about.
LEMMA SameSteps ==
  /\ G!Next <=> GH!Next
  /\ P!Handler \/ P!Tick \/ P!MoveButton => PH!Next
<1>1. G!Next <=> GH!Next
  BY DEF G!Next, GH!Next, G!Handler, GH!Handler, G!LoopTop, GH!LoopTop, G!ReadButton,
       GH!ReadButton, G!ReadAgain, GH!ReadAgain, G!ButtonSmsDone, GH!ButtonSmsDone,
       G!StillHeld, GH!StillHeld, G!Released, GH!Released, G!TestTrigger,
       GH!TestTrigger, G!ClearTrigger, GH!ClearTrigger, G!TestCooldown,
       GH!TestCooldown, G!CommandSms, GH!CommandSms, G!CommandSmsDone,
       GH!CommandSmsDone, G!Wake, GH!Wake, G!Goto, GH!Goto, G!Tick, GH!Tick,
       G!Later, GH!Later, G!Spacing, GH!Spacing, G!RaiseTrigger, GH!RaiseTrigger,
       G!MoveButton, GH!MoveButton
<1>2. P!Handler \/ P!Tick \/ P!MoveButton => PH!Next
  BY DEF P!Next, PH!Next, P!Handler, PH!Handler, P!LoopTop, PH!LoopTop, P!ReadButton,
       PH!ReadButton, P!ReadAgain, PH!ReadAgain, P!ButtonSmsDone, PH!ButtonSmsDone,
       P!StillHeld, PH!StillHeld, P!Released, PH!Released, P!TestTrigger,
       PH!TestTrigger, P!ClearTrigger, PH!ClearTrigger, P!TestCooldown,
       PH!TestCooldown, P!CommandSms, PH!CommandSms, P!CommandSmsDone,
       PH!CommandSmsDone, P!Wake, PH!Wake, P!Goto, PH!Goto, P!Tick, PH!Tick,
       P!Later, PH!Later, P!Spacing, PH!Spacing, P!RaiseTrigger, PH!RaiseTrigger,
       P!MoveButton, PH!MoveButton
<1>. QED  BY <1>1, <1>2

\* The handler by itself.
LEMMA HandlerAlone ==
  ASSUME part = "gsm", [RemoteNext]_remotevars
  PROVE  part' = part /\ [GH!Next]_(GH!vars)
BY SameSteps DEF RemoteNext, InGsm, InLink, InMqtt, OnLink, OnHandler, remotevars,
   handlervars, GH!vars

\* The handler in the path.
LEMMA HandlerInPath ==
  ASSUME part = "path", [RemoteNext]_remotevars
  PROVE  part' = part /\ [PH!Next]_(PH!vars)
<1>1. CASE OnHandler(P!Handler \/ P!Tick \/ P!MoveButton)
  BY <1>1, SameSteps DEF OnHandler
<1>2. CASE OnLink(Q!Exchange \/ Q!SlaveTask \/ Q!Command)
  <2>1. part' = part /\ UNCHANGED handlervars
    BY <1>2 DEF OnLink
  <2>2. trigger' = TRUE \/ trigger' = trigger
    BY <1>2 DEF OnLink, Q!Exchange, Q!SlaveTask, Q!Command, Q!Poll, Q!ClearDone, Q!Rearm,
       Q!Publish, Q!TestPending, Q!TakePending, Q!LoadResponse, Q!stm32
  <2>. QED  BY <2>1, <2>2 DEF handlervars, PH!Next, PH!RaiseTrigger, PH!vars
<1>3. CASE UNCHANGED remotevars
  BY <1>3 DEF remotevars, handlervars, PH!vars
<1>. QED  BY <1>1, <1>2, <1>3 DEF RemoteNext, InGsm, InLink, InMqtt

\* A behaviour exercises the same part throughout; without the handler in it
\* nothing moves the handler.
LEMMA HandlerElsewhere ==
  ASSUME part \notin {"gsm", "path"}, [RemoteNext]_remotevars
  PROVE  part' = part /\ UNCHANGED handlervars
BY DEF RemoteNext, InGsm, InLink, InMqtt, OnLink, OnHandler, remotevars

\* The invariants of the handlers hold throughout.
LEMMA RemoteSpecInv == RemoteSpec => []HandlersInv
<1>1. RemoteInit => HandlersInv
  <2>1. part = "gsm" /\ G!Init => GH!GsmInv
    BY HandlersAssume, GH!GsmInitInv DEF G!Init, GH!Init, G!Spacing, GH!Spacing
  <2>2. part = "path" /\ P!Init => PH!GsmInv
    BY HandlersAssume, PH!GsmInitInv DEF P!Init, PH!Init, P!Spacing, PH!Spacing
  <2>. QED  BY <2>1, <2>2 DEF RemoteInit, HandlersInv
<1>2. ASSUME HandlersInv, [RemoteNext]_remotevars
      PROVE  HandlersInv'
  <2>1. CASE part = "gsm"
    BY <1>2, <2>1, HandlersAssume, HandlerAlone, GH!GsmNextInv DEF HandlersInv
  <2>2. CASE part = "path"
    BY <1>2, <2>2, HandlersAssume, HandlerInPath, PH!GsmNextInv DEF HandlersInv
  <2>3. CASE part \notin {"gsm", "path"}
    BY <1>2, <2>3, HandlerElsewhere DEF HandlersInv
  <2>. QED  BY <2>1, <2>2, <2>3
<1>. QED  BY <1>1, <1>2, PTL DEF RemoteSpec

\* Between two SMS of commands lie at least the intervals of the cooldown and the
\* delay before the SMS, although the cooldown counts loops and not time; also in
\* the path, where the link raises the trigger.
THEOREM GsmCommandsSpaced == RemoteSpec => CommandsSpaced
<1>1. ASSUME HandlersInv, RemoteNext
      PROVE  (part = "gsm" => G!SpacedStep) /\ (part = "path" => P!SpacedStep)
  <2>1. CASE part = "gsm"
    <3>1. [GH!Next]_(GH!vars) /\ GH!GsmInv
      BY <1>1, <2>1, HandlerAlone DEF HandlersInv
    <3>2. CASE GH!Next
      BY <2>1, <3>1, <3>2, HandlersAssume, GH!GsmNextSpaced
         DEF G!SpacedStep, GH!SpacedStep, G!Spacing, GH!Spacing
    <3>3. CASE UNCHANGED GH!vars
      BY <2>1, <3>3 DEF GH!vars, G!SpacedStep
    <3>. QED  BY <3>1, <3>2, <3>3
  <2>2. CASE part = "path"
    <3>1. [PH!Next]_(PH!vars) /\ PH!GsmInv
      BY <1>1, <2>2, HandlerInPath DEF HandlersInv
    <3>2. CASE PH!Next
      BY <2>2, <3>1, <3>2, HandlersAssume, PH!GsmNextSpaced
         DEF P!SpacedStep, PH!SpacedStep, P!Spacing, PH!Spacing
    <3>3. CASE UNCHANGED PH!vars
      BY <2>2, <3>3 DEF PH!vars, P!SpacedStep
    <3>. QED  BY <3>1, <3>2, <3>3
  <2>. QED  BY <2>1, <2>2
<1>2. HandlersInv /\ [RemoteNext]_remotevars =>
        [/\ part = "gsm" => G!SpacedStep
         /\ part = "path" => P!SpacedStep]_remotevars
  BY <1>1
<1>. QED  BY <1>2, RemoteSpecInv, PTL DEF RemoteSpec, CommandsSpaced

\* Before each SMS of the button the button has been up since the last one, by
\* itself and in the path.
THEOREM GsmOnePressOneSms == RemoteSpec => OnePressOneSms
<1>1. HandlersInv /\ [RemoteNext]_remotevars =>
        [gsm_pc = "debounce" /\ gsm_pc' = "buttonSms" => letgo]_(G!vars)
  <2>1. SUFFICES ASSUME HandlersInv, [RemoteNext]_remotevars,
                        gsm_pc = "debounce", gsm_pc' = "buttonSms"
                 PROVE  letgo
    OBVIOUS
  <2>2. CASE part = "gsm"
    BY <2>1, <2>2, GH!GsmLetGo DEF HandlersInv
  <2>3. CASE part = "path"
    BY <2>1, <2>3, PH!GsmLetGo DEF HandlersInv
  <2>4. CASE part \notin {"gsm", "path"}
    BY <2>1, <2>4, HandlerElsewhere DEF handlervars
  <2>. QED  BY <2>2, <2>3, <2>4
<1>. QED  BY <1>1, RemoteSpecInv, PTL DEF RemoteSpec, OnePressOneSms, G!OnePressOneSms
=============================================================================
