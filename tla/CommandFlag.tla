---------------------------- MODULE CommandFlag -----------------------------
(***************************************************************************)
(* The flag on the ESP32 that mqtt_rx_task sets for a command of the       *)
(* dashboard and spi_slave_task takes (components/sms_controller/          *)
(* sms_controller.c).  MqttClient and TelemetryLink share it.              *)
(***************************************************************************)

VARIABLE sms_trigger_pending
=============================================================================
