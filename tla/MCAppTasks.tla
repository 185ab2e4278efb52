----------------------------- MODULE MCAppTasks -----------------------------
(***************************************************************************)
(* Model checking AppTasks: task tables of four tasks.                     *)
(***************************************************************************)
EXTENDS AppTasks, TLC

DataPath == 0 :> "sensor" @@ 1 :> "dsp" @@ 2 :> "spi" @@ 3 :> "idle"
Watchdog == 0 :> "watchdog" @@ 1 :> "print" @@ 2 :> "print" @@ 3 :> "idle"

MCTables == {DataPath, Watchdog}
MCDataPath == {DataPath}

MCInterval == [watchdog |-> 8, sensor |-> 12, dsp |-> 12, spi |-> 13, print |-> 4, idle |-> 8]
=============================================================================
