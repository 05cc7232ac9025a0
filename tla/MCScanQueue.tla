---------------------------- MODULE MCScanQueue ----------------------------
(* The settings of the scan queue's runs; each cfg file takes one set of them. *)
EXTENDS ScanQueue

CONSTANTS r1, r2, r3, r4, i1, i2

\* One scan of two targets; the process dies up to twice.
Crashing ==
  [runs |-> {r1, r2, r3}, ids |-> {i1}, typed |-> {}, targets |-> 2, maxInstances |-> 1,
   commands |-> {"scan", "stop", "pause", "panic"}, maxCrashes |-> 2]

\* Two scans; the server restarts, and the queue is resumed by three ways.
Restarting ==
  [runs |-> {r1, r2, r3, r4}, ids |-> {i1, i2}, typed |-> {}, targets |-> 1,
   maxInstances |-> 2,
   commands |-> {"scan", "queueResume", "queueClear", "sessionPanic", "restart",
                 "forceRestart"},
   maxCrashes |-> 0]

\* Two scans, one slot, and a SIGTERM.
Signalled ==
  [runs |-> {r1, r2, r3}, ids |-> {i1, i2}, typed |-> {}, targets |-> 1,
   maxInstances |-> 1, commands |-> {"scan", "signal"}, maxCrashes |-> 0]

\* Three runs, one slot; i1 is a typed assessment.
Controlled ==
  [runs |-> {r1, r2, r3}, ids |-> {i1, i2}, typed |-> {i1}, targets |-> 1,
   maxInstances |-> 1, commands |-> {"scan", "stop", "delete", "pause", "resume"},
   maxCrashes |-> 0]

\* Two scans, one slot, and stop-all.
Stopped ==
  [runs |-> {r1, r2}, ids |-> {i1, i2}, typed |-> {}, targets |-> 1, maxInstances |-> 1,
   commands |-> {"scan", "stopAll"}, maxCrashes |-> 0]

\* One scan of two targets.
OneScan(commands) ==
  [runs |-> {r1, r2}, ids |-> {i1}, typed |-> {}, targets |-> 2, maxInstances |-> 1,
   commands |-> commands, maxCrashes |-> 0]

HostSettings == {Crashing, Restarting, Signalled, Controlled}
StopSettings == {Stopped}
SignalLosesSettings == {OneScan({"scan", "signal"})}
StopRaceSettings == {OneScan({"scan", "stop"})}
=============================================================================
