--------------------------- MODULE MCDfuseCommand ---------------------------
(* Small instances of DfuseCommand.  The replies differ in what the loops  *)
(* of send_command and of the waits tell apart; the stack may hold any of  *)
(* the states the first iteration tests.                                   *)
EXTENDS DfuseCommand

MCTransferErrors == { BootIoError_Transfer_Pipe, -7 }

MCReadings ==
  [ status: DfuStatuses, timeout: {5},
    state: { "DownloadBusy", "DownloadIdle", "Idle", "Manifest",
             "ManifestWaitReset", "Error" } ]

MCStackGarbage ==
  [status: DfuStatuses, timeout: {5}, state: { "DownloadIdle", "DownloadBusy", "Idle" }]

MCAddresses == { 4 }
=============================================================================
