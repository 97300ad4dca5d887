----------------------------- MODULE MCLoadDfu -----------------------------
(* Small instances of LoadDfu: images of a few chunks.                     *)
EXTENDS LoadDfu

MCTransferErrors == { BootIoError_Transfer_Pipe, -7 }

MCReadings ==
  { [status |-> "Ok", timeout |-> 0, state |-> "DownloadBusy"],
    [status |-> "Ok", timeout |-> 0, state |-> "DownloadIdle"],
    [status |-> "Ok", timeout |-> 0, state |-> "Idle"],
    [status |-> "Ok", timeout |-> 0, state |-> "ManifestWaitReset"],
    [status |-> "Failed", timeout |-> 0, state |-> "Error"] }

MCStackGarbage == { [status |-> "Ok", timeout |-> 0, state |-> "DownloadIdle"] }
=============================================================================
