--------------------------- MODULE MCDfuseSystem ---------------------------
(* A device of twenty bytes of memory in pages of four, and the layouts of *)
(* MCLoadDfuse; what the device may be in when it answers is a reading.     *)
EXTENDS DfuseSystem

MCTransferErrors == { BootIoError_Transfer_Pipe, -7 }

MCReadings ==
  [ status: {"Ok"}, timeout: {0},
    state: { "Idle", "DownloadBusy", "DownloadIdle", "Manifest", "ManifestWaitReset", "UploadIdle" } ]
    \cup { [status |-> "Failed", timeout |-> 0, state |-> "Error"] }

MCStackGarbage == { [status |-> "Ok", timeout |-> 0, state |-> "DownloadIdle"] }

Sector(n, size, letter) ==
  [page_count |-> n, page_size |-> size, unit |-> "B", type |-> letter]

Flash(segments) ==
  [named |-> TRUE, regions |-> << [address |-> 0, segments |-> segments] >>]

MCDescriptors ==
  { Flash(<< Sector(1, 4, Letter.d), Sector(4, 4, Letter.d) >>),
    Flash(<< Sector(2, 4, Letter.a), Sector(3, 4, Letter.d) >>) }

(* Of which an image of four bytes touches a page that can be erased.      *)
MCErasable == { Flash(<< Sector(1, 4, Letter.d), Sector(4, 4, Letter.d) >>) }

MCMemory == 0 .. 19

MCAddresses == { 0, 4 }
=============================================================================
