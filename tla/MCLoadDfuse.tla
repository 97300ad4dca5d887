---------------------------- MODULE MCLoadDfuse ----------------------------
(* Small instances of LoadDfuse: flash of a few sectors of a few bytes,    *)
(* images of a few chunks.                                                 *)
EXTENDS LoadDfuse

MCTransferErrors == { BootIoError_Transfer_Pipe, -7 }

MCReadings ==
  { [status |-> "Ok", timeout |-> 0, state |-> "DownloadBusy"],
    [status |-> "Ok", timeout |-> 0, state |-> "DownloadIdle"],
    [status |-> "Ok", timeout |-> 0, state |-> "Idle"],
    [status |-> "Failed", timeout |-> 0, state |-> "Error"] }

MCStackGarbage == { [status |-> "Ok", timeout |-> 0, state |-> "DownloadIdle"] }

Sector(n, size, letter) ==
  [page_count |-> n, page_size |-> size, unit |-> "B", type |-> letter]

Flash(segments) ==
  [named |-> TRUE, regions |-> << [address |-> 0, segments |-> segments] >>]

Unnamed == [named |-> FALSE, regions |-> << >>]

(* Segments the erase loop leaves after at most one turn.                  *)
MCDescriptors ==
  { Unnamed,
    Flash(<< Sector(1, 4, Letter.d), Sector(1, 16, Letter.d) >>),
    Flash(<< Sector(1, 4, Letter.a), Sector(1, 4, Letter.a), Sector(1, 4, Letter.g) >>) }

(* Equal erasable sectors, the layout the erase loop was written for.      *)
MCSectorDescriptors ==
  { Flash(<< Sector(1, 4, Letter.d), Sector(1, 4, Letter.d), Sector(1, 4, Letter.d),
             Sector(1, 4, Letter.d) >>) }

(* What a device with its firmware in order answers.                       *)
MCOkReadings ==
  { [status |-> "Ok", timeout |-> 0, state |-> "DownloadBusy"],
    [status |-> "Ok", timeout |-> 0, state |-> "DownloadIdle"] }

MCAddresses == { 0, 4 }
=============================================================================
