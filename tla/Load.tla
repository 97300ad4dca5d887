-------------------------------- MODULE Load --------------------------------
(***************************************************************************)
(* load.h: what the four load functions share.  Each opens the device,     *)
(* makes transfers and calls of dfu_status.c and dfuse_command.c one after *)
(* the other, and returns a byte count or an error.  `pc` is where the     *)
(* load function is; the function it called runs while at # "ret".         *)
(***************************************************************************)
EXTENDS DfuStatus, Sequences

CONSTANTS
  Sizes,       (* expected_size, or the size of the firmware image         *)
  ChunkSizes   (* chunk_size                                               *)

ASSUME LoadAssumption == Sizes \subseteq Nat /\ ChunkSizes \subseteq Nat

VARIABLES
  op,       (* the load function running, or the last one to return        *)
  pc,       (* what it does next; "idle" before the first call             *)
  handle,   (* whether config->device_handle is an open handle             *)
  expected, (* expected_size, firmware_size in download_dfuse              *)
  chunk,    (* chunk_size                                                  *)
  count,    (* transfer_count, modulo U16: no transfer uses more of it     *)
  total,    (* total_bytes                                                 *)
  result,   (* what the last call returned                                 *)
  image,    (* history: the buffer offsets of the bytes moved, in order    *)
  exact,    (* history: no data transfer of this call was short            *)
  errors    (* history: the steps of this call that failed                 *)

loadVars ==
  << op, pc, handle, expected, chunk, count, total, result, image, exact,
     errors >>

Running == pc \notin { "idle", "done" }

Offsets(first, n) == [k \in 1 .. n |-> first + k - 1]

ReadLength == transfer_in(count, chunk).length

Note(code) == errors' = IF code < 0 THEN errors \cup {pc} ELSE errors

(* Slips the mutation runs put in the place of the definition below.       *)
MoveCountsChunk(first, r, length) ==
  /\ total' = total + chunk
  /\ image' = image \o Offsets(first, r)
  /\ exact' = (exact /\ r = length)

(* A transfer moved r bytes of the length it asked for, from offset        *)
(* `first` of the buffer on.                                               *)
Move(first, r, length) ==
  /\ total' = total + r
  /\ image' = image \o Offsets(first, r)
  /\ exact' = (exact /\ r = length)

-----------------------------------------------------------------------------
(* Slips the mutation runs put in the place of the definition below.       *)
FirstBlockIsThree == 3

(* Blocks 0 and 1 are the DfuSe commands'; every loop starts behind them.  *)
FirstBlock == 2

(* A call with a null pointer returns before it touches the device.        *)
Refuse(f) ==
  /\ ~ Running
  /\ op' = f /\ pc' = "done" /\ result' = BootIoError_InvalidParam
  /\ errors' = { "refused" }
  /\ UNCHANGED << handle, expected, chunk, count, total, image, exact >>

Start(f, size, c) ==
  /\ ~ Running
  /\ op' = f /\ pc' = "open"
  /\ expected' = size /\ chunk' = c
  /\ count' = FirstBlock /\ total' = 0
  /\ image' = << >> /\ exact' = TRUE /\ errors' = {}
  /\ UNCHANGED << handle, result >>

(* The return statement before the handle is open.                         *)
Quit(code) == pc' = "done" /\ result' = code /\ UNCHANGED handle

(* Slips the mutation runs put in the place of the definition below.       *)
CloseKeepsHandle(code) ==
  /\ pc' = "done" /\ UNCHANGED handle
  /\ result' = IF code < 0 THEN code ELSE total

(* The label `out`: close the device, return the count or the error.  The  *)
(* cast of the count to an int changes nothing below 2 GiB.                *)
Close(code) ==
  /\ pc' = "done" /\ handle' = FALSE
  /\ result' = IF code < 0 THEN code ELSE total

(* Slips the mutation runs put in the place of the definition below.       *)
ProceedAnyway(code, next_pc) ==
  Note(code) /\ pc' = next_pc /\ UNCHANGED << handle, result >>

(* `if (ec < 0) goto out;` and, otherwise, on to the next step.             *)
Proceed(code, next_pc) ==
  /\ Note(code)
  /\ IF code < 0
       THEN Close(code)
       ELSE pc' = next_pc /\ UNCHANGED << handle, result >>

LoadInit ==
  /\ op = "none" /\ pc = "idle" /\ handle = FALSE
  /\ expected = 0 /\ chunk = 0 /\ count = 2 /\ total = 0
  /\ result = 0 /\ image = << >> /\ exact = TRUE /\ errors = {}
=============================================================================
