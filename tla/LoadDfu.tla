------------------------------ MODULE LoadDfu ------------------------------
(***************************************************************************)
(* load_dfu.c: upload_dfu and download_dfu, on top of the waits.  Unlike   *)
(* in LoadDfuse, chunk_size is a size_t here that the transfer truncates.  *)
(***************************************************************************)
EXTENDS Load

CONSTANT
  MaxTurns (* bound: the turns of download_dfu in which a device may take  *)
           (* a block without taking a byte of it                          *)

ASSUME DfuAssumption == MaxTurns \in Nat

VARIABLE
  turn   (* the loop counter i of download_dfu                             *)

vars == << waitVars, loadVars, turn >>

Callee == WaitStep /\ UNCHANGED << loadVars, turn >>

-----------------------------------------------------------------------------
Call(f, size, c) ==
  /\ Start(f, size, c)
  /\ turn' = 0
  /\ UNCHANGED waitVars

RefuseCall(f) == Refuse(f) /\ UNCHANGED << waitVars, turn >>

Open(r) ==
  /\ pc = "open"
  /\ Note(r)
  /\ \/ r < 0 /\ Quit(r)
     \/ r >= 0 /\ handle' = TRUE /\ pc' = "block" /\ UNCHANGED result
  /\ UNCHANGED << waitVars, op, expected, chunk, count, total, image, exact, turn >>

(* upload_dfu: a read shorter than chunk_size, and only that, ends the     *)
(* loop before expected_size is reached.                                   *)
ReadGoesOn(r) == r >= chunk

ReadBlock(r) ==
  /\ at = "ret" /\ op = "upload_dfu" /\ pc = "block"
  /\ total < expected
  /\ Note(r)
  /\ \/ r < 0 /\ Close(r) /\ UNCHANGED << waitVars, count, total, image, exact >>
     \/ /\ r >= 0
        /\ Move(total, r, ReadLength)
        /\ IF ReadGoesOn(r)
             THEN pc' = "block" /\ count' = (count + 1) % U16
                  /\ UNCHANGED waitVars
             ELSE Enter("wait_for_dfu_idle") /\ pc' = "settled"
                  /\ UNCHANGED count
        /\ UNCHANGED << handle, result >>
  /\ UNCHANGED << op, expected, chunk, turn >>

EndUpload ==
  /\ at = "ret" /\ op = "upload_dfu" /\ pc = "block"
  /\ total >= expected
  /\ Enter("wait_for_dfu_idle") /\ pc' = "settled"
  /\ UNCHANGED << op, handle, expected, chunk, count, total, result, image, exact,
                  errors, turn >>

AfterSettle ==
  /\ at = "ret" /\ pc = "settled"
  /\ Note(ec) /\ Close(ec)
  /\ UNCHANGED << waitVars, op, expected, chunk, count, total, image, exact, turn >>

-----------------------------------------------------------------------------
(* Slips the mutation runs put in the place of the definition below.       *)
NextChunkIsWhole == chunk

NextChunk == IF expected - total < chunk THEN expected - total ELSE chunk

SendLength == transfer_out(count, NextChunk).length

(* Slips the mutation runs put in the place of the definition below.       *)
BufHeadInBytes == turn

(* `buffer + (chunk_size * i)`, with the chunk size of this turn.           *)
BufHead == NextChunk * turn

(* A failed transfer jumps to `out` with the ec of what succeeded before.  *)
SendBlock(r) ==
  /\ at = "ret" /\ op = "download_dfu" /\ pc = "block"
  /\ total < expected
  /\ r # 0 \/ turn < MaxTurns
  /\ chunk' = NextChunk
  /\ Note(r)
  /\ \/ r < 0 /\ Close(BootIoError_Success)
        /\ UNCHANGED << waitVars, total, image, exact >>
     \/ /\ r >= 0
        /\ Move(BufHead, r, SendLength)
        /\ Enter("wait_for_download_idle") /\ pc' = "waited"
        /\ UNCHANGED << handle, result >>
  /\ UNCHANGED << op, expected, count, turn >>

AfterBlock ==
  /\ at = "ret" /\ pc = "waited"
  /\ Proceed(ec, "block")
  /\ IF ec < 0
       THEN UNCHANGED << count, turn >>
       ELSE count' = (count + 1) % U16 /\ turn' = turn + 1
  /\ UNCHANGED << waitVars, op, expected, chunk, total, image, exact >>

EndBlocks ==
  /\ at = "ret" /\ op = "download_dfu" /\ pc = "block"
  /\ total >= expected
  /\ Enter("abort_and_wait_idle") /\ pc' = "idled"
  /\ UNCHANGED << op, handle, expected, chunk, count, total, result, image, exact,
                  errors, turn >>

AfterIdle ==
  /\ at = "ret" /\ pc = "idled"
  /\ Proceed(ec, "terminate")
  /\ UNCHANGED << waitVars, op, expected, chunk, count, total, image, exact, turn >>

(* A failed terminating transfer returns on the spot: the handle stays.    *)
Terminate(r) ==
  /\ at = "ret" /\ pc = "terminate"
  /\ Note(r)
  /\ \/ r < 0 /\ Quit(r) /\ UNCHANGED waitVars
     \/ /\ r >= 0
        /\ Enter("wait_for_manifest") /\ pc' = "manifested"
        /\ UNCHANGED << handle, result >>
  /\ UNCHANGED << op, expected, chunk, count, total, image, exact, turn >>

AfterManifest ==
  /\ at = "ret" /\ pc = "manifested"
  /\ Note(ec) /\ Close(ec)
  /\ UNCHANGED << waitVars, op, expected, chunk, count, total, image, exact, turn >>
-----------------------------------------------------------------------------
LoadCall ==
  \E f \in { "upload_dfu", "download_dfu" } :
    RefuseCall(f) \/ \E size \in Sizes, c \in ChunkSizes : Call(f, size, c)

Data ==
  \/ \E r \in TransferReplies(SendLength) : SendBlock(r)
  \/ \E r \in TransferReplies(ReadLength) : ReadBlock(r)

Control ==
  AfterBlock \/ EndBlocks \/ AfterIdle \/ AfterManifest \/ EndUpload \/ AfterSettle

LoadStep ==
  \/ \E r \in CodeReplies : Open(r) \/ Terminate(r)
  \/ Data \/ Control \/ Callee

Init == WaitInit /\ LoadInit /\ turn = 0

Next == LoadCall \/ LoadStep

Spec == Init /\ [][Next]_vars

(* The program runs on until its call returns; see FairWaitSpec.           *)
FairSpec == Spec /\ WF_vars(LoadStep)

-----------------------------------------------------------------------------
TypeOK ==
  /\ WaitTypeOK
  /\ op \in { "none", "upload_dfu", "download_dfu" }
  /\ pc \in { "idle", "done", "open", "block", "waited", "idled", "terminate",
             "manifested", "settled" }
  /\ handle \in BOOLEAN
  /\ expected \in Nat /\ chunk \in Nat /\ count \in 0 .. U16 - 1
  /\ total \in Nat
  /\ op = "download_dfu" /\ Running => total <= expected
  /\ turn \in Nat
  /\ result \in Int
  /\ image \in Seq(Nat)

Done(f) == op = f /\ pc = "done" /\ result >= 0

(* A call leaves the handle open in one case only, when the terminating    *)
(* transfer fails (an open that fails leaves what an earlier call leaked). *)
HandleLeaksAtTerminator ==
  [][ Running /\ ~ Running' /\ handle' =>
        pc = "terminate" \/ (pc = "open" /\ handle) ]_vars

(* No step's failure is lost on the way to the result, except that of a    *)
(* firmware block, which leaves ec at what the wait before it returned.    *)
OnlyBlockErrorsAreDropped ==
  pc = "done" /\ result >= 0 =>
    errors \subseteq (IF op = "download_dfu" THEN { "block" } ELSE {})

(* Up to the last block a download sends the image byte for byte in order, *)
(* as long as no transfer is short and a chunk fits the transfer's length. *)
BlocksAreInOrder ==
  /\ op = "download_dfu" /\ exact
  /\ chunk < U16 /\ total < expected
  => image = Offsets(0, total)

(* An upload that returns a count has filled a prefix of the buffer, less  *)
(* than a chunk longer than asked for, and returns its length.             *)
UploadSuccessIsPrefix ==
  Done("upload_dfu") =>
    /\ image = Offsets(0, result)
    /\ result < expected + chunk \/ result = 0

(* Every load call returns, unless a transfer falls short: a device that   *)
(* takes no bytes keeps download_dfu in its loop.                          *)
LoadReturns == Running ~> (~ Running \/ ~ exact)

-----------------------------------------------------------------------------
(* What load.h says of these functions and the code does not do.           *)

(* load.h:40: the firmware data is transferred in chunks: a download that  *)
(* succeeds has sent the buffer's bytes, each once and in order.           *)
DownloadIsInOrder ==
  Done("download_dfu") /\ errors = {} /\ exact => image = Offsets(0, expected)
=============================================================================
