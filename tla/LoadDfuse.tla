----------------------------- MODULE LoadDfuse -----------------------------
(***************************************************************************)
(* load_dfuse.c: erase_pages, upload_dfuse and download_dfuse, on top of   *)
(* the commands and the waits.  The device answers anything; what a load   *)
(* function promises of it is in Load and here.                            *)
(***************************************************************************)
EXTENDS Load, DfuseCommand, MemorySegment

CONSTANTS
  Descriptors  (* names of the alternate setting, parsed into fields       *)

ASSUME DfuseAssumption ==
  /\ Descriptors \subseteq Descriptor
  /\ Addresses \subseteq 0 .. U32 - 1
  /\ ChunkSizes \subseteq 0 .. U16 - 1

VARIABLES
  alt_name,     (* config->alt_name                                        *)
  start,        (* start_address                                           *)
  head,         (* buffer_head of download_dfuse, from the first data byte *)
  segment_node, (* the node erase_pages found                              *)
  node,         (* the node its loop condition tests                       *)
  erased        (* history: the addresses erased by this call              *)

dfuseVars == << alt_name, start, head, segment_node, node, erased >>

vars == << commandVars, loadVars, dfuseVars >>

segment_list == parse_memory_segments(alt_name)

(* One step of the function the load function called.                      *)
Callee == CommandStep /\ UNCHANGED << loadVars, dfuseVars >>

-----------------------------------------------------------------------------
(* Calls.                                                                  *)
RefuseCall(f) ==
  /\ Refuse(f)
  /\ UNCHANGED << commandVars, dfuseVars >>

Call(f, a, size, c) ==
  /\ Start(f, size, c)
  /\ start' = a /\ head' = 0
  /\ segment_node' = 0 /\ node' = 0 /\ erased' = {}
  /\ UNCHANGED << commandVars, alt_name >>

(* download_dfuse opens the device and erase_pages looks its segment up.   *)
OpenDownload(r) ==
  /\ op = "download_dfuse" /\ pc = "open"
  /\ Note(r)
  /\ \/ r < 0 /\ Quit(r) /\ UNCHANGED << segment_node, node >>
     \/ /\ r >= 0 /\ ~ CanParse(alt_name)
        /\ Close(BootIoError_Configuration_DescriptorString)
        /\ UNCHANGED << segment_node, node >>
     \/ /\ r >= 0 /\ CanParse(alt_name)
        /\ handle' = TRUE /\ pc' = "erase"
        /\ segment_node' = find_segment_node(segment_list, start)
        /\ node' = segment_node'
        /\ UNCHANGED result
  /\ UNCHANGED << commandVars, op, expected, chunk, count, total, image, exact,
                  alt_name, start, head, erased >>

(* Slips the mutation runs put in the place of the definition below.       *)
EraseTestIgnoresType ==
  /\ node # 0
  /\ segment_list[node].end < start + expected

(* The loop condition and the type test of erase_pages.                    *)
EraseTest ==
  /\ node # 0
  /\ segment_list[node].end < start + expected
  /\ segment_list[segment_node].type
       \in { MemorySegmentType_Writable, MemorySegmentType_Erasable }

ErasePage ==
  /\ at = "ret" /\ pc = "erase" /\ EraseTest
  /\ EnterCommand(dfuse_cmd_erase_page(segment_list[segment_node].start))
  /\ pc' = "erased"
  /\ UNCHANGED << op, handle, expected, chunk, count, total, result, image, exact,
                  errors, dfuseVars >>

(* `node = segment_node->next`, whichever turn of the loop it is.          *)
AfterErase ==
  /\ at = "ret" /\ pc = "erased"
  /\ Proceed(ec, "erase")
  /\ IF ec < 0 THEN UNCHANGED << node, erased >>
       ELSE /\ node' = next(segment_list, segment_node)
            /\ erased' = erased \cup { command.address }
  /\ UNCHANGED << commandVars, op, expected, chunk, count, total, image, exact,
                  alt_name, start, head, segment_node >>

SetAddress ==
  /\ at = "ret" /\ pc = "erase" /\ ~ EraseTest
  /\ EnterCommand(dfuse_cmd_set_address(start))
  /\ pc' = "addressed"
  /\ UNCHANGED << op, handle, expected, chunk, count, total, result, image, exact,
                  errors, dfuseVars >>

AfterAddress ==
  /\ at = "ret" /\ pc = "addressed"
  /\ Proceed(ec, IF op = "download_dfuse" THEN "block" ELSE "abort")
  /\ UNCHANGED << commandVars, op, expected, chunk, count, total, image, exact,
                  dfuseVars >>

-----------------------------------------------------------------------------
(* The block loop of download_dfuse.                                       *)
(* Slips the mutation runs put in the place of the definition below.       *)
NextChunkIsWhole == chunk

NextChunk == IF expected - total > chunk THEN chunk ELSE expected - total

SendLength == transfer_out(count, NextChunk).length

(* Slips the mutation runs put in the place of the definition below.       *)
HeadAfterRequest(sent) == head + NextChunk

(* `buffer_head += bytes_sent`.                                            *)
HeadAfter(sent) == head + sent

SendBlock(r) ==
  /\ at = "ret" /\ op = "download_dfuse" /\ pc = "block"
  /\ total < expected
  /\ chunk' = NextChunk
  /\ Note(r)
  /\ \/ /\ r < 0 /\ Close(r)
        /\ UNCHANGED << waitVars, total, image, exact, head >>
     \/ /\ r >= 0
        /\ Move(head, r, SendLength) /\ head' = HeadAfter(r)
        /\ Enter("wait_for_download_idle") /\ pc' = "waited"
        /\ UNCHANGED << handle, result >>
  /\ UNCHANGED << command, op, expected, count, alt_name, start, segment_node,
                  node, erased >>

AfterBlock ==
  /\ at = "ret" /\ op = "download_dfuse" /\ pc = "waited"
  /\ Proceed(ec, "block")
  /\ count' = IF ec < 0 THEN count ELSE (count + 1) % U16
  /\ UNCHANGED << commandVars, op, expected, chunk, total, image, exact, dfuseVars >>

EndBlocks ==
  /\ at = "ret" /\ op = "download_dfuse" /\ pc = "block"
  /\ total >= expected
  /\ Enter("abort_and_wait_idle") /\ pc' = "idled"
  /\ UNCHANGED << command, op, handle, expected, chunk, count, total, result,
                  image, exact, errors, dfuseVars >>

AfterIdle ==
  /\ at = "ret" /\ pc = "idled"
  /\ Proceed(ec, "terminate")
  /\ UNCHANGED << commandVars, op, expected, chunk, count, total, image, exact,
                  dfuseVars >>

(* The result of the terminating transfer is overwritten by the wait's.    *)
Terminate(r) ==
  /\ at = "ret" /\ pc = "terminate"
  /\ Note(r)
  /\ Enter("wait_for_manifest") /\ pc' = "manifested"
  /\ UNCHANGED << command, op, handle, expected, chunk, count, total, result,
                  image, exact, dfuseVars >>

AfterManifest ==
  /\ at = "ret" /\ pc = "manifested"
  /\ Note(ec) /\ Close(ec)
  /\ UNCHANGED << commandVars, op, expected, chunk, count, total, image, exact,
                  dfuseVars >>

-----------------------------------------------------------------------------
(* upload_dfuse.  The segment must have the type Readable, and no other    *)
(* access bit.                                                             *)
UploadSegment == find_segment_node(segment_list, start)

OpenUpload(r) ==
  LET found == CanParse(alt_name) /\ UploadSegment # 0
               /\ segment_list[UploadSegment].type = MemorySegmentType_Readable
  IN
  /\ op = "upload_dfuse" /\ pc = "open"
  /\ Note(r)
  /\ \/ r < 0 /\ Quit(r) /\ UNCHANGED commandVars
     \/ /\ r >= 0 /\ ~ found
        /\ Close(IF CanParse(alt_name)
                   THEN BootIoError_Other
                   ELSE BootIoError_Configuration_DescriptorString)
        /\ UNCHANGED commandVars
     \/ /\ r >= 0 /\ found
        /\ EnterCommand(dfuse_cmd_set_address(start))
        /\ handle' = TRUE /\ pc' = "addressed" /\ UNCHANGED result
  /\ UNCHANGED << op, expected, chunk, count, total, image, exact, dfuseVars >>

AbortCommand(r) ==
  /\ at = "ret" /\ pc = "abort"
  /\ Proceed(r, "block")
  /\ UNCHANGED << commandVars, op, expected, chunk, count, total, image, exact,
                  dfuseVars >>

(* A short read, or one that reaches expected_size, ends the loop.         *)
UploadGoesOn(r) == r > 0 /\ r >= chunk /\ total + r < expected

ReadBlock(r) ==
  /\ at = "ret" /\ op = "upload_dfuse" /\ pc = "block"
  /\ total < expected
  /\ Note(r)
  /\ \/ r < 0 /\ Close(r) /\ UNCHANGED << waitVars, count, total, image, exact >>
     \/ /\ r >= 0
        /\ Move(total, r, ReadLength)
        /\ IF UploadGoesOn(r)
             THEN pc' = "block" /\ count' = (count + 1) % U16
                  /\ UNCHANGED waitVars
             ELSE Enter("wait_for_download_idle") /\ pc' = "settled"
                  /\ UNCHANGED count
        /\ UNCHANGED << handle, result >>
  /\ UNCHANGED << command, op, expected, chunk, dfuseVars >>

EndUpload ==
  /\ at = "ret" /\ op = "upload_dfuse" /\ pc = "block"
  /\ total >= expected
  /\ Enter("wait_for_download_idle") /\ pc' = "settled"
  /\ UNCHANGED << command, op, handle, expected, chunk, count, total, result,
                  image, exact, errors, dfuseVars >>

(* The result of the wait is overwritten by the abort's.                   *)
AfterSettle ==
  /\ at = "ret" /\ pc = "settled"
  /\ Note(ec) /\ pc' = "release"
  /\ UNCHANGED << commandVars, op, handle, expected, chunk, count, total,
                  result, image, exact, dfuseVars >>

Release(r) ==
  /\ at = "ret" /\ pc = "release"
  /\ Note(r) /\ Close(r)
  /\ UNCHANGED << commandVars, op, expected, chunk, count, total, image, exact,
                  dfuseVars >>

-----------------------------------------------------------------------------
LoadCall ==
  \E f \in { "upload_dfuse", "download_dfuse" } :
    \/ RefuseCall(f)
    \/ \E a \in Addresses, size \in Sizes, c \in ChunkSizes : Call(f, a, size, c)

Code ==
  \E r \in CodeReplies :
    OpenDownload(r) \/ OpenUpload(r) \/ AbortCommand(r) \/ Terminate(r) \/ Release(r)

Data ==
  \/ \E r \in TransferReplies(SendLength) : SendBlock(r)
  \/ \E r \in TransferReplies(ReadLength) : ReadBlock(r)

Control ==
  \/ ErasePage \/ AfterErase \/ SetAddress \/ AfterAddress
  \/ AfterBlock \/ EndBlocks \/ AfterIdle \/ AfterManifest
  \/ EndUpload \/ AfterSettle

LoadStep == Code \/ Data \/ Control \/ Callee

Init ==
  /\ CommandInit /\ LoadInit
  /\ alt_name \in Descriptors
  /\ start = 0 /\ head = 0 /\ segment_node = 0 /\ node = 0 /\ erased = {}

Next == LoadCall \/ LoadStep

Spec == Init /\ [][Next]_vars

(* The program runs on until its call returns; see FairWaitSpec.           *)
FairSpec == Spec /\ WF_vars(LoadStep)

-----------------------------------------------------------------------------
Steps ==
  { "idle", "done", "open", "erase", "erased", "addressed", "abort", "block",
    "waited", "idled", "terminate", "manifested", "settled", "release" }

TypeOK ==
  /\ CommandTypeOK
  /\ op \in { "none", "upload_dfuse", "download_dfuse" }
  /\ pc \in Steps
  /\ handle \in BOOLEAN
  /\ expected \in Nat /\ chunk \in 0 .. U16 - 1 /\ count \in 0 .. U16 - 1
  /\ total \in Nat
  /\ op = "download_dfuse" /\ Running => total <= expected
  /\ head \in Nat
  /\ result \in Int
  /\ image \in Seq(Nat)
  /\ alt_name \in Descriptors /\ start \in Addresses
  /\ segment_node \in 0 .. Len(segment_list)
  /\ node \in 0 .. Len(segment_list)

(* load.h:67 and :95: whatever fails, the device is closed when the call   *)
(* returns, and everything between goes through an open handle.            *)
HandleIsBalanced ==
  handle <=> pc \notin { "idle", "open", "done" }

Done(f) == op = f /\ pc = "done" /\ result >= 0

(* A download that returns a count has moved the whole image, each byte    *)
(* once and in order, short transfers included, and returns its size.      *)
DownloadSuccessIsComplete ==
  Done("download_dfuse") => result = expected /\ image = Offsets(0, expected)

(* An upload that returns a count has filled a prefix of the buffer, less  *)
(* than a chunk longer than asked for, and returns its length.             *)
UploadSuccessIsPrefix ==
  Done("upload_dfuse") =>
    /\ image = Offsets(0, result)
    /\ result < expected + chunk \/ result = 0

(* download_dfuse implements FirmwareTransfer.  A call refused for a null  *)
(* pointer, like an upload, is none of its business.                       *)
Downloading == op = "download_dfuse" /\ errors # { "refused" }

Phase == IF ~ Downloading THEN "idle"
         ELSE IF Running THEN "moving" ELSE "returned"
Size    == IF Downloading THEN expected ELSE 0
Moved   == IF Downloading THEN image ELSE << >>
Outcome == IF Downloading /\ ~ Running THEN result ELSE 0

LoadErrors ==
  TransferErrors \cup { BootIoError_Other, BootIoError_Transfer_Pipe,
                        BootIoError_Configuration_DescriptorString }

Transfer ==
  INSTANCE FirmwareTransfer WITH
    Images <- Sizes, Failures <- LoadErrors,
    phase <- Phase, size <- Size, moved <- Moved, outcome <- Outcome

DownloadIsTransfer == Transfer!Spec

(* No step's failure is lost on the way to the result, except the two the  *)
(* code overwrites: the terminating transfer and the wait after an upload. *)
OnlyLateErrorsAreDropped ==
  pc = "done" /\ result >= 0 => errors \subseteq { "terminate", "settled" }

(* Only erasable or writable segments are erased, and only by a download:  *)
(* every erase names the first page of one.                                *)
ErasesAreAllowed ==
  \A a \in erased :
    \E k \in DOMAIN segment_list :
      /\ segment_list[k].start = a
      /\ segment_list[k].type \in
           { MemorySegmentType_Writable, MemorySegmentType_Erasable }
      /\ a <= start /\ start <= segment_list[k].end

(* Blocks 0 and 1 belong to the DfuSe commands: while the image needs no   *)
(* more blocks than are left and no transfer is short, no data uses them.  *)
DataAvoidsCommandBlocks ==
  /\ exact
  /\ pc = "block" /\ total < expected /\ expected <= chunk * (U16 - 2)
  => count >= 2

(* Every load call returns, unless a transfer falls short: a device that   *)
(* takes no bytes keeps download_dfuse in its loop.                        *)
LoadReturns == Running ~> (~ Running \/ ~ exact)
-----------------------------------------------------------------------------
(* What the comments say of these functions and the code does not do.      *)

(* load.h:92: erases relevant memory pages, transfers firmware data in     *)
(* chunks and concludes: the erasing comes to an end.                      *)
EraseConcludes == (pc = "erase") ~> (pc \notin { "erase", "erased" })

=============================================================================
