---------------------------- MODULE DfuseSystem ----------------------------
(***************************************************************************)
(* The DfuSe load functions at work on a device: every request of          *)
(* LoadDfuse gets the reply DfuDevice gives.  What a call promises can now *)
(* be compared with what becomes of the device's memory.                   *)
(***************************************************************************)
EXTENDS LoadDfuse, DfuDevice

systemVars == << vars, deviceVars >>

Polls(r) ==
  \/ PollCommand(r)
  \/ (PollDownloadIdle(r) \/ PollManifest(r) \/ PollDfuIdle(r)) /\ UNCHANGED command

-----------------------------------------------------------------------------
(* The caller asks for any size in blocks of any length: nothing looks at  *)
(* the transfer size of the device, by which it takes block numbers for    *)
(* addresses.  Nothing of the image is on the device yet.  A new handle    *)
(* reaches a device that has crashed.                                      *)
SystemCall ==
  /\ \E f \in { "upload_dfuse", "download_dfuse" }, a \in Addresses, size \in Sizes,
        c \in ChunkSizes : Call(f, a, size, c)
  /\ flash' = [a \in Memory |-> Foreign]
  /\ fetched' = << >> /\ plugged' = TRUE
  /\ prompt' = (dev.state = "Idle")
  /\ UNCHANGED dev

(* libusb_open, and the requests of commands and waits.  None resets the   *)
(* device: the one wait that may do so follows an abort, which leaves the  *)
(* device in dfuIDLE and not waiting for a reset.                          *)
OpenDevice ==
  \E r \in CodeReplies :
    /\ OpenDownload(r) \/ OpenUpload(r)
    /\ prompt' = (prompt /\ r >= 0)
    /\ UNCHANGED << dev, flash, fetched, plugged >>

AskStatus ==
  at = "poll" /\ \E r \in transfer_status :
    StatusRequest(tolerant, r) /\ Polls(r) /\ UNCHANGED << loadVars, dfuseVars >>

GiveCommand ==
  LET length == CommandLength(command) IN
  \E r \in TransferReplies(length) :
    /\ SendCommand(r) /\ Dnload(length, CommandJob(command), r)
    /\ UNCHANGED << loadVars, dfuseVars >>

Recover ==
  \E r \in CodeReplies :
    /\ \/ Abort(r) /\ AbortRequest(r)
       \/ ClearStatus(r) /\ ClearStatusRequest(r)
    /\ UNCHANGED << command, loadVars, dfuseVars >>

-----------------------------------------------------------------------------
(* The requests of the load functions themselves.                          *)
GiveBlock ==
  \E r \in TransferReplies(SendLength) :
    SendBlock(r) /\ Dnload(SendLength, WriteJob(count, head, SendLength), r)

FetchBlock ==
  \E r \in TransferReplies(ReadLength) : ReadBlock(r) /\ Upload(count, ReadLength, r)

Finish ==
  \E r \in CodeReplies :
    \/ AbortCommand(r) /\ AbortRequest(r)
    \/ Release(r) /\ AbortRequest(r)
    \/ Terminate(r) /\ Dnload(0, NoJob, r)

(* What the host does between two requests.                                *)
Compute ==
  /\ \/ Control
     \/ /\ WakeUpCommand \/ (WakeUp /\ UNCHANGED command)
        /\ UNCHANGED << loadVars, dfuseVars >>
  /\ UNCHANGED deviceVars

HostStep ==
  OpenDevice \/ AskStatus \/ GiveCommand \/ Recover \/ GiveBlock \/ FetchBlock
    \/ Finish \/ Compute

CrashStep == Crash /\ UNCHANGED vars

SystemInit == Init /\ DeviceInit

SystemNext == SystemCall \/ HostStep \/ CrashStep

SystemSpec == SystemInit /\ [][SystemNext]_systemVars

(* The host's thread runs on; whether the device does is its own affair.   *)
FairSystemSpec == SystemSpec /\ WF_systemVars(HostStep)

-----------------------------------------------------------------------------
(* A download in blocks of the transfer size that returns a count has put  *)
(* the image where it belongs: at each address behind the start the byte   *)
(* of that offset, through lost answers, slow jobs, crashes, and whatever  *)
(* earlier calls left behind.                                              *)
SuccessIsProgrammed ==
  Done("download_dfuse") =>
    \A k \in 0 .. result - 1 : start + k \in Memory /\ flash[start + k] = k

(* An upload in blocks of the transfer size that returns a count has read  *)
(* the addresses behind the start, in order, into the buffer.              *)
SuccessIsFetched ==
  Done("upload_dfuse") => fetched = [k \in 1 .. result |-> start + k - 1]

(* A device in dfuIDLE that does its jobs in time gets no request it must  *)
(* stall: the polls of the commands and of the waits keep host and device  *)
(* in step from the first request of a call to the last.                   *)
PromptDeviceNeverStalls == prompt => dev.state # "Error"

(* A device in dfuERROR before the end of the image ends the call: nothing *)
(* the load functions send it from there on clears the error, so that only *)
(* a failure gets them out, and the next call finds the device as it is.   *)
Stuck ==
  /\ plugged /\ dev.state = "Error"
  /\ Running /\ pc \notin { "terminate", "manifested" }

ErrorEndsTheCall ==
  [][ Stuck => \/ Stuck' \/ ~ plugged'
               \/ pc' = "done" /\ result' < 0 /\ dev'.state = "Error" ]_systemVars

(* And the call succeeds on it, as long as the descriptor can be parsed    *)
(* and, for an upload, the lookup finds a readable segment.                *)
Feasible ==
  /\ CanParse(alt_name)
  /\ op = "upload_dfuse" =>
       /\ UploadSegment # 0
       /\ segment_list[UploadSegment].type = MemorySegmentType_Readable

PromptDeviceIsServed ==
  Running /\ prompt /\ Feasible ~> ~ prompt \/ (pc = "done" /\ result >= 0)
-----------------------------------------------------------------------------
(* What the comments say of download_dfuse and the code does not do.       *)

PagesOf(segment) ==
  { p \in segment.start .. segment.end - 1 : (p - segment.start) % segment.page_size = 0 }

(* load_dfuse.c:19, pages are erased "starting at the given address for    *)
(* the specified size": all that can be, and that the image touches.       *)
RelevantPages ==
  LET Nodes == { k \in DOMAIN segment_list : segment_list[k].type \in
                   { MemorySegmentType_Writable, MemorySegmentType_Erasable } }
      InRange(s) == { p \in PagesOf(s) : p < start + expected /\ start < p + s.page_size }
  IN  UNION { InRange(segment_list[k]) : k \in Nodes }

(* load.h:92 to :102: a download that returns the "number of bytes         *)
(* successfully downloaded" has erased the relevant pages and written the  *)
(* firmware at start_address, whatever chunk_size it was called with: on a *)
(* device whose transfer size is not the 1024 of main.c:172, too.          *)
CountIsErasedAndWritten ==
  Done("download_dfuse") =>
    /\ RelevantPages \subseteq erased
    /\ \A k \in 0 .. result - 1 : start + k \in Memory => flash[start + k] = k
=============================================================================
