----------------------------- MODULE DfuDevice -----------------------------
(***************************************************************************)
(* The device at the other end of the cable: the DFU 1.1 state machine     *)
(* with the DfuSe commands, as far as the requests of the library reach    *)
(* it.  It is no part of the repository; the library is written for it.    *)
(*                                                                         *)
(* A DNLOAD leaves a job that the following GETSTATUS starts; the device   *)
(* is in dfuDNBUSY until it has done it.  A request it cannot take in its  *)
(* state, or a block longer than its transfer size, it stalls, and goes to *)
(* dfuERROR.  Requests and answers get lost, a job may take long or fail,  *)
(* and the device may crash at any time.                                   *)
(***************************************************************************)
EXTENDS DfuTypes, Sequences

CONSTANTS
  Memory,        (* the addresses the device has                           *)
  FlashPage,     (* bytes an erase command erases                          *)
  TransferSize,  (* bytes of a block, by which block numbers are addresses *)
  MaxBusy        (* bound: polls a job outlasts                            *)

ASSUME DeviceAssumption ==
  /\ Memory \subseteq Nat
  /\ FlashPage \in Nat \ {0} /\ TransferSize \in 1 .. U16 - 1
  /\ MaxBusy \in Nat

VARIABLES
  dev,     (* DFU state and status, address pointer, job, polls it takes   *)
  flash,   (* which offset of the image each address holds                 *)
  fetched, (* history: the addresses read by the host, in order            *)
  plugged, (* whether the host's handle still reaches the device           *)
  prompt   (* history: since the call began nothing was lost, late, failed *)

deviceVars == << dev, flash, fetched, plugged, prompt >>

(* Not a byte of the image in hand.                                        *)
Foreign == -1

NoJob == [op |-> "None", address |-> 0, first |-> 0, length |-> 0]

CommandJob(c) == [op |-> c.op, address |-> c.address, first |-> 0, length |-> 0]

(* A DfuSe block lies at a distance of the address pointer.                *)
BlockAddress(block) == dev.pointer + (block - 2) * TransferSize

WriteJob(block, first, length) ==
  [op |-> "Write", address |-> BlockAddress(block), first |-> first, length |-> length]

Touched(j) ==
  CASE j.op = "Write"     -> j.address .. j.address + j.length - 1
    [] j.op = "ErasePage" -> { a \in Memory : a \div FlashPage = j.address \div FlashPage }
    [] OTHER              -> {}

CanDo(j) ==
  /\ j.op \in { "Write", "ErasePage", "SetAddress" }
  /\ j.address \in Memory /\ Touched(j) \subseteq Memory

FlashAfter(j) ==
  [ a \in Memory |-> IF a \notin Touched(j) THEN flash[a]
                     ELSE IF j.op = "Write" THEN j.first + a - j.address
                     ELSE Foreign ]

-----------------------------------------------------------------------------
(* The request reached the device and was answered; the host hears the     *)
(* answer, or one of the errors in its place.                              *)
Answered(r, answer, lost) ==
  /\ plugged /\ r \in {answer} \cup lost
  /\ prompt' = (prompt /\ r = answer)
  /\ UNCHANGED plugged

(* The request did not reach the device.                                   *)
Unheard(r, lost) ==
  /\ r \in lost
  /\ prompt' = FALSE
  /\ UNCHANGED << dev, flash, fetched, plugged >>

Stall(r) ==
  /\ Answered(r, BootIoError_Transfer_Pipe, TransferErrors)
  /\ dev' = [dev EXCEPT !.state = "Error", !.status = "Failed", !.job = NoJob]
  /\ UNCHANGED << flash, fetched >>

(* DNLOAD: a block or a command, or, with no data, the end of the image.   *)
Dnload(length, job, r) ==
  \/ Unheard(r, TransferErrors)
  \/ IF dev.state \notin { "Idle", "DownloadIdle" } \/ job.length > TransferSize
       THEN Stall(r)
       ELSE /\ Answered(r, length, TransferErrors)
            /\ dev' = [dev EXCEPT !.job = job,
                         !.state = IF length = 0 THEN "ManifestSync" ELSE "DownloadSync"]
            /\ UNCHANGED << flash, fetched >>

(* UPLOAD: the end of the memory makes the transfer short.                 *)
Upload(block, length, r) ==
  LET first == BlockAddress(block)
      read  == { a \in first .. first + length - 1 : a \in Memory }
      n     == IF read = {} THEN 0
               ELSE 1 + (CHOOSE a \in read : \A b \in read : b <= a) - first
  IN
  \/ Unheard(r, TransferErrors)
  \/ IF dev.state \notin { "Idle", "UploadIdle" } \/ length > TransferSize
       THEN Stall(r)
       ELSE /\ Answered(r, n, TransferErrors)
            /\ dev' = [dev EXCEPT !.state = IF n < length THEN "Idle" ELSE "UploadIdle"]
            /\ fetched' = fetched \o [k \in 1 .. n |-> first + k - 1]
            /\ UNCHANGED flash

AbortRequest(r) ==
  \/ Unheard(r, TransferErrors)
  \/ IF dev.state \in { "DownloadBusy", "Manifest", "ManifestWaitReset", "Error" }
       THEN Stall(r)
       ELSE /\ Answered(r, 0, TransferErrors)
            /\ dev' = [dev EXCEPT !.state = "Idle", !.job = NoJob]
            /\ UNCHANGED << flash, fetched >>

ClearStatusRequest(r) ==
  \/ Unheard(r, TransferErrors)
  \/ IF dev.state # "Error"
       THEN Stall(r)
       ELSE /\ Answered(r, 0, TransferErrors)
            /\ dev' = [dev EXCEPT !.state = "Idle", !.status = "Ok"]
            /\ UNCHANGED << flash, fetched >>

-----------------------------------------------------------------------------
(* What a GETSTATUS makes of the device before it is answered.  A job ends *)
(* in dfuDNLOAD-IDLE or fails; a manifest leaves the DFU mode or not.      *)
StartJob ==
  /\ dev.state = "DownloadSync"
  /\ \E b \in 0 .. MaxBusy : dev' = [dev EXCEPT !.state = "DownloadBusy", !.busy = b]
  /\ UNCHANGED flash

StayBusy ==
  /\ dev.state = "DownloadBusy" /\ dev.busy > 0
  /\ dev' = [dev EXCEPT !.busy = @ - 1]
  /\ UNCHANGED flash

EndJob ==
  /\ dev.state = "DownloadBusy" /\ dev.busy = 0 /\ CanDo(dev.job)
  /\ dev' = [dev EXCEPT !.state = "DownloadIdle", !.job = NoJob,
               !.pointer = IF dev.job.op = "SetAddress" THEN dev.job.address ELSE @]
  /\ flash' = FlashAfter(dev.job)

FailJob ==
  /\ dev.state = "DownloadBusy"
  /\ dev' = [dev EXCEPT !.state = "Error", !.status = "Failed", !.job = NoJob, !.busy = 0]
  /\ UNCHANGED flash

Manifest(tolerant) ==
  /\ dev.state \in { "ManifestSync", "Manifest" }
  /\ dev' = [dev EXCEPT !.state = IF @ = "ManifestSync" THEN "Manifest"
                                  ELSE IF tolerant THEN "Idle" ELSE "ManifestWaitReset"]
  /\ UNCHANGED flash

Rest ==
  /\ dev.state \notin { "DownloadSync", "DownloadBusy", "ManifestSync", "Manifest" }
  /\ UNCHANGED << dev, flash >>

Reading == [n |-> 6, payload |-> [status |-> dev'.status, timeout |-> 0, state |-> dev'.state]]

NoReply == [n: TransferErrors, payload: {NoReading}]

StatusRequest(tolerant, r) ==
  \/ Unheard(r, NoReply)
  \/ /\ StartJob \/ StayBusy \/ EndJob \/ FailJob \/ Manifest(tolerant) \/ Rest
     /\ plugged /\ r \in {Reading} \cup NoReply
     /\ prompt' = (prompt /\ r = Reading /\ dev'.busy = 0 /\ dev'.status = "Ok")
     /\ UNCHANGED << fetched, plugged >>

(* The device restarts, in whatever it was doing: the flash stays, but for *)
(* what the job in hand may have done to it, and the handle is lost.       *)
Crash ==
  /\ plugged
  /\ dev' = [dev EXCEPT !.state = "Idle", !.status = "Ok", !.pointer = 0,
               !.job = NoJob, !.busy = 0]
  /\ \/ UNCHANGED flash
     \/ /\ dev.state = "DownloadBusy" /\ CanDo(dev.job)
        /\ flash' = [ a \in Memory |-> IF a \in Touched(dev.job) THEN Foreign ELSE flash[a] ]
  /\ plugged' = FALSE /\ prompt' = FALSE
  /\ UNCHANGED fetched

DeviceInit ==
  /\ dev = [state |-> "Idle", status |-> "Ok", pointer |-> 0, job |-> NoJob, busy |-> 0]
  /\ flash = [a \in Memory |-> Foreign]
  /\ fetched = << >> /\ plugged = TRUE /\ prompt = TRUE
=============================================================================
