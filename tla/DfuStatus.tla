----------------------------- MODULE DfuStatus -----------------------------
(***************************************************************************)
(* dfu_status.c: get_status and the four functions that poll it until the  *)
(* device is where the caller wants it.  The device is arbitrary: each     *)
(* request may get any reply.                                              *)
(*                                                                         *)
(* A call runs as `at` says; it makes one transfer, or one sleep, per step,*)
(* so that whatever shares the state can act between two of them.          *)
(***************************************************************************)
EXTENDS DfuTypes

CONSTANTS
  max_wait_count, (* polls of one wait: 10 in the program                  *)
  StackGarbage    (* what an uninitialised DeviceDfuStatus may hold        *)

ASSUME WaitAssumption ==
  /\ max_wait_count \in Nat /\ max_wait_count > 0
  /\ StackGarbage \subseteq DeviceDfuStatus /\ StackGarbage # {}

VARIABLES
  fn,       (* the function running, or the last one to return             *)
  at,       (* what it does next; "ret" when none runs                     *)
  i,        (* its loop counter                                            *)
  ec,       (* its error code, and its result once at = "ret"              *)
  status,   (* its local struct DeviceDfuStatus                            *)
  nap,      (* milliseconds of its next sleep                              *)
  tolerant, (* bitManifestationTolerant of config->func_dt.attributes      *)
  heard,    (* history: the last GETSTATUS reply                           *)
  polls     (* history: GETSTATUS requests of this call, saturating        *)

waitVars == << fn, at, i, ec, status, nap, tolerant, heard, polls >>

Waits == { "wait_for_download_idle", "wait_for_manifest",
           "wait_for_dfu_idle", "abort_and_wait_idle" }

(* The state a wait is for: the loop ends when the device reports it.      *)
Target ==
  [ f \in Waits |-> CASE f = "wait_for_download_idle" -> "DownloadIdle"
                      [] f = "wait_for_manifest"      -> "Manifest"
                      [] OTHER                        -> "Idle" ]

(* Slips the mutation runs put in the place of the definition below.       *)
DecodeIsFolded(r) == NoReading

(***************************************************************************)
(* get_status.  Its buffer is a const object libusb writes through a cast  *)
(* pointer, which is undefined: a build either reads the stored bytes back *)
(* or has folded the initialiser, {0, 0, 0, 0, DfuState_Error, 0}.         *)
(***************************************************************************)
Decode(r) == IF ConstBuffer = "stored" THEN r.payload ELSE NoReading

StatusCode(r) ==
  CASE r.n < 0 -> r.n
    [] r.n = 6 -> BootIoError_Success
    [] OTHER   -> BootIoError_Other

GetStatus(r) ==
  /\ status' = IF r.n = 6 THEN Decode(r) ELSE status
  /\ heard'  = r
  /\ polls'  = IF polls <= max_wait_count THEN polls + 1 ELSE polls

(* Slips the mutation runs put in the place of the definition below.       *)
VerdictIgnoresStatus(code, st) == code

(* The value of the return statement that ends each of the three loops.    *)
Verdict(code, st) ==
  IF code > -1 /\ st.status # "Ok" THEN BootIoError_Other ELSE code

Return(code) == at' = "ret" /\ ec' = code

Sleep(ms, code) == at' = "sleep" /\ nap' = ms /\ ec' = code

NextIterationForgetsCount(code, st) ==
  /\ i' = i
  /\ IF i + 1 < max_wait_count /\ st.state # Target[fn]
       THEN at' = "poll" /\ ec' = code
       ELSE Return(Verdict(code, st))

NextIterationGivesUp(code, st) ==
  /\ i' = i + 1
  /\ IF i' < max_wait_count - 1 /\ st.state # Target[fn]
       THEN at' = "poll" /\ ec' = code
       ELSE Return(Verdict(code, st))

(* The loop condition `++i < max_wait_count && state # target`.            *)
NextIteration(code, st) ==
  /\ i' = i + 1
  /\ IF i' < max_wait_count /\ st.state # Target[fn]
       THEN at' = "poll" /\ ec' = code
       ELSE Return(Verdict(code, st))

-----------------------------------------------------------------------------
(* A call: `struct DeviceDfuStatus status;` starts as whatever is there.   *)
Enter(f) ==
  /\ fn' = f
  /\ at' = IF f = "abort_and_wait_idle" THEN "abort" ELSE "poll"
  /\ i' = 0
  /\ polls' = 0
  /\ status' \in StackGarbage
  /\ UNCHANGED << ec, nap, tolerant, heard >>

Abort(r) ==
  /\ at = "abort"
  /\ IF r < 0 THEN Return(r) ELSE at' = "poll" /\ ec' = r
  /\ UNCHANGED << fn, i, status, nap, tolerant, heard, polls >>

PollDownloadIdleToleratesError(r) ==
  LET code == StatusCode(r) IN
  /\ at = "poll" /\ fn = "wait_for_download_idle"
  /\ GetStatus(r)
  /\ \/ /\ code = BootIoError_Transfer_Pipe
        /\ Sleep(1, code)
     \/ /\ code < 0 /\ code # BootIoError_Transfer_Pipe
        /\ Return(code) /\ UNCHANGED nap
     \/ code >= 0 /\ Sleep(status'.timeout, code)
  /\ UNCHANGED << fn, i, tolerant >>

(* A pipe error is slept over and retried: `continue` jumps to the loop    *)
(* condition, which then reads a status no reply has filled.               *)
PollDownloadIdle(r) ==
  LET code == StatusCode(r) IN
  /\ at = "poll" /\ fn = "wait_for_download_idle"
  /\ GetStatus(r)
  /\ \/ /\ code = BootIoError_Transfer_Pipe
        /\ Sleep(1, code)
     \/ /\ code < 0 /\ code # BootIoError_Transfer_Pipe
        /\ Return(code) /\ UNCHANGED nap
     \/ /\ code >= 0 /\ status'.state = "Error"
        /\ Return(BootIoError_Other) /\ UNCHANGED nap
     \/ /\ code >= 0 /\ status'.state # "Error"
        /\ Sleep(status'.timeout, code)
  /\ UNCHANGED << fn, i, tolerant >>

PollManifest(r) ==
  LET code == StatusCode(r) IN
  /\ at = "poll" /\ fn = "wait_for_manifest"
  /\ GetStatus(r)
  /\ \/ code < 0 /\ Return(code) /\ UNCHANGED nap
     \/ /\ code >= 0 /\ status'.state = "Error"
        /\ at' = "clear" /\ ec' = code /\ UNCHANGED nap
     \/ /\ code >= 0 /\ status'.state # "Error"
        /\ Sleep(status'.timeout, code)
  /\ UNCHANGED << fn, i, tolerant >>

(* wait_for_manifest answers dfuERROR with CLRSTATUS and keeps polling.    *)
ClearStatus(r) ==
  /\ at = "clear"
  /\ IF r < 0 THEN Return(r) /\ UNCHANGED nap ELSE Sleep(status.timeout, r)
  /\ UNCHANGED << fn, i, status, tolerant, heard, polls >>

(* wait_for_dfu_idle does not sleep between polls.                         *)
PollDfuIdle(r) ==
  LET code == StatusCode(r) IN
  /\ at = "poll" /\ fn \in { "wait_for_dfu_idle", "abort_and_wait_idle" }
  /\ GetStatus(r)
  /\ \/ code < 0 /\ Return(code) /\ UNCHANGED i
     \/ /\ code >= 0 /\ status'.state = "ManifestWaitReset"
        /\ IF tolerant THEN Return(code) ELSE at' = "reset" /\ ec' = code
        /\ UNCHANGED i
     \/ /\ code >= 0 /\ status'.state # "ManifestWaitReset"
        /\ NextIteration(code, status')
  /\ UNCHANGED << fn, nap, tolerant >>

ResetDevice(r) ==
  /\ at = "reset"
  /\ IF r < 0 THEN Return(r) /\ UNCHANGED i ELSE NextIteration(r, status)
  /\ UNCHANGED << fn, status, nap, tolerant, heard, polls >>

WakeUp ==
  /\ at = "sleep" /\ fn \in Waits
  /\ NextIteration(ec, status)
  /\ UNCHANGED << fn, status, nap, tolerant, heard, polls >>

-----------------------------------------------------------------------------
Poll == \E r \in transfer_status :
          PollDownloadIdle(r) \/ PollManifest(r) \/ PollDfuIdle(r)

Request == \E r \in CodeReplies : Abort(r) \/ ClearStatus(r) \/ ResetDevice(r)

WaitStep == Poll \/ Request \/ WakeUp

WaitCall == at = "ret" /\ \E f \in Waits : Enter(f)

WaitInit ==
  /\ fn = "none" /\ at = "ret"
  /\ i = 0 /\ ec = 0 /\ nap = 0 /\ polls = 0
  /\ status \in StackGarbage
  /\ tolerant \in BOOLEAN
  /\ heard = [n |-> 0, payload |-> NoReading]

WaitNext == WaitCall \/ WaitStep

WaitSpec == WaitInit /\ [][WaitNext]_waitVars

(* The host thread keeps running and every transfer ends, at the latest    *)
(* when bootio_transfer_timeout (200 ms unless changed) has passed.        *)
FairWaitSpec == WaitSpec /\ WF_waitVars(WaitStep)

-----------------------------------------------------------------------------
WaitTypeOK ==
  /\ fn \in Waits \cup {"none"}
  /\ at \in { "ret", "abort", "poll", "clear", "reset", "sleep" }
  /\ i \in 0 .. max_wait_count
  /\ ec \in Int
  /\ status \in DeviceDfuStatus
  /\ nap \in Nat
  /\ tolerant \in BOOLEAN
  /\ heard \in transfer_status
  /\ polls \in 0 .. max_wait_count

Returned == at = "ret" /\ fn \in Waits

(* No wait reports success on the strength of an uninitialised or stale    *)
(* status: the last GETSTATUS was answered in full, and with status Ok     *)
(* unless wait_for_dfu_idle left through its ManifestWaitReset shortcut.   *)
SuccessIsHeard ==
  Returned /\ ec >= 0 =>
    /\ heard.n = 6
    /\ \/ heard.payload.status = "Ok"
       \/ /\ fn \in { "wait_for_dfu_idle", "abort_and_wait_idle" }
          /\ tolerant
          /\ heard.payload.state = "ManifestWaitReset"

(* A device in dfuERROR never counts as success of wait_for_download_idle, *)
(* whatever status code it pairs with that state.                          *)
ErrorStateIsFailure ==
  Returned /\ fn = "wait_for_download_idle" /\ heard.n = 6
           /\ heard.payload.state = "Error" => ec < 0

(* A wait that succeeds before its budget of polls is spent has seen the   *)
(* state it waits for (or the ManifestWaitReset shortcut).                 *)
EarlySuccessIsTarget ==
  Returned /\ ec >= 0 /\ polls < max_wait_count =>
    \/ heard.payload.state = Target[fn]
    \/ tolerant /\ heard.payload.state = "ManifestWaitReset"

(* Every call returns.                                                     *)
WaitReturns == (at # "ret") ~> (at = "ret")

=============================================================================
