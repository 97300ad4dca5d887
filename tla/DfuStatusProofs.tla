-------------------------- MODULE DfuStatusProofs --------------------------
(***************************************************************************)
(* The safety properties of dfu_status.c for every poll budget, every set  *)
(* of replies and every content of the stack, in the builds where          *)
(* get_status reads back what libusb stored.                               *)
(***************************************************************************)
EXTENDS DfuStatus, TLAPS

(***************************************************************************)
(* The inductive invariant.  A wait in its loop has made as many polls as  *)
(* its counter says, which bounds them; and when it is between a poll and  *)
(* the loop condition behind it (a sleep, a CLRSTATUS, a reset), a code    *)
(* that is no error stands for a reply that was heard in full and decoded  *)
(* into status.                                                            *)
(***************************************************************************)
Decoded == heard.n = 6 /\ status = heard.payload

WaitInv ==
  /\ WaitTypeOK
  /\ at # "ret" => fn \in Waits
  /\ at = "abort" => i = 0 /\ polls = 0
  /\ at = "poll" => polls = i /\ i < max_wait_count
  /\ at \in { "clear", "reset", "sleep" } => polls = i + 1 /\ i < max_wait_count
  /\ at = "clear" => fn = "wait_for_manifest" /\ Decoded
  /\ at = "reset" =>
       fn \in { "wait_for_dfu_idle", "abort_and_wait_idle" } /\ Decoded
  /\ at = "sleep" =>
       /\ fn \in { "wait_for_download_idle", "wait_for_manifest" }
       /\ ec < 0 => heard.n # 6
       /\ ec >= 0 => Decoded
       /\ fn = "wait_for_download_idle" /\ ec >= 0 => status.state # "Error"

WaitSafe ==
  WaitInv /\ SuccessIsHeard /\ ErrorStateIsFailure /\ EarlySuccessIsTarget

-----------------------------------------------------------------------------
(* What a reply is, and what get_status makes of it.                       *)
LEMMA ErrorType ==
  ASSUME NEW e \in TransferErrors
  PROVE  e \in Int /\ e < 0
BY TransferErrorsAssumption

LEMMA ReplyType ==
  ASSUME NEW r \in transfer_status
  PROVE  /\ r.n \in Int
         /\ r.payload \in DeviceDfuStatus
         /\ StatusCode(r) \in Int
         /\ StatusCode(r) >= 0 <=> r.n = 6
         /\ StatusCode(r) < 0 <=> r.n # 6
<1>1. NoReading \in DeviceDfuStatus
  BY DEF NoReading, DeviceDfuStatus, DfuStatuses, DfuStates
<1>2. CASE r \in [n: {6}, payload: Readings]
  <2>1. r.n = 6 /\ r.payload \in DeviceDfuStatus
    BY <1>2, ReadingsAssumption
  <2> QED
    BY <2>1 DEF StatusCode, BootIoError_Success
<1>3. CASE r \in [n: {0, 5} \cup TransferErrors, payload: {NoReading}]
  <2>1. r.n \in {0, 5} \cup TransferErrors /\ r.payload = NoReading
    BY <1>3
  <2>2. r.n \in Int /\ r.n # 6
    BY <2>1, ErrorType
  <2>3. StatusCode(r) \in Int /\ StatusCode(r) < 0
    BY <2>2 DEF StatusCode, BootIoError_Other
  <2> QED
    BY <1>1, <2>1, <2>2, <2>3
<1> QED
  BY <1>2, <1>3 DEF transfer_status

LEMMA CodeReplyType ==
  ASSUME NEW r \in CodeReplies
  PROVE  r \in Int
BY ErrorType DEF CodeReplies, TransferReplies

LEMMA InitialHeard == [n |-> 0, payload |-> NoReading] \in transfer_status
BY DEF transfer_status

-----------------------------------------------------------------------------
LEMMA WaitInitSafe == WaitInit => WaitSafe
<1> SUFFICES ASSUME WaitInit PROVE WaitSafe
  OBVIOUS
<1>1. status \in DeviceDfuStatus /\ max_wait_count \in Nat /\ max_wait_count > 0
  BY WaitAssumption DEF WaitInit
<1>2. WaitInv
  BY <1>1, InitialHeard DEF WaitInit, WaitInv, WaitTypeOK
<1>3. fn \notin Waits
  BY DEF WaitInit, Waits
<1> QED
  BY <1>2, <1>3
     DEF WaitSafe, SuccessIsHeard, ErrorStateIsFailure, EarlySuccessIsTarget,
         Returned, Waits

LEMMA EnterSafe ==
  ASSUME WaitSafe, NEW f \in Waits, Enter(f)
  PROVE  WaitSafe'
<1>1. status' \in DeviceDfuStatus /\ max_wait_count \in Nat /\ max_wait_count > 0
  BY WaitAssumption DEF Enter
<1>2. WaitInv'
  BY <1>1 DEF WaitSafe, WaitInv, WaitTypeOK, Enter
<1>3. at' # "ret"
  BY DEF Enter
<1> QED
  BY <1>2, <1>3
     DEF WaitSafe, SuccessIsHeard, ErrorStateIsFailure, EarlySuccessIsTarget,
         Returned
-----------------------------------------------------------------------------
(***************************************************************************)
(* The loop condition, from a state whose counter is one behind its polls: *)
(* the next poll is within the budget, and a success is a heard one.       *)
(***************************************************************************)
LEMMA IterationSafe ==
  ASSUME WaitInv, fn \in Waits, NEW code \in Int, NEW st \in DeviceDfuStatus,
         i < max_wait_count, polls' = i + 1,
         fn' = fn, tolerant' = tolerant, nap' \in Nat,
         status' = st, heard' \in transfer_status,
         code >= 0 => heard'.n = 6 /\ st = heard'.payload,
         fn = "wait_for_download_idle" /\ code >= 0 => st.state # "Error",
         NextIteration(code, st)
  PROVE  WaitSafe'
<1> USE DEF WaitInv, WaitTypeOK
<1>1. i \in Nat /\ max_wait_count \in Nat /\ i' = i + 1 /\ i' <= max_wait_count
  BY WaitAssumption DEF NextIteration
<1>2. CASE i' < max_wait_count /\ st.state # Target[fn]
  <2>1. at' = "poll" /\ ec' = code
    BY <1>2 DEF NextIteration
  <2>2. WaitInv'
    BY <1>1, <1>2, <2>1
  <2> QED
    BY <2>1, <2>2
       DEF WaitSafe, SuccessIsHeard, ErrorStateIsFailure, EarlySuccessIsTarget,
           Returned
<1>3. CASE ~ (i' < max_wait_count /\ st.state # Target[fn])
  <2>1. at' = "ret" /\ ec' = Verdict(code, st)
    BY <1>3 DEF NextIteration, Return
  <2>2. ec' \in Int /\ (ec' >= 0 => code >= 0 /\ st.status = "Ok") /\ (code < 0 => ec' < 0)
    BY <2>1 DEF Verdict, BootIoError_Other
  <2>3. WaitInv'
    BY <1>1, <2>1, <2>2
  <2>4. SuccessIsHeard'
    BY <2>2 DEF SuccessIsHeard
  <2>5. ErrorStateIsFailure'
    BY <2>2 DEF ErrorStateIsFailure
  <2>6. EarlySuccessIsTarget'
    BY <1>1, <1>3, <2>2 DEF EarlySuccessIsTarget
  <2> QED
    BY <2>3, <2>4, <2>5, <2>6 DEF WaitSafe
<1> QED
  BY <1>2, <1>3

(* A step that returns an error, or stays within the call, risks nothing   *)
(* but the invariant.                                                      *)
LEMMA QuietStepSafe ==
  ASSUME WaitInv', ec' \in Int, at' # "ret" \/ ec' < 0
  PROVE  WaitSafe'
BY DEF WaitSafe, SuccessIsHeard, ErrorStateIsFailure, EarlySuccessIsTarget,
       Returned

LEMMA AbortSafe ==
  ASSUME WaitSafe, NEW r \in CodeReplies, Abort(r)
  PROVE  WaitSafe'
<1>1. r \in Int /\ max_wait_count \in Nat /\ max_wait_count > 0
  BY CodeReplyType, WaitAssumption
<1>2. WaitInv' /\ ec' \in Int /\ (at' # "ret" \/ ec' < 0)
  BY <1>1 DEF WaitSafe, WaitInv, WaitTypeOK, Abort, Return, Waits
<1> QED
  BY <1>2, QuietStepSafe
(* A poll of a build that stores leaves status decoded or untouched.       *)
LEMMA GetStatusStores ==
  ASSUME WaitInv, ConstBuffer = "stored", at = "poll",
         NEW r \in transfer_status, GetStatus(r)
  PROVE  /\ i \in Nat /\ max_wait_count \in Nat /\ i < max_wait_count
         /\ polls' = i + 1
         /\ heard' = r /\ status' \in DeviceDfuStatus
         /\ StatusCode(r) >= 0 => Decoded'
         /\ StatusCode(r) < 0 => heard'.n # 6
<1>1. polls = i /\ i \in Nat /\ i < max_wait_count /\ max_wait_count \in Nat
  BY WaitAssumption DEF WaitInv, WaitTypeOK
<1>2. status' = (IF r.n = 6 THEN r.payload ELSE status) /\ heard' = r
  BY DEF GetStatus, Decode
<1>3. polls' = i + 1
  BY <1>1 DEF GetStatus
<1> QED
  BY <1>1, <1>2, <1>3, ReplyType DEF WaitInv, WaitTypeOK, Decoded

LEMMA PollDownloadIdleSafe ==
  ASSUME WaitSafe, ConstBuffer = "stored",
         NEW r \in transfer_status, PollDownloadIdle(r)
  PROVE  WaitSafe'
<1> DEFINE code == StatusCode(r)
<1>1. WaitInv /\ at = "poll" /\ fn = "wait_for_download_idle" /\ GetStatus(r)
      /\ fn' = fn /\ i' = i /\ tolerant' = tolerant
  BY DEF WaitSafe, PollDownloadIdle
<1>2. /\ i \in Nat /\ max_wait_count \in Nat /\ i < max_wait_count
      /\ polls' = i + 1 /\ heard' = r /\ status' \in DeviceDfuStatus
      /\ code \in Int
      /\ code >= 0 => Decoded'
      /\ code < 0 => heard'.n # 6
  BY <1>1, GetStatusStores, ReplyType
<1>3. CASE code = BootIoError_Transfer_Pipe /\ Sleep(1, code)
  <2>1. at' = "sleep" /\ nap' = 1 /\ ec' = code /\ code < 0
    BY <1>3 DEF Sleep, BootIoError_Transfer_Pipe
  <2>2. WaitInv'
    BY <1>1, <1>2, <2>1 DEF WaitInv, WaitTypeOK
  <2> QED
    BY <1>2, <2>1, <2>2, QuietStepSafe
<1>4. CASE code < 0 /\ Return(code) /\ UNCHANGED nap
  <2>1. at' = "ret" /\ ec' = code
    BY <1>4 DEF Return
  <2>2. WaitInv'
    BY <1>1, <1>2, <1>4, <2>1 DEF WaitInv, WaitTypeOK
  <2> QED
    BY <1>2, <1>4, <2>1, <2>2, QuietStepSafe
<1>5. CASE code >= 0 /\ status'.state = "Error" /\ Return(BootIoError_Other)
           /\ UNCHANGED nap
  <2>1. at' = "ret" /\ ec' = -99
    BY <1>5 DEF Return, BootIoError_Other
  <2>2. WaitInv'
    BY <1>1, <1>2, <1>5, <2>1 DEF WaitInv, WaitTypeOK
  <2> QED
    BY <2>1, <2>2, QuietStepSafe
<1>6. CASE code >= 0 /\ status'.state # "Error" /\ Sleep(status'.timeout, code)
  <2>1. at' = "sleep" /\ nap' = status'.timeout /\ ec' = code
    BY <1>6 DEF Sleep
  <2>2. nap' \in Nat
    BY <1>2, <2>1 DEF DeviceDfuStatus
  <2>3. WaitInv'
    BY <1>1, <1>2, <1>6, <2>1, <2>2 DEF WaitInv, WaitTypeOK
  <2> QED
    BY <1>2, <2>1, <2>3, QuietStepSafe
<1> QED
  BY <1>3, <1>4, <1>5, <1>6 DEF PollDownloadIdle

LEMMA PollManifestSafe ==
  ASSUME WaitSafe, ConstBuffer = "stored",
         NEW r \in transfer_status, PollManifest(r)
  PROVE  WaitSafe'
<1> DEFINE code == StatusCode(r)
<1>1. WaitInv /\ at = "poll" /\ fn = "wait_for_manifest" /\ GetStatus(r)
      /\ fn' = fn /\ i' = i /\ tolerant' = tolerant
  BY DEF WaitSafe, PollManifest
<1>2. /\ i \in Nat /\ max_wait_count \in Nat /\ i < max_wait_count
      /\ polls' = i + 1 /\ heard' = r /\ status' \in DeviceDfuStatus
      /\ code \in Int
      /\ code >= 0 => Decoded'
      /\ code < 0 => heard'.n # 6
  BY <1>1, GetStatusStores, ReplyType
<1>3. CASE code < 0 /\ Return(code) /\ UNCHANGED nap
  <2>1. at' = "ret" /\ ec' = code
    BY <1>3 DEF Return
  <2>2. WaitInv'
    BY <1>1, <1>2, <1>3, <2>1 DEF WaitInv, WaitTypeOK
  <2> QED
    BY <1>2, <1>3, <2>1, <2>2, QuietStepSafe
<1>4. CASE code >= 0 /\ at' = "clear" /\ ec' = code /\ UNCHANGED nap
  <2>1. WaitInv'
    BY <1>1, <1>2, <1>4 DEF WaitInv, WaitTypeOK
  <2> QED
    BY <1>2, <1>4, <2>1, QuietStepSafe
<1>5. CASE code >= 0 /\ Sleep(status'.timeout, code)
  <2>1. at' = "sleep" /\ nap' = status'.timeout /\ ec' = code
    BY <1>5 DEF Sleep
  <2>2. nap' \in Nat
    BY <1>2, <2>1 DEF DeviceDfuStatus
  <2>3. WaitInv'
    BY <1>1, <1>2, <1>5, <2>1, <2>2 DEF WaitInv, WaitTypeOK
  <2> QED
    BY <1>2, <2>1, <2>3, QuietStepSafe
<1> QED
  BY <1>3, <1>4, <1>5 DEF PollManifest
LEMMA ClearStatusSafe ==
  ASSUME WaitSafe, NEW r \in CodeReplies, ClearStatus(r)
  PROVE  WaitSafe'
<1>1. WaitInv /\ r \in Int /\ max_wait_count \in Nat
  BY CodeReplyType, WaitAssumption DEF WaitSafe
<1>2. CASE r < 0
  <2>1. at' = "ret" /\ ec' = r /\ UNCHANGED nap
    BY <1>2 DEF ClearStatus, Return
  <2>2. WaitInv'
    BY <1>1, <2>1 DEF ClearStatus, WaitInv, WaitTypeOK
  <2> QED
    BY <1>1, <1>2, <2>1, <2>2, QuietStepSafe
<1>3. CASE r >= 0
  <2>1. at' = "sleep" /\ ec' = r /\ nap' = status.timeout
    BY <1>1, <1>3 DEF ClearStatus, Sleep
  <2>2. nap' \in Nat
    BY <1>1, <2>1 DEF WaitInv, WaitTypeOK, DeviceDfuStatus
  <2>3. Decoded' /\ fn' = "wait_for_manifest"
    BY <1>1 DEF ClearStatus, WaitInv, Decoded
  <2>4. WaitInv'
    BY <1>1, <1>3, <2>1, <2>2, <2>3 DEF ClearStatus, WaitInv, WaitTypeOK
  <2> QED
    BY <1>1, <2>1, <2>4, QuietStepSafe
<1> QED
  BY <1>1, <1>2, <1>3

LEMMA PollDfuIdleSafe ==
  ASSUME WaitSafe, ConstBuffer = "stored",
         NEW r \in transfer_status, PollDfuIdle(r)
  PROVE  WaitSafe'
<1> DEFINE code == StatusCode(r)
<1>1. WaitInv /\ at = "poll" /\ GetStatus(r)
      /\ fn \in { "wait_for_dfu_idle", "abort_and_wait_idle" }
      /\ fn' = fn /\ nap' = nap /\ tolerant' = tolerant
  BY DEF WaitSafe, PollDfuIdle
<1>2. /\ i \in Nat /\ max_wait_count \in Nat /\ i < max_wait_count
      /\ polls' = i + 1 /\ heard' = r /\ status' \in DeviceDfuStatus
      /\ code \in Int
      /\ code >= 0 => Decoded'
      /\ code < 0 => heard'.n # 6
  BY <1>1, GetStatusStores, ReplyType
<1>3. CASE code < 0 /\ Return(code) /\ UNCHANGED i
  <2>1. at' = "ret" /\ ec' = code
    BY <1>3 DEF Return
  <2>2. WaitInv'
    BY <1>1, <1>2, <1>3, <2>1 DEF WaitInv, WaitTypeOK
  <2> QED
    BY <1>2, <1>3, <2>1, <2>2, QuietStepSafe
<1>4. CASE /\ code >= 0 /\ status'.state = "ManifestWaitReset" /\ tolerant
           /\ Return(code) /\ UNCHANGED i
  <2>1. at' = "ret" /\ ec' = code /\ Decoded' /\ tolerant'
        /\ heard'.n = 6 /\ heard'.payload.state = "ManifestWaitReset"
    BY <1>1, <1>2, <1>4 DEF Return, Decoded
  <2>2. WaitInv'
    BY <1>1, <1>2, <1>4, <2>1 DEF WaitInv, WaitTypeOK
  <2> QED
    BY <1>1, <2>1, <2>2
       DEF WaitSafe, SuccessIsHeard, ErrorStateIsFailure, EarlySuccessIsTarget
<1>5. CASE code >= 0 /\ at' = "reset" /\ ec' = code /\ UNCHANGED i
  <2>1. WaitInv'
    BY <1>1, <1>2, <1>5 DEF WaitInv, WaitTypeOK
  <2> QED
    BY <1>2, <1>5, <2>1, QuietStepSafe
<1>6. CASE code >= 0 /\ NextIteration(code, status')
  <2>1. fn \in Waits /\ fn # "wait_for_download_idle"
    BY <1>1 DEF Waits
  <2>2. heard'.n = 6 /\ status' = heard'.payload /\ heard' \in transfer_status
    BY <1>2, <1>6 DEF Decoded
  <2>3. nap' \in Nat
    BY <1>1 DEF WaitInv, WaitTypeOK
  <2> HIDE DEF code
  <2> QED
    BY <1>1, <1>2, <1>6, <2>1, <2>2, <2>3, IterationSafe
<1> QED
  BY <1>3, <1>4, <1>5, <1>6 DEF PollDfuIdle

LEMMA ResetDeviceSafe ==
  ASSUME WaitSafe, NEW r \in CodeReplies, ResetDevice(r)
  PROVE  WaitSafe'
<1>1. WaitInv /\ r \in Int /\ max_wait_count \in Nat
  BY CodeReplyType, WaitAssumption DEF WaitSafe
<1>2. CASE r < 0
  <2>1. at' = "ret" /\ ec' = r /\ UNCHANGED i
    BY <1>2 DEF ResetDevice, Return
  <2>2. WaitInv'
    BY <1>1, <2>1 DEF ResetDevice, WaitInv, WaitTypeOK
  <2> QED
    BY <1>1, <1>2, <2>1, <2>2, QuietStepSafe
<1>3. CASE r >= 0
  <2>1. NextIteration(r, status)
    BY <1>1, <1>3 DEF ResetDevice
  <2>2. /\ fn \in Waits /\ fn # "wait_for_download_idle"
        /\ i < max_wait_count /\ polls' = i + 1
        /\ fn' = fn /\ tolerant' = tolerant /\ nap' \in Nat
        /\ status' = status /\ status \in DeviceDfuStatus
        /\ heard' \in transfer_status
        /\ heard'.n = 6 /\ status = heard'.payload
    BY <1>1 DEF ResetDevice, WaitInv, WaitTypeOK, Decoded, Waits
  <2> QED
    BY <1>1, <2>1, <2>2, IterationSafe
<1> QED
  BY <1>1, <1>2, <1>3

LEMMA WakeUpSafe ==
  ASSUME WaitSafe, WakeUp
  PROVE  WaitSafe'
<1>1. WaitInv /\ NextIteration(ec, status) /\ at = "sleep"
  BY DEF WaitSafe, WakeUp
<1>2. /\ fn \in Waits /\ i < max_wait_count /\ polls' = i + 1 /\ ec \in Int
      /\ fn' = fn /\ tolerant' = tolerant /\ nap' \in Nat
      /\ status' = status /\ status \in DeviceDfuStatus
      /\ heard' \in transfer_status
      /\ ec >= 0 => heard'.n = 6 /\ status = heard'.payload
      /\ fn = "wait_for_download_idle" /\ ec >= 0 => status.state # "Error"
  BY <1>1 DEF WakeUp, WaitInv, WaitTypeOK, Decoded
<1> QED
  BY <1>1, <1>2, IterationSafe

-----------------------------------------------------------------------------
LEMMA WaitStepSafe ==
  ASSUME WaitSafe, ConstBuffer = "stored", WaitStep
  PROVE  WaitSafe'
<1>1. ASSUME NEW r \in transfer_status,
             PollDownloadIdle(r) \/ PollManifest(r) \/ PollDfuIdle(r)
      PROVE  WaitSafe'
  BY <1>1, PollDownloadIdleSafe, PollManifestSafe, PollDfuIdleSafe
<1>2. ASSUME NEW r \in CodeReplies, Abort(r) \/ ClearStatus(r) \/ ResetDevice(r)
      PROVE  WaitSafe'
  BY <1>2, AbortSafe, ClearStatusSafe, ResetDeviceSafe
<1> QED
  BY <1>1, <1>2, WakeUpSafe DEF WaitStep, Poll, Request

LEMMA WaitStutterSafe ==
  ASSUME WaitSafe, UNCHANGED waitVars
  PROVE  WaitSafe'
BY DEF WaitSafe, WaitInv, WaitTypeOK, Decoded, SuccessIsHeard,
       ErrorStateIsFailure, EarlySuccessIsTarget, Returned, waitVars

(* The invariant holds of every behaviour of a build that stores.          *)
THEOREM WaitInvariance ==
  ASSUME ConstBuffer = "stored"
  PROVE  WaitSpec => []WaitSafe
<1>1. WaitSafe /\ [WaitNext]_waitVars => WaitSafe'
  BY EnterSafe, WaitStepSafe, WaitStutterSafe DEF WaitNext, WaitCall
<1> QED
  BY <1>1, WaitInitSafe, PTL DEF WaitSpec

(* The registers of a wait keep their types, and a wait never polls more   *)
(* than max_wait_count times.                                              *)
THEOREM WaitTypes ==
  ASSUME ConstBuffer = "stored"
  PROVE  WaitSpec => []WaitTypeOK
<1>1. WaitSafe => WaitTypeOK
  BY DEF WaitSafe, WaitInv
<1> QED
  BY <1>1, WaitInvariance, PTL

(* A wait that succeeds was told so by a whole status with code Ok, or by  *)
(* the ManifestWaitReset shortcut; uninitialised stack never decides.      *)
THEOREM HeardSuccess ==
  ASSUME ConstBuffer = "stored"
  PROVE  WaitSpec => []SuccessIsHeard
<1>1. WaitSafe => SuccessIsHeard
  BY DEF WaitSafe
<1> QED
  BY <1>1, WaitInvariance, PTL

(* wait_for_download_idle fails on dfuERROR, whatever status comes with it.*)
THEOREM ErrorIsFailure ==
  ASSUME ConstBuffer = "stored"
  PROVE  WaitSpec => []ErrorStateIsFailure
<1>1. WaitSafe => ErrorStateIsFailure
  BY DEF WaitSafe
<1> QED
  BY <1>1, WaitInvariance, PTL

(* A wait that succeeds with polls to spare has seen its target state.     *)
THEOREM EarlySuccess ==
  ASSUME ConstBuffer = "stored"
  PROVE  WaitSpec => []EarlySuccessIsTarget
<1>1. WaitSafe => EarlySuccessIsTarget
  BY DEF WaitSafe
<1> QED
  BY <1>1, WaitInvariance, PTL
=============================================================================
