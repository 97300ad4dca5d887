-------------------------- MODULE LoadDfuseProofs --------------------------
(***************************************************************************)
(* What load_dfuse.c guarantees against every device: for all firmware     *)
(* sizes, chunk sizes, descriptors, poll budgets and replies.  First what  *)
(* a call sends, reads and reports, then which block numbers carry its     *)
(* data and which pages it erases.                                         *)
(***************************************************************************)
EXTENDS LoadDfuse, DfuseCommandProofs, MemorySegmentProofs

(* Every error a callee can leave in ec.                                   *)
CalleeErrors ==
  TransferErrors \cup { BootIoError_Other, BootIoError_Transfer_Pipe }

Codes == Nat \cup CalleeErrors

-----------------------------------------------------------------------------
LEMMA ErrorCode ==
  ASSUME NEW e \in CalleeErrors
  PROVE  e \in Int /\ e < 0
BY TransferErrorsAssumption
   DEF CalleeErrors, BootIoError_Other, BootIoError_Transfer_Pipe

LEMMA CodeType ==
  ASSUME NEW c \in Codes
  PROVE  c \in Int /\ (c < 0 => c \in CalleeErrors)
BY ErrorCode DEF Codes

(* What a data transfer, a request and a GETSTATUS return.                 *)
LEMMA DataReply ==
  ASSUME NEW len \in Nat, NEW r \in TransferReplies(len)
  PROVE  r \in Codes /\ (r >= 0 => r \in Nat /\ r <= len)
<1>1. CASE r \in TransferErrors
  BY <1>1, ErrorCode DEF CalleeErrors, Codes
<1>2. CASE r \in 0 .. len
  BY <1>2 DEF Codes
<1> QED
  BY <1>1, <1>2 DEF TransferReplies

LEMMA CodeReply == ASSUME NEW r \in CodeReplies PROVE r \in Codes
BY DataReply DEF CodeReplies

LEMMA StatusReply ==
  ASSUME NEW r \in transfer_status
  PROVE  StatusCode(r) \in Codes
<1>1. r.n \in {0, 5, 6} \cup TransferErrors
  BY DEF transfer_status
<1>2. CASE r.n \in TransferErrors
  BY <1>2, ErrorCode DEF StatusCode, CalleeErrors, Codes
<1>3. CASE r.n \in {0, 5, 6}
  BY <1>3 DEF StatusCode, CalleeErrors, Codes, BootIoError_Success
<1> QED
  BY <1>1, <1>2, <1>3

-----------------------------------------------------------------------------
(* The offsets of two transfers, one behind the other, are those of one.   *)
LEMMA OffsetsFollow ==
  ASSUME NEW a \in Nat, NEW m \in Nat, NEW n \in Nat
  PROVE  Offsets(a, m) \o Offsets(a + m, n) = Offsets(a, m + n)
<1> DEFINE s == Offsets(a, m)
           t == Offsets(a + m, n)
           u == Offsets(a, m + n)
<1>1. /\ s \in Seq(Nat) /\ t \in Seq(Nat) /\ u \in Seq(Nat)
      /\ Len(s) = m /\ Len(t) = n /\ Len(u) = m + n
  BY DEF Offsets
<1>2. s \o t \in Seq(Nat) /\ Len(s \o t) = m + n
  BY <1>1, ConcatProperties
<1>3. ASSUME NEW k \in 1 .. m + n PROVE (s \o t)[k] = u[k]
  BY <1>1, ConcatProperties DEF Offsets
<1> QED
  BY <1>1, <1>2, <1>3, SeqEqual

LEMMA OffsetsJoin ==
  ASSUME NEW m \in Nat, NEW n \in Nat
  PROVE  Offsets(0, m) \o Offsets(m, n) = Offsets(0, m + n)
<1>1. 0 + m = m
  OBVIOUS
<1> QED
  BY <1>1, OffsetsFollow

LEMMA OffsetsNone == Offsets(0, 0) = << >>
BY DEF Offsets

LEMMA Remainder ==
  ASSUME NEW n \in Nat, NEW m \in Nat, m > 0
  PROVE  n % m \in Nat /\ n % m <= n
OBVIOUS

-----------------------------------------------------------------------------
(***************************************************************************)
(* The code a callee leaves.                                               *)
(***************************************************************************)
LEMMA PipeCode ==
  /\ BootIoError_Transfer_Pipe \in Codes
  /\ BootIoError_Other \in Codes
  /\ BootIoError_Success \in Codes
BY DEF Codes, CalleeErrors, BootIoError_Success

LEMMA IterationCode ==
  ASSUME NEW code \in Codes, NEW st, NextIteration(code, st)
  PROVE  ec' \in Codes
BY PipeCode DEF NextIteration, Return, Verdict

LEMMA LoopCode ==
  ASSUME NEW code \in Codes, NEW st, CommandLoop(code, st)
  PROVE  ec' \in Codes
BY PipeCode DEF CommandLoop, Return

LEMMA PollCode ==
  ASSUME NEW r \in transfer_status,
         PollDownloadIdle(r) \/ PollManifest(r) \/ PollDfuIdle(r)
  PROVE  ec' \in Codes
<1>1. StatusCode(r) \in Codes
  BY StatusReply
<1>2. CASE PollDownloadIdle(r)
  BY <1>1, <1>2, PipeCode DEF PollDownloadIdle, Return, Sleep
<1>3. CASE PollManifest(r)
  BY <1>1, <1>3 DEF PollManifest, Return, Sleep
<1>4. CASE PollDfuIdle(r)
  BY <1>1, <1>4, IterationCode DEF PollDfuIdle, Return
<1> QED
  BY <1>2, <1>3, <1>4

LEMMA RequestCode ==
  ASSUME NEW r \in CodeReplies, Abort(r) \/ ClearStatus(r) \/ ResetDevice(r)
  PROVE  ec' \in Codes
<1>1. r \in Codes
  BY CodeReply
<1>2. CASE Abort(r)
  BY <1>1, <1>2 DEF Abort, Return
<1>3. CASE ClearStatus(r)
  BY <1>1, <1>3 DEF ClearStatus, Return, Sleep
<1>4. CASE ResetDevice(r)
  BY <1>1, <1>4, IterationCode DEF ResetDevice, Return
<1> QED
  BY <1>2, <1>3, <1>4

LEMMA StepCode ==
  ASSUME ec \in Codes, CommandStep
  PROVE  ec' \in Codes
<1>1. ASSUME NEW r \in TransferReplies(CommandLength(command)), SendCommand(r)
      PROVE  ec' \in Codes
  <2>1. CommandLength(command) \in Nat
    BY DEF CommandLength
  <2> QED
    BY <1>1, <2>1, DataReply DEF SendCommand, Return
<1>2. ASSUME NEW r \in transfer_status, PollCommand(r)
      PROVE  ec' \in Codes
  BY <1>2, StatusReply, LoopCode DEF PollCommand
<1>3. CASE WakeUpCommand
  BY <1>3, LoopCode DEF WakeUpCommand
<1>4. CASE WaitStep
  <2>1. CASE WakeUp
    BY <2>1, IterationCode DEF WakeUp
  <2> QED
    BY <1>4, <2>1, PollCode, RequestCode DEF WaitStep, Poll, Request
<1> QED
  BY <1>1, <1>2, <1>3, <1>4 DEF CommandStep

-----------------------------------------------------------------------------
(***************************************************************************)
(* The inductive invariant.  None of the properties is one: that a call    *)
(* returns the count it moved rests on where its loops let it go on        *)
(* (Places), on the buffer head, the count and the image staying in step   *)
(* while it runs (Progress), and on every error of a callee but two        *)
(* leading to the label `out` (Faults).                                    *)
(***************************************************************************)
Places ==
  /\ pc \in Steps
  /\ Running => op \in { "upload_dfuse", "download_dfuse" }
  /\ pc \in { "abort", "settled", "release" } => op = "upload_dfuse"
  /\ pc \in { "erase", "erased", "waited", "idled", "terminate", "manifested" }
       => op = "download_dfuse"
  /\ pc \in { "idled", "terminate", "manifested" } => total = expected

Progress ==
  /\ Running => image = Offsets(0, total)
  /\ Running /\ op = "download_dfuse" => head = total /\ total <= expected
  /\ Running /\ op = "upload_dfuse" => total < expected + chunk \/ total = 0
  /\ pc = "open" => total = 0

Faults ==
  /\ Running => errors \subseteq { "terminate", "settled" }
  /\ OnlyLateErrorsAreDropped

Results == DownloadSuccessIsComplete /\ UploadSuccessIsPrefix

Counters ==
  ec \in Codes /\ total \in Nat /\ expected \in Nat /\ chunk \in Nat /\ count \in Nat

LoadInv ==
  Counters /\ Places /\ Progress /\ Faults /\ Results /\ HandleIsBalanced

-----------------------------------------------------------------------------
LEMMA LoadInitInv == Init => LoadInv
<1> SUFFICES ASSUME Init PROVE LoadInv
  OBVIOUS
<1>1. ec = 0 /\ LoadInit /\ head = 0
  BY DEF Init, CommandInit, WaitInit
<1>2. Counters
  BY <1>1 DEF Counters, LoadInit, Codes
<1> QED
  BY <1>1, <1>2
     DEF LoadInit, LoadInv, Places, Steps, Progress, Faults, Results, Running, Done,
         OnlyLateErrorsAreDropped, DownloadSuccessIsComplete,
         UploadSuccessIsPrefix, HandleIsBalanced

(***************************************************************************)
(* What does not touch the state of the load function keeps everything,    *)
(* provided the callee's code stays one.                                   *)
(***************************************************************************)
LEMMA Untouched ==
  ASSUME LoadInv, ec' \in Codes, UNCHANGED << loadVars, dfuseVars >>
  PROVE  LoadInv'
BY DEF loadVars, dfuseVars, LoadInv, Counters, Places, Steps, Progress, Faults, Results,
       Running, Done, OnlyLateErrorsAreDropped, DownloadSuccessIsComplete,
       UploadSuccessIsPrefix, HandleIsBalanced

(* From the label `out`: the handle is closed, and a success is the count  *)
(* of a transfer that has ended where it should.                           *)
LEMMA Leave ==
  ASSUME LoadInv, Running, NEW code \in Codes,
         Note(code), Close(code), ec' \in Codes,
         code >= 0 =>
           \/ op = "upload_dfuse"
           \/ op = "download_dfuse" /\ total = expected,
         UNCHANGED << op, expected, chunk, count, total, image >>
  PROVE  LoadInv'
<1>1. /\ pc' = "done" /\ handle' = FALSE /\ ~ Running'
      /\ result' = IF code < 0 THEN code ELSE total
  BY DEF Close, Running
<1>2. Counters' /\ Places' /\ Progress' /\ HandleIsBalanced'
  BY <1>1 DEF LoadInv, Counters, Places, Steps, Progress, HandleIsBalanced
<1>3. code \in Int /\ total \in Nat /\ expected \in Nat /\ chunk \in Nat
  BY CodeType DEF LoadInv, Counters
<1>4. Faults'
  BY <1>1, <1>3 DEF LoadInv, Faults, Note, OnlyLateErrorsAreDropped
<1>5. CASE code < 0
  BY <1>1, <1>2, <1>3, <1>4, <1>5
     DEF LoadInv, Results, Done, DownloadSuccessIsComplete, UploadSuccessIsPrefix
<1>6. CASE code >= 0
  <2>1. result' = total /\ image' = Offsets(0, total)
    BY <1>1, <1>3, <1>6 DEF LoadInv, Progress
  <2>2. DownloadSuccessIsComplete'
    BY <2>1, <1>6 DEF DownloadSuccessIsComplete, Done
  <2>3. UploadSuccessIsPrefix'
    BY <2>1, <1>6 DEF LoadInv, Progress, UploadSuccessIsPrefix, Done
  <2> QED
    BY <1>2, <1>4, <2>2, <2>3 DEF LoadInv, Results
<1> QED
  BY <1>3, <1>5, <1>6

(* On to the next step: the count and the image have not moved.            *)
LEMMA GoOn ==
  ASSUME LoadInv, pc \notin { "idle", "open", "done" }, ec' \in Codes,
         pc' \notin { "idle", "open", "done" }, Places',
         errors' \subseteq errors \cup { "terminate", "settled" },
         UNCHANGED << op, handle, expected, total, image, head >>,
         count' \in Nat, chunk' \in Nat,
         op = "upload_dfuse" => chunk' = chunk
  PROVE  LoadInv'
<1>1. Running /\ Running'
  BY DEF Running
<1>2. Counters' /\ HandleIsBalanced'
  BY DEF LoadInv, Counters, HandleIsBalanced
<1>3. Progress'
  BY <1>1 DEF LoadInv, Progress
<1>4. Faults'
  BY <1>1 DEF LoadInv, Faults, OnlyLateErrorsAreDropped
<1>5. Results'
  BY DEF Results, Done, DownloadSuccessIsComplete, UploadSuccessIsPrefix
<1> QED
  BY <1>2, <1>3, <1>4, <1>5 DEF LoadInv

-----------------------------------------------------------------------------
(***************************************************************************)
(* One lemma per action.                                                   *)
(***************************************************************************)
LEMMA CodeKept ==
  ASSUME ec \in Codes,
         \/ UNCHANGED commandVars
         \/ UNCHANGED waitVars
         \/ \E f \in Waits : Enter(f)
         \/ \E c : EnterCommand(c)
  PROVE  ec' \in Codes
BY DEF commandVars, waitVars, Enter, EnterCommand

LEMMA RefuseCallInv ==
  ASSUME LoadInv, NEW f, RefuseCall(f)
  PROVE  LoadInv'
<1>1. /\ ec' \in Codes /\ pc' = "done" /\ ~ Running /\ ~ Running' /\ result' < 0
      /\ UNCHANGED << handle, expected, chunk, count, total >>
  BY CodeKept
     DEF RefuseCall, Refuse, LoadInv, Counters, Running, BootIoError_InvalidParam
<1>2. Counters' /\ Places' /\ Progress' /\ HandleIsBalanced'
  BY <1>1 DEF LoadInv, Counters, Places, Steps, Progress, HandleIsBalanced, Running
<1>3. result' \in Int
  BY DEF RefuseCall, Refuse, BootIoError_InvalidParam
<1>4. Faults' /\ Results'
  BY <1>1, <1>3
     DEF Faults, Results, OnlyLateErrorsAreDropped, Done,
         DownloadSuccessIsComplete, UploadSuccessIsPrefix
<1> QED
  BY <1>2, <1>4 DEF LoadInv

LEMMA CallInv ==
  ASSUME LoadInv, NEW f \in { "upload_dfuse", "download_dfuse" }, NEW a,
         NEW size \in Sizes, NEW c \in ChunkSizes, Call(f, a, size, c)
  PROVE  LoadInv'
<1>1. size \in Nat /\ c \in Nat
  BY LoadAssumption
<1>2. /\ ec' \in Codes /\ pc' = "open" /\ op' = f /\ total' = 0 /\ head' = 0
      /\ count' = 2 /\ expected' = size /\ chunk' = c /\ image' = << >>
      /\ errors' = {} /\ handle' = handle /\ ~ Running /\ Running'
  BY CodeKept DEF Call, Start, LoadInv, Counters, Running, FirstBlock
<1>3. Counters' /\ Places' /\ HandleIsBalanced'
  BY <1>1, <1>2 DEF LoadInv, Counters, Places, Steps, HandleIsBalanced, Running
<1>4. Progress'
  BY <1>1, <1>2, OffsetsNone DEF Progress
<1>5. Faults' /\ Results'
  BY <1>2
     DEF Faults, Results, OnlyLateErrorsAreDropped, Done,
         DownloadSuccessIsComplete, UploadSuccessIsPrefix
<1> QED
  BY <1>3, <1>4, <1>5 DEF LoadInv

(* libusb_open failed: the call returns before anything is open.           *)
LEMMA QuitInv ==
  ASSUME LoadInv, pc = "open", NEW r \in Codes, r < 0, Note(r), Quit(r),
         ec' \in Codes,
         UNCHANGED << op, expected, chunk, count, total, image >>
  PROVE  LoadInv'
<1>1. pc' = "done" /\ result' = r /\ handle' = handle /\ ~ Running' /\ r \in Int
  BY CodeType DEF Quit, Running
<1>2. Counters' /\ Places' /\ Progress' /\ HandleIsBalanced'
  BY <1>1 DEF LoadInv, Counters, Places, Steps, Progress, HandleIsBalanced
<1>3. Faults' /\ Results'
  BY <1>1
     DEF Faults, Results, OnlyLateErrorsAreDropped, Done,
         DownloadSuccessIsComplete, UploadSuccessIsPrefix
<1> QED
  BY <1>2, <1>3 DEF LoadInv

(* The handle opens, and the descriptor was of no use or was.              *)
LEMMA RejectInv ==
  ASSUME LoadInv, pc = "open", NEW r \in Codes, r >= 0, Note(r), ec' \in Codes,
         NEW code \in { BootIoError_Other, BootIoError_Configuration_DescriptorString },
         Close(code),
         UNCHANGED << op, expected, chunk, count, total, image >>
  PROVE  LoadInv'
<1>1. code \in Int /\ code < 0
  BY DEF BootIoError_Other, BootIoError_Configuration_DescriptorString
<1>2. pc' = "done" /\ result' = code /\ handle' = FALSE /\ ~ Running'
  BY <1>1 DEF Close, Running
<1>3. Counters' /\ Places' /\ Progress' /\ HandleIsBalanced'
  BY <1>2 DEF LoadInv, Counters, Places, Steps, Progress, HandleIsBalanced
<1>4. Faults' /\ Results'
  BY <1>1, <1>2
     DEF Faults, Results, OnlyLateErrorsAreDropped, Done,
         DownloadSuccessIsComplete, UploadSuccessIsPrefix
<1> QED
  BY <1>3, <1>4 DEF LoadInv

LEMMA OpenedInv ==
  ASSUME LoadInv, pc = "open", NEW r \in Codes, r >= 0, Note(r), ec' \in Codes,
         handle' = TRUE,
         \/ op = "download_dfuse" /\ pc' = "erase"
         \/ op = "upload_dfuse" /\ pc' = "addressed",
         UNCHANGED << op, expected, chunk, count, total, image, head >>
  PROVE  LoadInv'
<1>1. r \in Int /\ errors' = errors /\ Running /\ Running'
  BY CodeType DEF Note, Running
<1>2. Counters' /\ Places' /\ HandleIsBalanced'
  BY <1>1 DEF LoadInv, Counters, Places, Steps, HandleIsBalanced
<1>3. Progress'
  BY <1>1 DEF LoadInv, Progress
<1>4. Faults' /\ Results'
  BY <1>1
     DEF LoadInv, Faults, Results, OnlyLateErrorsAreDropped, Done,
         DownloadSuccessIsComplete, UploadSuccessIsPrefix
<1> QED
  BY <1>2, <1>3, <1>4 DEF LoadInv

LEMMA OpenInv ==
  ASSUME LoadInv, NEW r \in CodeReplies, OpenDownload(r) \/ OpenUpload(r)
  PROVE  LoadInv'
<1>1. r \in Codes /\ r \in Int /\ ec \in Codes
  BY CodeReply, CodeType DEF LoadInv, Counters
<1>2. CASE OpenDownload(r)
  <2>1. /\ pc = "open" /\ op = "download_dfuse" /\ Note(r)
        /\ UNCHANGED << commandVars, op, expected, chunk, count, total, image, head >>
    BY <1>2 DEF OpenDownload
  <2>2. ec' \in Codes
    BY <1>1, <2>1, CodeKept
  <2>3. \/ r < 0 /\ Quit(r)
        \/ r >= 0 /\ Close(BootIoError_Configuration_DescriptorString)
        \/ r >= 0 /\ handle' = TRUE /\ pc' = "erase"
    BY <1>2 DEF OpenDownload
  <2> QED
    BY <1>1, <2>1, <2>2, <2>3, QuitInv, RejectInv, OpenedInv
<1>3. CASE OpenUpload(r)
  <2>1. /\ pc = "open" /\ op = "upload_dfuse" /\ Note(r)
        /\ UNCHANGED << op, expected, chunk, count, total, image, head >>
    BY <1>3 DEF OpenUpload, dfuseVars
  <2>2. ec' \in Codes
    BY <1>1, <1>3, CodeKept DEF OpenUpload
  <2>3. \/ r < 0 /\ Quit(r)
        \/ r >= 0 /\ Close(BootIoError_Configuration_DescriptorString)
        \/ r >= 0 /\ Close(BootIoError_Other)
        \/ r >= 0 /\ handle' = TRUE /\ pc' = "addressed"
    BY <1>3 DEF OpenUpload
  <2> QED
    BY <1>1, <2>1, <2>2, <2>3, QuitInv, RejectInv, OpenedInv
<1> QED
  BY <1>2, <1>3

(* `if (ec < 0) goto out;` inside a call.                                   *)
LEMMA ProceedInv ==
  ASSUME LoadInv, pc \notin { "idle", "open", "done" }, NEW code \in Codes,
         NEW place, place \notin { "idle", "open", "done" },
         Proceed(code, place), ec' \in Codes, count' \in Nat,
         code < 0 => count' = count,
         pc' = place => Places',
         UNCHANGED << op, expected, chunk, total, image, head >>
  PROVE  LoadInv'
<1>1. code \in Int /\ Running /\ chunk' \in Nat
  BY CodeType DEF Running, LoadInv, Counters
<1>2. CASE code < 0
  BY <1>1, <1>2, Leave DEF Proceed
<1>3. CASE code >= 0
  <2>1. pc' = place /\ handle' = handle /\ errors' = errors
    BY <1>1, <1>3 DEF Proceed, Note
  <2> QED
    BY <1>1, <2>1, GoOn
<1> QED
  BY <1>1, <1>2, <1>3

LEMMA EraseInv ==
  ASSUME LoadInv, ErasePage \/ AfterErase \/ SetAddress \/ AfterAddress
  PROVE  LoadInv'
<1>1. ec \in Codes /\ count \in Nat /\ chunk \in Nat
  BY DEF LoadInv, Counters
<1>2. CASE ErasePage
  <2>1. /\ pc = "erase" /\ pc' = "erased" /\ ec' \in Codes
        /\ UNCHANGED << op, handle, expected, chunk, count, total, image, head, errors >>
    BY <1>1, <1>2, CodeKept DEF ErasePage, dfuseVars
  <2>2. Places'
    BY <2>1 DEF LoadInv, Places, Steps, Running
  <2> QED
    BY <1>1, <2>1, <2>2, GoOn
<1>3. CASE AfterErase
  <2>1. /\ pc = "erased" /\ Proceed(ec, "erase") /\ ec' \in Codes
        /\ UNCHANGED << op, expected, chunk, count, total, image, head >>
    BY <1>1, <1>3, CodeKept DEF AfterErase
  <2>2. pc' = "erase" => Places'
    BY <2>1 DEF LoadInv, Places, Steps, Running
  <2> QED
    BY <1>1, <2>1, <2>2, ProceedInv
<1>4. CASE SetAddress
  <2>1. /\ pc = "erase" /\ pc' = "addressed" /\ ec' \in Codes
        /\ UNCHANGED << op, handle, expected, chunk, count, total, image, head, errors >>
    BY <1>1, <1>4, CodeKept DEF SetAddress, dfuseVars
  <2>2. Places'
    BY <2>1 DEF LoadInv, Places, Steps, Running
  <2> QED
    BY <1>1, <2>1, <2>2, GoOn
<1>5. CASE AfterAddress
  <2> DEFINE place == IF op = "download_dfuse" THEN "block" ELSE "abort"
  <2>1. /\ pc = "addressed" /\ Proceed(ec, place) /\ ec' \in Codes
        /\ UNCHANGED << op, expected, chunk, count, total, image, head >>
    BY <1>1, <1>5, CodeKept DEF AfterAddress, dfuseVars
  <2>2. pc' = place => Places'
    BY <2>1 DEF LoadInv, Places, Steps, Running
  <2> QED
    BY <1>1, <2>1, <2>2, ProceedInv
<1> QED
  BY <1>2, <1>3, <1>4, <1>5

(* A transfer moved r bytes behind the ones moved before.                  *)
LEMMA MoveInv ==
  ASSUME LoadInv, pc = "block", NEW r \in Codes, r >= 0, Note(r), ec' \in Codes,
         NEW length \in Nat, r <= length, total < expected,
         Move(total, r, length),
         \/ /\ op = "download_dfuse" /\ head' = head + r /\ pc' = "waited"
            /\ r <= expected - total
         \/ /\ op = "upload_dfuse" /\ pc' \in { "block", "settled" }
            /\ r <= chunk /\ chunk' = chunk,
         count' \in Nat, chunk' \in Nat,
         UNCHANGED << op, handle, expected >>
  PROVE  LoadInv'
<1>1. /\ r \in Nat /\ total \in Nat /\ expected \in Nat /\ chunk \in Nat
      /\ errors' = errors /\ Running /\ Running'
  BY CodeType DEF LoadInv, Counters, Running, Note
<1>2. total' = total + r /\ total' \in Nat
  BY <1>1 DEF Move
<1>3. image' = Offsets(0, total')
  BY <1>1, <1>2, OffsetsJoin DEF Move, LoadInv, Progress
<1>4. Counters' /\ Places' /\ HandleIsBalanced'
  <2>1. pc' \in { "waited", "block", "settled" }
    OBVIOUS
  <2>2. Counters'
    BY <1>1, <1>2 DEF LoadInv, Counters
  <2>3. Places'
    BY <1>1, <1>2, <2>1 DEF LoadInv, Places, Steps
  <2>4. HandleIsBalanced'
    BY <2>1 DEF LoadInv, HandleIsBalanced
  <2> QED
    BY <2>2, <2>3, <2>4
<1>5. Progress'
  <2>1. pc' # "open" /\ op' = op /\ expected' = expected
    OBVIOUS
  <2>2. CASE op = "download_dfuse"
    BY <1>1, <1>2, <1>3, <2>1, <2>2 DEF LoadInv, Progress
  <2>3. CASE op = "upload_dfuse"
    <3>1. total' < expected + chunk /\ chunk' = chunk
      BY <1>1, <1>2, <2>3
    <3> QED
      BY <1>3, <2>1, <2>3, <3>1 DEF Progress
  <2> QED
    BY <2>2, <2>3
<1>6. Faults' /\ Results'
  BY <1>1
     DEF LoadInv, Faults, Results, Running, OnlyLateErrorsAreDropped, Done,
         DownloadSuccessIsComplete, UploadSuccessIsPrefix
<1> QED
  BY <1>4, <1>5, <1>6 DEF LoadInv

LEMMA SendLengthFits ==
  ASSUME LoadInv, total < expected
  PROVE  NextChunk \in Nat /\ SendLength \in Nat /\ SendLength <= expected - total
<1>1. expected \in Nat /\ total \in Nat /\ chunk \in Nat
  BY DEF LoadInv, Counters
<1>2. NextChunk \in Nat /\ NextChunk <= expected - total
  BY <1>1 DEF NextChunk
<1>3. SendLength = NextChunk % U16
  BY DEF SendLength, transfer_out
<1>4. SendLength \in Nat /\ SendLength <= NextChunk
  BY <1>2, <1>3, Remainder, U16Assumption
<1> QED
  BY <1>1, <1>2, <1>4

LEMMA ReadLengthFits ==
  ASSUME LoadInv
  PROVE  ReadLength \in Nat /\ ReadLength <= chunk
<1>1. chunk \in Nat
  BY DEF LoadInv, Counters
<1>2. ReadLength = chunk % U16
  BY DEF ReadLength, transfer_in
<1> QED
  BY <1>1, <1>2, Remainder, U16Assumption

LEMMA NextCount == ASSUME NEW n \in Nat PROVE (n + 1) % U16 \in Nat
BY Remainder, U16Assumption

LEMMA SendBlockInv ==
  ASSUME LoadInv, NEW r \in TransferReplies(SendLength), SendBlock(r)
  PROVE  LoadInv'
<1>1. /\ op = "download_dfuse" /\ pc = "block" /\ total < expected /\ Note(r)
      /\ chunk' = NextChunk /\ Running
      /\ UNCHANGED << op, expected, count >>
  BY DEF SendBlock, Running
<1>2. NextChunk \in Nat /\ SendLength \in Nat /\ SendLength <= expected - total
  BY <1>1, SendLengthFits
<1>3. r \in Codes /\ r \in Int /\ (r >= 0 => r <= SendLength)
  BY <1>2, DataReply, CodeType
<1>4. ec \in Codes /\ count \in Nat /\ head = total /\ total \in Nat /\ expected \in Nat
  BY <1>1 DEF LoadInv, Counters, Progress
<1>5. CASE r < 0
  <2>1. Close(r) /\ UNCHANGED << waitVars, total, image, head >>
    BY <1>3, <1>5 DEF SendBlock
  <2>2. /\ pc' = "done" /\ result' = r /\ handle' = FALSE /\ ~ Running'
        /\ ec' \in Codes
    BY <1>4, <1>5, <2>1, CodeKept DEF Close, Running
  <2>3. Counters' /\ Places' /\ Progress' /\ HandleIsBalanced'
    BY <1>1, <1>2, <1>4, <2>1, <2>2
       DEF Counters, Places, Steps, Progress, HandleIsBalanced
  <2>4. Faults' /\ Results'
    BY <1>1, <1>3, <1>5, <2>2
       DEF Faults, Results, OnlyLateErrorsAreDropped, Done,
           DownloadSuccessIsComplete, UploadSuccessIsPrefix
  <2> QED
    BY <2>3, <2>4 DEF LoadInv
<1>6. CASE r >= 0
  <2>1. /\ Move(total, r, SendLength) /\ head' = head + r /\ pc' = "waited"
        /\ handle' = handle /\ Enter("wait_for_download_idle")
    BY <1>3, <1>4, <1>6 DEF SendBlock, HeadAfter
  <2>2. ec' \in Codes
    BY <1>4, <2>1, CodeKept DEF Waits
  <2>3. r <= SendLength /\ r <= expected - total
    BY <1>2, <1>3, <1>4, <1>6
  <2> QED
    BY <1>1, <1>2, <1>3, <1>4, <1>6, <2>1, <2>2, <2>3, MoveInv
<1> QED
  BY <1>3, <1>5, <1>6

LEMMA ReadBlockInv ==
  ASSUME LoadInv, NEW r \in TransferReplies(ReadLength), ReadBlock(r)
  PROVE  LoadInv'
<1>1. /\ op = "upload_dfuse" /\ pc = "block" /\ total < expected /\ Note(r)
      /\ Running
      /\ UNCHANGED << op, expected, chunk, head >>
  BY DEF ReadBlock, Running, dfuseVars
<1>2. ReadLength \in Nat /\ ReadLength <= chunk
  BY ReadLengthFits
<1>3. r \in Codes /\ r \in Int /\ (r >= 0 => r <= ReadLength)
  BY <1>2, DataReply, CodeType
<1>4. ec \in Codes /\ count \in Nat /\ chunk \in Nat
  BY DEF LoadInv, Counters
<1>5. CASE r < 0
  <2>1. Close(r) /\ UNCHANGED << waitVars, count, total, image >>
    BY <1>3, <1>5 DEF ReadBlock
  <2>2. ec' \in Codes
    BY <1>4, <2>1, CodeKept
  <2> QED
    BY <1>1, <1>3, <1>5, <2>1, <2>2, Leave
<1>6. CASE r >= 0
  <2>1. /\ Move(total, r, ReadLength) /\ handle' = handle
        /\ \/ pc' = "block" /\ count' = (count + 1) % U16 /\ UNCHANGED waitVars
           \/ pc' = "settled" /\ count' = count /\ Enter("wait_for_download_idle")
    BY <1>3, <1>6 DEF ReadBlock
  <2>2. ec' \in Codes /\ count' \in Nat /\ pc' \in { "block", "settled" }
    BY <1>4, <2>1, CodeKept, NextCount DEF Waits
  <2>3. r <= ReadLength /\ r <= chunk
    BY <1>2, <1>3, <1>4, <1>6
  <2> QED
    BY <1>1, <1>2, <1>3, <1>4, <1>6, <2>1, <2>2, <2>3, MoveInv
<1> QED
  BY <1>3, <1>5, <1>6

LEMMA DownloadRestInv ==
  ASSUME LoadInv, NEW r \in CodeReplies,
         AfterBlock \/ EndBlocks \/ AfterIdle \/ Terminate(r) \/ AfterManifest
  PROVE  LoadInv'
<1>1. /\ ec \in Codes /\ r \in Codes /\ count \in Nat /\ chunk \in Nat
      /\ total \in Nat /\ expected \in Nat
  BY CodeReply DEF LoadInv, Counters
<1>2. CASE AfterBlock
  <2>1. /\ pc = "waited" /\ Proceed(ec, "block") /\ ec' \in Codes
        /\ UNCHANGED << op, expected, chunk, total, image, head >>
        /\ count' \in Nat /\ (ec < 0 => count' = count)
    BY <1>1, <1>2, CodeKept, NextCount DEF AfterBlock, dfuseVars
  <2>2. pc' = "block" => Places'
    BY <2>1 DEF LoadInv, Places, Steps, Running
  <2> QED
    BY <1>1, <2>1, <2>2, ProceedInv
<1>3. CASE EndBlocks
  <2>1. /\ pc = "block" /\ pc' = "idled" /\ ec' \in Codes /\ total >= expected
        /\ op = "download_dfuse"
        /\ UNCHANGED << op, handle, expected, chunk, count, total, image, head, errors >>
    BY <1>1, <1>3, CodeKept DEF EndBlocks, dfuseVars, Waits
  <2>2. total = expected
    BY <1>1, <2>1 DEF LoadInv, Progress, Running
  <2>3. Places'
    BY <2>1, <2>2 DEF Places, Steps, Running
  <2> QED
    BY <1>1, <2>1, <2>3, GoOn
<1>4. CASE AfterIdle
  <2>1. /\ pc = "idled" /\ Proceed(ec, "terminate") /\ ec' \in Codes
        /\ UNCHANGED << op, expected, chunk, count, total, image, head >>
    BY <1>1, <1>4, CodeKept DEF AfterIdle, dfuseVars
  <2>2. pc' = "terminate" => Places'
    BY <2>1 DEF LoadInv, Places, Steps, Running
  <2> QED
    BY <1>1, <2>1, <2>2, ProceedInv
<1>5. CASE Terminate(r)
  <2>1. /\ pc = "terminate" /\ pc' = "manifested" /\ ec' \in Codes
        /\ errors' \subseteq errors \cup { "terminate" }
        /\ UNCHANGED << op, handle, expected, chunk, count, total, image, head >>
    BY <1>1, <1>5, CodeKept DEF Terminate, dfuseVars, Waits, Note
  <2>2. Places'
    BY <2>1 DEF LoadInv, Places, Steps, Running
  <2> QED
    BY <1>1, <2>1, <2>2, GoOn
<1>6. CASE AfterManifest
  <2>1. /\ pc = "manifested" /\ Note(ec) /\ Close(ec) /\ ec' \in Codes /\ Running
        /\ UNCHANGED << op, expected, chunk, count, total, image >>
    BY <1>1, <1>6, CodeKept DEF AfterManifest, Running
  <2>2. op = "download_dfuse" /\ total = expected
    BY <2>1 DEF LoadInv, Places
  <2> QED
    BY <1>1, <2>1, <2>2, Leave
<1> QED
  BY <1>2, <1>3, <1>4, <1>5, <1>6

LEMMA UploadRestInv ==
  ASSUME LoadInv, NEW r \in CodeReplies,
         AbortCommand(r) \/ EndUpload \/ AfterSettle \/ Release(r)
  PROVE  LoadInv'
<1>1. /\ ec \in Codes /\ r \in Codes /\ count \in Nat /\ chunk \in Nat
  BY CodeReply DEF LoadInv, Counters
<1>2. CASE AbortCommand(r)
  <2>1. /\ pc = "abort" /\ Proceed(r, "block") /\ ec' \in Codes
        /\ UNCHANGED << op, expected, chunk, count, total, image, head >>
    BY <1>1, <1>2, CodeKept DEF AbortCommand, dfuseVars
  <2>2. pc' = "block" => Places'
    BY <2>1 DEF LoadInv, Places, Steps, Running
  <2> QED
    BY <1>1, <2>1, <2>2, ProceedInv
<1>3. CASE EndUpload
  <2>1. /\ pc = "block" /\ pc' = "settled" /\ ec' \in Codes /\ op = "upload_dfuse"
        /\ UNCHANGED << op, handle, expected, chunk, count, total, image, head, errors >>
    BY <1>1, <1>3, CodeKept DEF EndUpload, dfuseVars, Waits
  <2>2. Places'
    BY <2>1 DEF Places, Steps, Running
  <2> QED
    BY <1>1, <2>1, <2>2, GoOn
<1>4. CASE AfterSettle
  <2>1. /\ pc = "settled" /\ pc' = "release" /\ ec' \in Codes
        /\ errors' \subseteq errors \cup { "settled" }
        /\ UNCHANGED << op, handle, expected, chunk, count, total, image, head >>
    BY <1>1, <1>4, CodeKept DEF AfterSettle, dfuseVars, Note
  <2>2. Places'
    BY <2>1 DEF LoadInv, Places, Steps, Running
  <2> QED
    BY <1>1, <2>1, <2>2, GoOn
<1>5. CASE Release(r)
  <2>1. /\ pc = "release" /\ Note(r) /\ Close(r) /\ ec' \in Codes /\ Running
        /\ UNCHANGED << op, expected, chunk, count, total, image >>
    BY <1>1, <1>5, CodeKept DEF Release, Running
  <2>2. op = "upload_dfuse"
    BY <2>1 DEF LoadInv, Places
  <2> QED
    BY <1>1, <2>1, <2>2, Leave
<1> QED
  BY <1>2, <1>3, <1>4, <1>5

-----------------------------------------------------------------------------
LEMMA CalleeInv ==
  ASSUME LoadInv, Callee
  PROVE  LoadInv'
BY StepCode, Untouched DEF Callee, LoadInv, Counters

LEMMA CodesExist == 0 \in CodeReplies
BY DEF CodeReplies, TransferReplies

LEMMA LoadStepInv ==
  ASSUME LoadInv, [Next]_vars
  PROVE  LoadInv'
<1>1. CASE LoadCall
  BY <1>1, RefuseCallInv, CallInv DEF LoadCall
<1>2. CASE Code
  BY <1>2, OpenInv, UploadRestInv, DownloadRestInv DEF Code
<1>3. CASE Data
  BY <1>3, SendBlockInv, ReadBlockInv DEF Data
<1>4. CASE Control
  BY <1>4, CodesExist, EraseInv, DownloadRestInv, UploadRestInv DEF Control
<1>5. CASE Callee
  BY <1>5, CalleeInv
<1>6. CASE UNCHANGED vars
  <2>1. ec' \in Codes /\ UNCHANGED << loadVars, dfuseVars >>
    BY <1>6 DEF vars, commandVars, waitVars, LoadInv, Counters
  <2> QED
    BY <2>1, Untouched
<1> QED
  BY <1>1, <1>2, <1>3, <1>4, <1>5, <1>6 DEF Next, LoadStep

THEOREM LoadInvariance == Spec => []LoadInv
<1>1. Init => LoadInv
  BY LoadInitInv
<1>2. LoadInv /\ [Next]_vars => LoadInv'
  BY LoadStepInv
<1> QED
  BY <1>1, <1>2, PTL DEF Spec

-----------------------------------------------------------------------------
(* Whatever fails, a load call returns with the handle closed, and works   *)
(* on an open one in between.                                              *)
THEOREM HandleBalance == Spec => []HandleIsBalanced
<1>1. LoadInv => HandleIsBalanced
  BY DEF LoadInv
<1> QED
  BY <1>1, LoadInvariance, PTL

(* A call that returns a count has heard no error but the terminating      *)
(* transfer's and the one of the wait behind an upload.                    *)
THEOREM ErrorsReported == Spec => []OnlyLateErrorsAreDropped
<1>1. LoadInv => OnlyLateErrorsAreDropped
  BY DEF LoadInv, Faults
<1> QED
  BY <1>1, LoadInvariance, PTL

(* A download that returns a count has moved the whole image, each byte    *)
(* once and in order, for every size, chunk size and sequence of short     *)
(* transfers.                                                              *)
THEOREM DownloadComplete == Spec => []DownloadSuccessIsComplete
<1>1. LoadInv => DownloadSuccessIsComplete
  BY DEF LoadInv, Results
<1> QED
  BY <1>1, LoadInvariance, PTL

(* An upload that returns a count has filled that much of the buffer, from *)
(* its start, and less than a chunk more than was asked for.               *)
THEOREM UploadPrefix == Spec => []UploadSuccessIsPrefix
<1>1. LoadInv => UploadSuccessIsPrefix
  BY DEF LoadInv, Results
<1> QED
  BY <1>1, LoadInvariance, PTL
-----------------------------------------------------------------------------
(***************************************************************************)
(* download_dfuse implements FirmwareTransfer: the mapping of LoadDfuse    *)
(* takes initial states to initial states and every step of Spec to a step *)
(* of the abstract transfer or to a stutter.                               *)
(***************************************************************************)
Mapped == << Phase, Size, Moved, Outcome >>

LEMMA RefinedInit == Init => Transfer!Init
BY DEF Init, LoadInit, Transfer!Init, Phase, Size, Moved, Outcome, Downloading

(* While a download runs it has not been refused.                          *)
LEMMA NotRefused ==
  ASSUME LoadInv, Running
  PROVE  Downloading <=> op = "download_dfuse"
BY DEF LoadInv, Faults, Downloading

LEMMA MovedLength ==
  ASSUME LoadInv, Running
  PROVE  total \in Nat /\ image = Offsets(0, total) /\ Len(image) = total
<1>1. total \in Nat /\ image = Offsets(0, total)
  BY DEF LoadInv, Counters, Progress
<1> QED
  BY <1>1 DEF Offsets

-----------------------------------------------------------------------------
(***************************************************************************)
(* What the steps look like through the mapping.                           *)
(***************************************************************************)
LEMMA Inside ==
  ASSUME LoadInv, Running, Running', LoadInv', UNCHANGED << op, expected, image >>
  PROVE  UNCHANGED Mapped
<1>1. Downloading' <=> Downloading
  BY DEF LoadInv, Faults, Downloading
<1> QED
  BY <1>1 DEF Mapped, Phase, Size, Moved, Outcome

LEMMA Uploading ==
  ASSUME op = "upload_dfuse", op' = op
  PROVE  UNCHANGED Mapped
BY DEF Downloading, Mapped, Phase, Size, Moved, Outcome

LEMMA Failing ==
  ASSUME LoadInv, Running, op = "download_dfuse", ~ Running',
         NEW code \in LoadErrors, Note(code), result' = code,
         UNCHANGED << op, expected, image >>
  PROVE  Transfer!Fail
<1>1. Downloading /\ Downloading'
  <2>1. pc # "refused" /\ errors' \subseteq { "terminate", "settled", pc }
    BY DEF LoadInv, Places, Steps, Faults, Note
  <2> QED
    BY <2>1, NotRefused DEF Downloading
<1> QED
  BY <1>1 DEF Transfer!Fail, Phase, Size, Moved, Outcome

LEMMA Succeeding ==
  ASSUME LoadInv, Running, op = "download_dfuse", ~ Running', total = expected,
         NEW code \in Codes, code >= 0, Note(code), result' = total,
         UNCHANGED << op, expected, image >>
  PROVE  Transfer!Succeed
<1>1. Downloading /\ Downloading'
  <2>1. errors' = errors
    BY CodeType DEF Note
  <2> QED
    BY <2>1, NotRefused DEF Downloading
<1>2. Len(image) = expected
  BY MovedLength
<1> QED
  BY <1>1, <1>2 DEF Transfer!Succeed, Phase, Size, Moved, Outcome

(* The errors a call can return are among the failures.                    *)
LEMMA ErrorReported ==
  ASSUME NEW code \in Codes, code < 0
  PROVE  code \in LoadErrors
BY CodeType DEF CalleeErrors, LoadErrors

-----------------------------------------------------------------------------
(***************************************************************************)
(* The steps of a call.                                                    *)
(***************************************************************************)
Refined == Transfer!Next \/ UNCHANGED Mapped

LEMMA RefuseRefined ==
  ASSUME LoadInv, NEW f, RefuseCall(f)
  PROVE  Refined
<1>1. ~ Running /\ ~ Downloading' /\ ~ Running'
  BY DEF RefuseCall, Refuse, Downloading, Running
<1>2. Transfer!Forget
  BY <1>1 DEF Transfer!Forget, Phase, Size, Moved, Outcome
<1> QED
  BY <1>2 DEF Refined, Transfer!Next

LEMMA CallRefined ==
  ASSUME LoadInv, NEW f \in { "upload_dfuse", "download_dfuse" }, NEW a,
         NEW bytes \in Sizes, NEW c, Call(f, a, bytes, c)
  PROVE  Refined
<1>1. /\ ~ Running /\ Running' /\ op' = f /\ expected' = bytes
      /\ image' = << >> /\ errors' = {}
  BY DEF Call, Start, Running
<1>2. Downloading' <=> f = "download_dfuse"
  BY <1>1 DEF Downloading
<1>3. CASE f = "download_dfuse"
  <2>1. Transfer!Begin
    BY <1>1, <1>2, <1>3 DEF Transfer!Begin, Phase, Size, Moved, Outcome
  <2> QED
    BY <2>1 DEF Refined, Transfer!Next
<1>4. CASE f = "upload_dfuse"
  <2>1. Transfer!Forget
    BY <1>1, <1>2, <1>4 DEF Transfer!Forget, Phase, Size, Moved, Outcome
  <2> QED
    BY <2>1 DEF Refined, Transfer!Next
<1> QED
  BY <1>3, <1>4

LEMMA OpenRefined ==
  ASSUME LoadInv, NEW r \in CodeReplies, OpenDownload(r)
  PROVE  Refined
<1>1. /\ op = "download_dfuse" /\ pc = "open" /\ Note(r) /\ Running
      /\ UNCHANGED << op, expected, image >>
  BY DEF OpenDownload, Running
<1>2. r \in Codes /\ r \in Int
  BY CodeReply, CodeType
<1>3. CASE r < 0
  <2>1. ~ Running' /\ result' = r /\ r \in LoadErrors
    BY <1>2, <1>3, ErrorReported DEF OpenDownload, Quit, Running
  <2>2. Transfer!Fail
    BY <1>1, <2>1, Failing
  <2> QED
    BY <2>2 DEF Refined, Transfer!Next
<1>4. CASE r >= 0 /\ ~ CanParse(alt_name)
  <2> DEFINE code == BootIoError_Configuration_DescriptorString
  <2>1. code \in LoadErrors /\ code < 0
    BY DEF LoadErrors, BootIoError_Configuration_DescriptorString
  <2>2. errors' = errors /\ ~ Running' /\ result' = code
    BY <1>1, <1>2, <1>4, <2>1 DEF OpenDownload, Note, Close, Running
  <2>3. Downloading /\ Downloading'
    BY <1>1, <2>2, NotRefused DEF Downloading
  <2>4. Transfer!Fail
    BY <1>1, <2>1, <2>2, <2>3 DEF Transfer!Fail, Phase, Size, Moved, Outcome
  <2> QED
    BY <2>4 DEF Refined, Transfer!Next
<1>5. CASE r >= 0 /\ CanParse(alt_name)
  <2>1. Running'
    BY <1>2, <1>5 DEF OpenDownload, Running
  <2>2. LoadInv'
    BY OpenInv
  <2> QED
    BY <1>1, <2>1, <2>2, Inside DEF Refined
<1> QED
  BY <1>2, <1>3, <1>4, <1>5

(* `if (ec < 0) goto out;` inside a download.                               *)
LEMMA ProceedRefined ==
  ASSUME LoadInv, LoadInv', Running, op = "download_dfuse",
         NEW code \in Codes, NEW place, place \notin { "idle", "done" },
         Proceed(code, place), UNCHANGED << op, expected, image >>
  PROVE  Refined
<1>1. code \in Int
  BY CodeType
<1>2. CASE code < 0
  <2>1. Note(code) /\ ~ Running' /\ result' = code /\ code \in LoadErrors
    BY <1>2, ErrorReported DEF Proceed, Close, Running
  <2>2. Transfer!Fail
    BY <2>1, Failing
  <2> QED
    BY <2>2 DEF Refined, Transfer!Next
<1>3. CASE code >= 0
  <2>1. Running'
    BY <1>1, <1>3 DEF Proceed, Running
  <2> QED
    BY <2>1, Inside DEF Refined
<1> QED
  BY <1>1, <1>2, <1>3

LEMMA SendRefined ==
  ASSUME LoadInv, NEW r \in TransferReplies(SendLength), SendBlock(r)
  PROVE  Refined
<1>1. /\ op = "download_dfuse" /\ pc = "block" /\ total < expected /\ Note(r)
      /\ Running /\ UNCHANGED << op, expected >>
  BY DEF SendBlock, Running
<1>2. LoadInv'
  BY SendBlockInv
<1>3. /\ SendLength \in Nat /\ SendLength <= expected - total
      /\ expected \in Nat /\ total \in Nat /\ head = total
      /\ image = Offsets(0, total) /\ Len(image) = total
  BY <1>1, SendLengthFits, MovedLength DEF LoadInv, Counters, Progress
<1>4. r \in Codes /\ r \in Int /\ (r >= 0 => r <= SendLength)
  BY <1>3, DataReply, CodeType
<1>5. CASE r < 0
  <2>1. ~ Running' /\ result' = r /\ image' = image /\ r \in LoadErrors
    BY <1>4, <1>5, ErrorReported DEF SendBlock, Close, Running
  <2>2. Transfer!Fail
    BY <1>1, <2>1, Failing
  <2> QED
    BY <2>2 DEF Refined, Transfer!Next
<1>6. ASSUME r >= 0
      PROVE  Running' /\ image' = image \o Offsets(total, r)
  BY <1>3, <1>4, <1>6 DEF SendBlock, Move, Running
<1>7. CASE r = 0
  <2>1. Running' /\ image' = image \o Offsets(total, r)
    BY <1>4, <1>6, <1>7
  <2>2. Offsets(0, total) \o Offsets(total, r) = Offsets(0, total + r)
    BY <1>3, <1>7, OffsetsJoin
  <2>3. total + r = total
    BY <1>3, <1>7
  <2>4. image' = image
    BY <1>3, <2>1, <2>2, <2>3
  <2> QED
    BY <1>1, <1>2, <2>1, <2>4, Inside DEF Refined
<1>8. CASE r > 0
  <2>1. Running' /\ image' = image \o Offsets(total, r)
    BY <1>4, <1>6, <1>8
  <2>2. Downloading /\ Downloading'
    BY <1>1, <1>2, <2>1, NotRefused DEF LoadInv, Faults, Downloading
  <2>3. r \in 1 .. expected - Len(image)
    BY <1>3, <1>4, <1>8
  <2>4. image' = image \o Transfer!Bytes(Len(image), r)
    BY <1>3, <2>1 DEF Transfer!Bytes, Offsets
  <2>5. Transfer!Deliver
    BY <1>1, <2>1, <2>2, <2>3, <2>4
       DEF Transfer!Deliver, Phase, Size, Moved, Outcome
  <2> QED
    BY <2>5 DEF Refined, Transfer!Next
<1> QED
  BY <1>4, <1>5, <1>7, <1>8

LEMMA DownloadRefined ==
  ASSUME LoadInv, LoadInv', op = "download_dfuse",
         NEW r \in CodeReplies, Terminate(r) \/ Control
  PROVE  Refined
<1>1. ec \in Codes
  BY DEF LoadInv, Counters
<1>2. CASE AfterErase \/ AfterAddress \/ AfterBlock \/ AfterIdle
  <2>1. /\ Running
        /\ \E place \in Steps \ { "idle", "done" } : Proceed(ec, place)
        /\ UNCHANGED << op, expected, image >>
    BY <1>2
       DEF AfterErase, AfterAddress, AfterBlock, AfterIdle, Running, Steps
  <2> QED
    BY <1>1, <2>1, ProceedRefined
<1>3. CASE ErasePage \/ SetAddress \/ EndBlocks \/ Terminate(r)
  <2>1. Running /\ Running' /\ UNCHANGED << op, expected, image >>
    BY <1>3 DEF ErasePage, SetAddress, EndBlocks, Terminate, Running
  <2> QED
    BY <2>1, Inside DEF Refined
<1>4. CASE AfterManifest
  <2>1. /\ pc = "manifested" /\ Note(ec) /\ Close(ec) /\ Running /\ ~ Running'
        /\ UNCHANGED << op, expected, image >>
    BY <1>4 DEF AfterManifest, Close, Running
  <2>2. total = expected
    BY <2>1 DEF LoadInv, Places
  <2>3. CASE ec < 0
    <3>1. result' = ec /\ ec \in LoadErrors
      BY <1>1, <2>1, <2>3, ErrorReported DEF Close
    <3>2. Transfer!Fail
      BY <2>1, <3>1, Failing
    <3> QED
      BY <3>2 DEF Refined, Transfer!Next
  <2>4. CASE ec >= 0
    <3>1. result' = total
      BY <1>1, <2>1, <2>4, CodeType DEF Close
    <3>2. Transfer!Succeed
      BY <1>1, <2>1, <2>2, <2>4, <3>1, Succeeding
    <3> QED
      BY <3>2 DEF Refined, Transfer!Next
  <2> QED
    BY <1>1, <2>3, <2>4, CodeType
<1>5. CASE EndUpload \/ AfterSettle
  <2>1. op = "upload_dfuse"
    BY <1>5 DEF EndUpload, AfterSettle, LoadInv, Places
  <2> QED
    BY <2>1
<1> QED
  BY <1>2, <1>3, <1>4, <1>5 DEF Control

LEMMA UploadStep ==
  ASSUME LoadInv, LoadStep, op = "upload_dfuse"
  PROVE  Refined
<1>1. op' = op
  BY DEF LoadStep, Code, Data, Control, Callee, loadVars, OpenDownload,
         OpenUpload, AbortCommand, Terminate, Release, SendBlock, ReadBlock,
         ErasePage, AfterErase, SetAddress, AfterAddress, AfterBlock, EndBlocks,
         AfterIdle, AfterManifest, EndUpload, AfterSettle
<1> QED
  BY <1>1, Uploading DEF Refined

LEMMA DownloadStep ==
  ASSUME LoadInv, LoadInv', LoadStep, op = "download_dfuse"
  PROVE  Refined
<1>1. CASE Code
  <2>1. ASSUME NEW r \in CodeReplies, OpenUpload(r) \/ AbortCommand(r) \/ Release(r)
        PROVE  FALSE
    BY <2>1 DEF OpenUpload, AbortCommand, Release, LoadInv, Places
  <2> QED
    BY <1>1, <2>1, OpenRefined, DownloadRefined DEF Code
<1>2. CASE Data
  BY <1>2, SendRefined DEF Data, ReadBlock
<1>3. CASE Control
  BY <1>3, CodesExist, DownloadRefined
<1>4. CASE Callee
  BY <1>4
     DEF Callee, loadVars, Refined, Mapped, Phase, Size, Moved, Outcome,
         Downloading, Running
<1> QED
  BY <1>1, <1>2, <1>3, <1>4 DEF LoadStep

(* Before the first call there is nothing to step in.                      *)
LEMMA Somewhere ==
  ASSUME LoadInv, LoadStep
  PROVE  op \in { "upload_dfuse", "download_dfuse" } \/ Callee
<1>1. CASE Running
  BY <1>1 DEF LoadInv, Places
<1>2. CASE ~ Running
  BY <1>2
     DEF Running, LoadStep, Code, Data, Control, OpenDownload,
         OpenUpload, AbortCommand, Terminate, Release, SendBlock, ReadBlock,
         ErasePage, AfterErase, SetAddress, AfterAddress, AfterBlock, EndBlocks,
         AfterIdle, AfterManifest, EndUpload, AfterSettle
<1> QED
  BY <1>1, <1>2

LEMMA StepRefined ==
  ASSUME LoadInv, LoadInv', [Next]_vars
  PROVE  Refined
<1>1. CASE LoadCall
  BY <1>1, RefuseRefined, CallRefined DEF LoadCall
<1>2. CASE LoadStep /\ ~ Callee
  BY <1>2, Somewhere, UploadStep, DownloadStep
<1>3. CASE Callee \/ UNCHANGED vars
  BY <1>3
     DEF Callee, vars, loadVars, Refined, Mapped, Phase, Size, Moved, Outcome,
         Downloading, Running
<1> QED
  BY <1>1, <1>2, <1>3 DEF Next

-----------------------------------------------------------------------------
(* Every behaviour of a download is one of the transfer load.h promises:   *)
(* bytes in order, the full image and its size on success, an error code   *)
(* otherwise, and nothing more once it has returned.                       *)
THEOREM DownloadRefines == Spec => DownloadIsTransfer
<1>1. Init => Transfer!Init
  BY RefinedInit
<1>2. LoadInv /\ LoadInv' /\ [Next]_vars
        => [Transfer!Next]_<< Phase, Size, Moved, Outcome >>
  BY StepRefined DEF Refined, Mapped
<1> QED
  BY <1>1, <1>2, LoadInvariance, PTL
     DEF Spec, DownloadIsTransfer, Transfer!Spec, Transfer!transferVars

-----------------------------------------------------------------------------
(***************************************************************************)
(* Block numbers.  The loops start behind the commands' blocks with a      *)
(* count of 2, and as long as no transfer is short every block moves the   *)
(* same chunk: the count is 2 more than the blocks sent, of which an image *)
(* that needs at most U16 - 2 has not sent all while bytes are left.       *)
(***************************************************************************)
Fits == exact /\ total < expected /\ expected <= chunk * (U16 - 2)

Numbered ==
  /\ chunk \in 0 .. U16 - 1
  /\ pc \in { "open", "erase", "erased", "addressed", "abort" } =>
       count = 2 /\ total = 0
  /\ pc = "block" /\ Fits => count \in 2 .. U16 - 1 /\ total = chunk * (count - 2)
  /\ pc = "waited" /\ Fits => count \in 2 .. U16 - 1 /\ total = chunk * (count - 1)

-----------------------------------------------------------------------------
(* The block behind one that leaves bytes to move has the next number.     *)
LEMMA NextNumber ==
  ASSUME NEW n \in 2 .. U16 - 1, NEW c \in Nat, NEW size \in Nat,
         c * (n - 1) < size, size <= c * (U16 - 2)
  PROVE  (n + 1) % U16 = n + 1 /\ n + 1 \in 2 .. U16 - 1
<1>1. U16 \in Nat /\ n \in Nat
  BY U16Assumption
<1>2. n - 1 < U16 - 2
  <2> SUFFICES ASSUME U16 - 2 <= n - 1 PROVE FALSE
    BY <1>1
  <2> DEFINE d == (n - 1) - (U16 - 2)
  <2>1. d \in Nat /\ n - 1 = (U16 - 2) + d
    BY <1>1
  <2>2. c * d \in Nat
    BY <2>1
  <2> HIDE DEF d
  <2>3. c * ((U16 - 2) + d) = c * (U16 - 2) + c * d
    BY <1>1, <2>1
  <2> QED
    BY <1>1, <2>1, <2>2, <2>3
<1> QED
  BY <1>1, <1>2

(* A step that leaves the transfer alone and enters no block.              *)
LEMMA NumberedElsewhere ==
  ASSUME Numbered, chunk' = chunk,
         pc' \in { "open", "erase", "erased", "addressed", "abort" } =>
           count' = 2 /\ total' = 0,
         pc' \notin { "block", "waited" }
  PROVE  Numbered'
BY DEF Numbered

LEMMA NumberedCall ==
  ASSUME Numbered, LoadCall
  PROVE  Numbered'
<1>1. ASSUME NEW f, RefuseCall(f) PROVE Numbered'
  BY <1>1, NumberedElsewhere DEF RefuseCall, Refuse
<1>2. ASSUME NEW f, NEW a, NEW size, NEW c \in ChunkSizes, Call(f, a, size, c)
      PROVE  Numbered'
  BY <1>2, DfuseAssumption DEF Call, Start, FirstBlock, Numbered
<1> QED
  BY <1>1, <1>2 DEF LoadCall

LEMMA NumberedCode ==
  ASSUME Numbered, LoadInv, Code
  PROVE  Numbered'
<1> DEFINE Before == { "erase", "addressed", "abort" }
<1>1. UNCHANGED << chunk, count, total, exact, expected >>
  BY DEF Code, OpenDownload, OpenUpload, AbortCommand, Terminate, Release
<1>2. ASSUME NEW r, OpenDownload(r) \/ OpenUpload(r)
      PROVE  pc = "open" /\ pc' \in { "done", "erase", "addressed" }
  BY <1>2 DEF OpenDownload, OpenUpload, Quit, Close
<1>3. ASSUME NEW r, AbortCommand(r)
      PROVE  pc = "abort" /\ pc' \in { "done", "block" }
  BY <1>3 DEF AbortCommand, Proceed, Close
<1>4. ASSUME NEW r, Terminate(r) \/ Release(r)
      PROVE  pc' \in { "done", "manifested" }
  BY <1>4 DEF Terminate, Release, Close
<1>5. chunk \in Nat /\ U16 \in Nat /\ U16 > 2
  BY U16Assumption DEF Numbered
<1> QED
  BY <1>1, <1>2, <1>3, <1>4, <1>5 DEF Code, Numbered, Fits

LEMMA NumberedSend ==
  ASSUME Numbered, LoadInv, NEW r \in TransferReplies(SendLength), SendBlock(r)
  PROVE  Numbered'
<1>1. /\ pc = "block" /\ total < expected /\ chunk' = NextChunk
      /\ UNCHANGED << expected, count >>
      /\ total \in Nat /\ expected \in Nat /\ chunk \in Nat /\ chunk <= U16 - 1
  BY DEF SendBlock, LoadInv, Counters, Numbered
<1>2. /\ NextChunk \in 0 .. U16 - 1
      /\ NextChunk = chunk \/ NextChunk = expected - total
  BY <1>1, U16Assumption DEF NextChunk
<1>3. SendLength = NextChunk
  BY <1>2, U16Assumption DEF SendLength, transfer_out
<1>4. r \in Int
  BY <1>2, <1>3, DataReply, CodeType
<1>5. CASE r < 0
  <2>1. pc' = "done"
    BY <1>4, <1>5 DEF SendBlock, Close
  <2> QED
    BY <1>1, <1>2, <2>1 DEF Numbered
<1>6. CASE r >= 0
  <2>1. pc' = "waited" /\ Move(head, r, SendLength)
    BY <1>4, <1>6 DEF SendBlock
  <2>2. ASSUME Fits'
        PROVE  count' \in 2 .. U16 - 1 /\ total' = chunk' * (count' - 1)
    <3>1. NextChunk = chunk /\ r = chunk /\ exact
      <4>1. total' = total + r /\ exact /\ r = SendLength
        BY <2>1, <2>2 DEF Fits, Move
      <4> QED
        BY <1>1, <1>2, <1>3, <2>2, <4>1 DEF Fits
    <3>2. Fits
      BY <1>1, <2>2, <3>1 DEF Fits
    <3>3. count \in 2 .. U16 - 1 /\ total = chunk * (count - 2)
      BY <1>1, <3>2 DEF Numbered
    <3>4. chunk * (count - 1) = chunk * (count - 2) + chunk
      BY <1>1, <3>3
    <3> QED
      BY <1>1, <2>1, <3>1, <3>3, <3>4 DEF Move
  <2> QED
    BY <1>1, <1>2, <2>1, <2>2 DEF Numbered
<1> QED
  BY <1>4, <1>5, <1>6

LEMMA NumberedRead ==
  ASSUME Numbered, LoadInv, NEW r \in TransferReplies(ReadLength), ReadBlock(r)
  PROVE  Numbered'
<1>1. /\ pc = "block" /\ UNCHANGED << expected, chunk >>
      /\ total \in Nat /\ expected \in Nat /\ chunk \in Nat /\ chunk <= U16 - 1
  BY DEF ReadBlock, LoadInv, Counters, Numbered
<1>2. ReadLength = chunk
  BY <1>1, U16Assumption DEF ReadLength, transfer_in
<1>3. r \in Int /\ (r >= 0 => r <= chunk)
  BY <1>1, <1>2, DataReply, CodeType
<1>4. CASE pc' # "block"
  <2>1. pc' \in { "done", "settled" }
    BY <1>4 DEF ReadBlock, Close
  <2> QED
    BY <1>1, <2>1, NumberedElsewhere
<1>5. CASE pc' = "block"
  <2>1. /\ r >= 0 /\ r >= chunk /\ total + r < expected
        /\ total' = total + r /\ (exact' => exact) /\ total < expected
        /\ count' = (count + 1) % U16
    BY <1>3, <1>5 DEF ReadBlock, Close, Move, UploadGoesOn
  <2>2. r = chunk
    BY <1>1, <1>3, <2>1
  <2>3. ASSUME Fits'
        PROVE  count' \in 2 .. U16 - 1 /\ total' = chunk' * (count' - 2)
    <3>1. Fits
      BY <1>1, <2>1, <2>2, <2>3 DEF Fits
    <3>2. count \in 2 .. U16 - 1 /\ total = chunk * (count - 2)
      BY <1>1, <3>1 DEF Numbered
    <3>3. chunk * (count - 1) = chunk * (count - 2) + chunk
      BY <1>1, <3>2
    <3>4. total' = chunk * (count - 1)
      BY <1>1, <2>1, <2>2, <3>2, <3>3
    <3>5. count' = count + 1 /\ count' \in 2 .. U16 - 1
      BY <1>1, <2>1, <2>3, <3>2, <3>4, NextNumber DEF Fits
    <3> QED
      BY <1>1, <3>2, <3>4, <3>5
  <2> QED
    BY <1>1, <1>5, <2>3 DEF Numbered
<1> QED
  BY <1>4, <1>5

LEMMA NumberedAfterBlock ==
  ASSUME Numbered, LoadInv, AfterBlock
  PROVE  Numbered'
<1>1. /\ pc = "waited" /\ UNCHANGED << expected, chunk, total, exact >>
      /\ total \in Nat /\ expected \in Nat /\ chunk \in Nat
      /\ pc' \in { "done", "block" }
  BY DEF AfterBlock, Proceed, Close, LoadInv, Counters, Numbered
<1>2. CASE pc' = "done"
  BY <1>1, <1>2, NumberedElsewhere
<1>3. CASE pc' = "block"
  <2>1. count' = (count + 1) % U16
    BY <1>3 DEF AfterBlock, Proceed, Close
  <2>2. ASSUME Fits
        PROVE  count' \in 2 .. U16 - 1 /\ total = chunk * (count' - 2)
    <3>1. count \in 2 .. U16 - 1 /\ total = chunk * (count - 1)
      BY <1>1, <2>2 DEF Numbered
    <3>2. count' = count + 1 /\ count' \in 2 .. U16 - 1
      BY <1>1, <2>1, <2>2, <3>1, NextNumber DEF Fits
    <3> QED
      BY <3>1, <3>2
  <2> QED
    BY <1>1, <1>3, <2>2 DEF Numbered, Fits
<1> QED
  BY <1>1, <1>2, <1>3

LEMMA NumberedControl ==
  ASSUME Numbered, LoadInv, Control
  PROVE  Numbered'
<1>1. CASE AfterBlock
  BY <1>1, NumberedAfterBlock
<1>2. CASE ErasePage \/ AfterErase \/ SetAddress
  BY <1>2, NumberedElsewhere
     DEF ErasePage, AfterErase, SetAddress, Proceed, Close, Numbered
<1>3. CASE AfterAddress
  <2>1. /\ pc = "addressed" /\ pc' \in { "done", "block", "abort" }
        /\ UNCHANGED << expected, chunk, total, exact, count >>
    BY <1>3 DEF AfterAddress, Proceed, Close
  <2>2. chunk \in Nat /\ U16 \in Nat /\ U16 > 2
    BY U16Assumption DEF Numbered
  <2> QED
    BY <2>1, <2>2 DEF Numbered, Fits
<1>4. CASE EndBlocks \/ AfterIdle \/ AfterManifest \/ EndUpload \/ AfterSettle
  <2>1. /\ pc' \in { "done", "idled", "terminate", "settled", "release" }
        /\ chunk' = chunk
    BY <1>4 DEF EndBlocks, AfterIdle, AfterManifest, EndUpload, AfterSettle,
                Proceed, Close
  <2> QED
    BY <2>1, NumberedElsewhere
<1> QED
  BY <1>1, <1>2, <1>3, <1>4 DEF Control

LEMMA NumberedInit == Init => Numbered
BY U16Assumption DEF Init, LoadInit, Numbered

LEMMA NumberedKept ==
  ASSUME Numbered, LoadInv, [Next]_vars
  PROVE  Numbered'
<1>1. CASE Callee \/ UNCHANGED vars
  BY <1>1 DEF Callee, vars, loadVars, Numbered, Fits
<1> QED
  BY <1>1, NumberedCall, NumberedCode, NumberedSend, NumberedRead, NumberedControl
     DEF Next, LoadStep, Data

(* No block of the image is numbered like a command, as long as the image  *)
(* needs no more blocks than the 16-bit count has left and none is short.  *)
THEOREM BlocksAvoidCommands == Spec => []DataAvoidsCommandBlocks
<1>1. Numbered => DataAvoidsCommandBlocks
  BY DEF Numbered, Fits, DataAvoidsCommandBlocks
<1> QED
  BY <1>1, NumberedInit, NumberedKept, LoadInvariance, PTL DEF Spec

-----------------------------------------------------------------------------
(***************************************************************************)
(* Erases.  The node erase_pages found stays put and contains the start    *)
(* address, whichever nodes its loop condition looks at: the command in    *)
(* flight at "erased" names the start of that node, whose type was tested. *)
(***************************************************************************)
Found ==
  /\ segment_node \in DOMAIN segment_list
  /\ segment_list[segment_node].start <= start
  /\ start <= segment_list[segment_node].end

MayErase(k) ==
  segment_list[k].type \in { MemorySegmentType_Writable, MemorySegmentType_Erasable }

Placed ==
  /\ alt_name \in Descriptors /\ start \in 0 .. U32 - 1
  /\ segment_node # 0 => Found
  /\ node # 0 => segment_node # 0
  /\ pc = "erased" =>
       /\ segment_node # 0 /\ MayErase(segment_node)
       /\ command.address = segment_list[segment_node].start
  /\ ErasesAreAllowed

(* The search returns a node that contains the address, or none.           *)
LEMMA FindsHit ==
  ASSUME NEW list \in Seq(Segment), NEW a \in 0 .. U32 - 1,
         find_segment_node(list, a) # 0
  PROVE  LET k == find_segment_node(list, a)
         IN  /\ k \in DOMAIN list
             /\ list[k].start <= a /\ a <= list[k].end
<1> DEFINE hits == Hits(list, a)
<1>1. a % U32 = a
  BY U32Assumption
<1>2. hits # {} /\ find_segment_node(list, a) = CHOOSE k \in hits : \A h \in hits : k <= h
  BY <1>1 DEF find_segment_node
<1>3. hits \subseteq Nat
  BY DEF Hits
<1>4. find_segment_node(list, a) \in hits
  <2>1. \E k \in hits : \A h \in hits : k <= h
    BY <1>2, <1>3, Least
  <2> QED
    BY <1>2, <2>1
<1> QED
  BY <1>4 DEF Hits

LEMMA ListParsed ==
  ASSUME alt_name \in Descriptors
  PROVE  segment_list \in Seq(Segment)
BY DfuseAssumption, ParsedList DEF segment_list

LEMMA PlacedInit == Init => Placed
BY U32Assumption DEF Init, LoadInit, Placed, ErasesAreAllowed

(* A step that leaves the erasing alone.                                   *)
LEMMA PlacedElsewhere ==
  ASSUME Placed, UNCHANGED << alt_name, start, segment_node, node, erased >>,
         pc' = "erased" => pc = "erased" /\ command' = command
  PROVE  Placed'
<1>1. segment_list' = segment_list
  BY DEF segment_list
<1> QED
  BY <1>1 DEF Placed, Found, MayErase, ErasesAreAllowed

LEMMA PlacedCall ==
  ASSUME Placed, LoadCall
  PROVE  Placed'
<1>1. ASSUME NEW f, RefuseCall(f) PROVE Placed'
  BY <1>1, PlacedElsewhere DEF RefuseCall, Refuse, dfuseVars
<1>2. ASSUME NEW f, NEW a \in Addresses, NEW size, NEW c, Call(f, a, size, c)
      PROVE  Placed'
  BY <1>2, DfuseAssumption DEF Call, Start, Placed, ErasesAreAllowed
<1> QED
  BY <1>1, <1>2 DEF LoadCall

LEMMA PlacedOpen ==
  ASSUME Placed, NEW r, OpenDownload(r)
  PROVE  Placed'
<1>1. UNCHANGED << alt_name, start, erased >> /\ pc' # "erased"
  BY DEF OpenDownload, Quit, Close
<1>2. segment_list' = segment_list
  BY <1>1 DEF segment_list
<1>3. CASE UNCHANGED << segment_node, node >>
  BY <1>1, <1>3, PlacedElsewhere
<1>4. CASE segment_node' = find_segment_node(segment_list, start)
           /\ node' = segment_node'
  <2>1. segment_list \in Seq(Segment) /\ start \in 0 .. U32 - 1
    BY ListParsed DEF Placed
  <2>2. segment_node' # 0 => Found'
    BY <1>1, <1>2, <1>4, <2>1, FindsHit DEF Found
  <2>3. ErasesAreAllowed'
    BY <1>1, <1>2 DEF Placed, ErasesAreAllowed
  <2> QED
    BY <1>1, <1>4, <2>2, <2>3 DEF Placed
<1> QED
  BY <1>3, <1>4 DEF OpenDownload

LEMMA PlacedErasePage ==
  ASSUME Placed, ErasePage
  PROVE  Placed'
<1>1. UNCHANGED << alt_name, start, segment_node, node, erased >>
  BY DEF ErasePage, dfuseVars
<1>2. segment_list' = segment_list
  BY <1>1 DEF segment_list
<1>3. segment_node # 0 /\ MayErase(segment_node)
  BY DEF ErasePage, EraseTest, Placed, MayErase
<1>4. command'.address = segment_list[segment_node].start
  BY DEF ErasePage, EnterCommand, dfuse_cmd_erase_page
<1> QED
  BY <1>1, <1>2, <1>3, <1>4 DEF Placed, Found, MayErase, ErasesAreAllowed

LEMMA PlacedAfterErase ==
  ASSUME Placed, AfterErase
  PROVE  Placed'
<1>1. /\ UNCHANGED << alt_name, start, segment_node >> /\ pc = "erased" /\ pc' # "erased"
      /\ erased' \subseteq erased \cup { command.address }
  BY DEF AfterErase, Proceed, Close
<1>2. segment_list' = segment_list
  BY <1>1 DEF segment_list
<1>3. /\ segment_node # 0 /\ MayErase(segment_node) /\ Found
      /\ command.address = segment_list[segment_node].start
  BY <1>1 DEF Placed
<1>4. ErasesAreAllowed'
  BY <1>1, <1>2, <1>3 DEF Placed, Found, MayErase, ErasesAreAllowed
<1> QED
  BY <1>1, <1>2, <1>3, <1>4 DEF Placed, Found

LEMMA PlacedKept ==
  ASSUME Placed, [Next]_vars
  PROVE  Placed'
<1>1. CASE Callee
  <2>1. command' = command
    BY <1>1 DEF Callee, CommandStep, SendCommand, PollCommand, WakeUpCommand
  <2> QED
    BY <1>1, <2>1, PlacedElsewhere DEF Callee, loadVars, dfuseVars
<1>2. CASE UNCHANGED vars
  BY <1>2, PlacedElsewhere DEF vars, loadVars, dfuseVars, commandVars
<1>3. CASE Code
  <2>1. ASSUME NEW r, OpenUpload(r) \/ AbortCommand(r) \/ Terminate(r) \/ Release(r)
        PROVE  Placed'
    BY <2>1, PlacedElsewhere
       DEF OpenUpload, AbortCommand, Terminate, Release, Quit, Close, Proceed, dfuseVars
  <2> QED
    BY <1>3, <2>1, PlacedOpen DEF Code
<1>4. CASE Data
  <2>1. ASSUME NEW r, SendBlock(r) \/ ReadBlock(r) PROVE Placed'
    BY <2>1, PlacedElsewhere DEF SendBlock, ReadBlock, Close, dfuseVars
  <2> QED
    BY <1>4, <2>1 DEF Data
<1>5. CASE Control
  <2>1. CASE SetAddress \/ AfterAddress \/ AfterBlock \/ EndBlocks \/ AfterIdle
             \/ AfterManifest \/ EndUpload \/ AfterSettle
    BY <2>1, PlacedElsewhere
       DEF SetAddress, AfterAddress, AfterBlock, EndBlocks, AfterIdle, AfterManifest,
           EndUpload, AfterSettle, Proceed, Close, dfuseVars
  <2> QED
    BY <1>5, <2>1, PlacedErasePage, PlacedAfterErase DEF Control
<1> QED
  BY <1>1, <1>2, <1>3, <1>4, <1>5, PlacedCall DEF Next, LoadStep

(* Every page erased is the first of a writable or erasable segment that   *)
(* contains the start address.                                             *)
THEOREM ErasesAllowed == Spec => []ErasesAreAllowed
<1>1. Placed => ErasesAreAllowed
  BY DEF Placed
<1> QED
  BY <1>1, PlacedInit, PlacedKept, PTL DEF Spec

-----------------------------------------------------------------------------
(***************************************************************************)
(* Which function runs below each step of the load function, and where it  *)
(* may be.  Everywhere else none does.                                     *)
(***************************************************************************)
Calling == { "erased", "addressed", "waited", "settled", "idled", "manifested" }

CalleeAt ==
  /\ pc \in { "erased", "addressed" } =>
       fn = "send_command" /\ at \in { "command", "poll", "sleep", "ret" }
  /\ pc \in { "waited", "settled" } =>
       fn = "wait_for_download_idle" /\ at \in { "poll", "sleep", "ret" }
  /\ pc = "idled" =>
       fn = "abort_and_wait_idle" /\ at \in { "abort", "poll", "reset", "ret" }
  /\ pc = "manifested" =>
       fn = "wait_for_manifest" /\ at \in { "poll", "clear", "sleep", "ret" }
  /\ pc \notin Calling => at = "ret"

LEMMA CalleeAtInit == Init => CalleeAt
BY DEF Init, CommandInit, WaitInit, LoadInit, CalleeAt, Calling

LEMMA CalleeMoves ==
  ASSUME CalleeAt, CommandStep, pc' = pc
  PROVE  CalleeAt'
<1>1. CASE \E r : SendCommand(r)
  BY <1>1 DEF SendCommand, Return, CalleeAt, Calling
<1>2. CASE (\E r : PollCommand(r)) \/ WakeUpCommand
  BY <1>2 DEF PollCommand, WakeUpCommand, CommandLoop, Return, CalleeAt, Calling
<1>3. CASE Poll
  BY <1>3 DEF Poll, PollDownloadIdle, PollManifest, PollDfuIdle, NextIteration,
              Return, Sleep, CalleeAt, Calling
<1>4. CASE Request
  BY <1>4 DEF Request, Abort, ClearStatus, ResetDevice, NextIteration, Return, Sleep,
              CalleeAt, Calling
<1>5. CASE WakeUp
  BY <1>5 DEF WakeUp, NextIteration, Return, CalleeAt, Calling
<1> QED
  BY <1>1, <1>2, <1>3, <1>4, <1>5 DEF CommandStep, WaitStep

LEMMA CalleeAtKept ==
  ASSUME CalleeAt, [Next]_vars
  PROVE  CalleeAt'
<1>1. CASE Callee
  BY <1>1, CalleeMoves DEF Callee, loadVars
<1>2. CASE UNCHANGED vars
  BY <1>2 DEF vars, commandVars, waitVars, loadVars, CalleeAt
<1>3. CASE LoadCall
  BY <1>3
     DEF LoadCall, RefuseCall, Refuse, Call, Start, Running, commandVars, waitVars,
         CalleeAt, Calling
<1>4. CASE Code
  <2>1. ASSUME NEW r, OpenDownload(r) PROVE CalleeAt'
    BY <2>1 DEF OpenDownload, Quit, Close, commandVars, waitVars, CalleeAt, Calling
  <2>2. ASSUME NEW r, OpenUpload(r) PROVE CalleeAt'
    BY <2>2 DEF OpenUpload, Quit, Close, EnterCommand, commandVars, waitVars,
                CalleeAt, Calling
  <2>3. ASSUME NEW r, AbortCommand(r) \/ Release(r) PROVE CalleeAt'
    BY <2>3 DEF AbortCommand, Release, Proceed, Close, commandVars, waitVars,
                CalleeAt, Calling
  <2>4. ASSUME NEW r, Terminate(r) PROVE CalleeAt'
    BY <2>4 DEF Terminate, Enter, CalleeAt, Calling
  <2> QED
    BY <1>4, <2>1, <2>2, <2>3, <2>4 DEF Code
<1>5. CASE Data
  <2>1. ASSUME NEW r, SendBlock(r) PROVE CalleeAt'
    BY <2>1 DEF SendBlock, Close, Enter, waitVars, CalleeAt, Calling
  <2>2. ASSUME NEW r, ReadBlock(r) PROVE CalleeAt'
    BY <2>2 DEF ReadBlock, Close, Enter, waitVars, CalleeAt, Calling
  <2> QED
    BY <1>5, <2>1, <2>2 DEF Data
<1>6. CASE Control
  <2>1. CASE ErasePage \/ SetAddress
    BY <2>1 DEF ErasePage, SetAddress, EnterCommand, CalleeAt, Calling
  <2>2. CASE AfterErase \/ AfterAddress \/ AfterBlock \/ AfterIdle \/ AfterManifest
             \/ AfterSettle
    BY <2>2 DEF AfterErase, AfterAddress, AfterBlock, AfterIdle, AfterManifest,
                AfterSettle, Proceed, Close, commandVars, waitVars, CalleeAt, Calling
  <2>3. CASE EndBlocks \/ EndUpload
    BY <2>3 DEF EndBlocks, EndUpload, Enter, CalleeAt, Calling
  <2> QED
    BY <1>6, <2>1, <2>2, <2>3 DEF Control
<1> QED
  BY <1>1, <1>2, <1>3, <1>4, <1>5, <1>6 DEF Next, LoadStep

-----------------------------------------------------------------------------
(***************************************************************************)
(* The registers.  load_dfuse.c enters the commands with the start address *)
(* and with starts of segments it may erase, so that a program whose       *)
(* Addresses hold those, like all of the 32-bit ones, keeps the invariant  *)
(* of dfuse_command.c throughout its calls.                                *)
(***************************************************************************)
AddressesSuffice ==
  /\ 0 \in Addresses
  /\ \A d \in Descriptors : \A k \in DOMAIN parse_memory_segments(d) :
       parse_memory_segments(d)[k].type
           \in { MemorySegmentType_Writable, MemorySegmentType_Erasable } =>
         parse_memory_segments(d)[k].start \in Addresses

LoadTypes ==
  /\ op \in { "none", "upload_dfuse", "download_dfuse" }
  /\ handle \in BOOLEAN
  /\ count \in 0 .. U16 - 1 /\ total \in Nat
  /\ head \in Nat /\ result \in Int /\ image \in Seq(Nat)
  /\ start \in Addresses
  /\ node \in 0 .. Len(segment_list)

(* What a load function does to the registers of the functions it calls:   *)
(* nothing, enter one, or let it run.                                      *)
LEMMA CommandsCarried ==
  ASSUME CommandInv, ConstBuffer = "stored", AddressesSuffice, LoadTypes, Placed,
         [Next]_vars
  PROVE  CommandInv'
<1>1. ASSUME NEW a \in Addresses,
             EnterCommand([op |-> "SetAddress", address |-> a])
               \/ EnterCommand([op |-> "ErasePage", address |-> a])
      PROVE  CommandInv'
  BY <1>1, EnterCommandInv DEF Commands
<1>2. CASE ErasePage
  <2>1. /\ segment_node \in DOMAIN segment_list
        /\ segment_list[segment_node].type
             \in { MemorySegmentType_Writable, MemorySegmentType_Erasable }
        /\ alt_name \in Descriptors
    BY <1>2 DEF ErasePage, EraseTest, Placed, Found
  <2>2. segment_list[segment_node].start \in Addresses
    BY <2>1 DEF AddressesSuffice, segment_list
  <2> QED
    BY <1>1, <1>2, <2>2 DEF ErasePage, dfuse_cmd_erase_page
<1>3. ASSUME EnterCommand(dfuse_cmd_set_address(start))
      PROVE  CommandInv'
  BY <1>1, <1>3 DEF LoadTypes, dfuse_cmd_set_address
<1>4. CASE SetAddress \/ \E r : OpenUpload(r)
  <2>1. EnterCommand(dfuse_cmd_set_address(start)) \/ UNCHANGED commandVars
    BY <1>4 DEF SetAddress, OpenUpload
  <2> QED
    BY <1>3, <2>1, CommandStutterInv
<1>5. CASE \/ \E r : OpenDownload(r) \/ AbortCommand(r) \/ Release(r)
           \/ AfterErase \/ AfterAddress \/ AfterBlock \/ AfterIdle \/ AfterManifest
           \/ AfterSettle \/ LoadCall \/ UNCHANGED vars
  <2>1. UNCHANGED commandVars
    BY <1>5
       DEF OpenDownload, AbortCommand, Release, AfterErase, AfterAddress, AfterBlock,
           AfterIdle, AfterManifest, AfterSettle, LoadCall, RefuseCall, Call, vars
  <2> QED
    BY <2>1, CommandStutterInv
<1>6. CASE (\E r : Terminate(r) \/ SendBlock(r) \/ ReadBlock(r)) \/ EndBlocks \/ EndUpload
  <2>1. (\E f \in Waits : Enter(f) /\ UNCHANGED command) \/ UNCHANGED commandVars
    BY <1>6
       DEF Terminate, SendBlock, ReadBlock, EndBlocks, EndUpload, commandVars, Waits
  <2> QED
    BY <2>1, EnterWaitInv, CommandStutterInv
<1>7. CASE Callee
  BY <1>7, SendCommandInv, PollCommandInv, WakeUpCommandInv, WaitStepInv
     DEF Callee, CommandStep
<1> QED
  BY <1>2, <1>4, <1>5, <1>6, <1>7 DEF Next, LoadStep, Code, Data, Control

-----------------------------------------------------------------------------
LEMMA OffsetsAreNat ==
  ASSUME NEW s \in Seq(Nat), NEW first \in Nat, NEW n \in Nat
  PROVE  s \o Offsets(first, n) \in Seq(Nat)
<1>1. Offsets(first, n) \in Seq(Nat)
  BY DEF Offsets
<1> QED
  BY <1>1

LEMMA CountWraps ==
  ASSUME NEW n \in 0 .. U16 - 1
  PROVE  (n + 1) % U16 \in 0 .. U16 - 1
BY U16Assumption

(* A step that moves no data, counts no block and calls no other function. *)
LEMMA TypesElsewhere ==
  ASSUME LoadTypes, handle' \in BOOLEAN, result' \in Int,
         UNCHANGED << op, count, total, head, image, alt_name, start, node >>
  PROVE  LoadTypes'
BY DEF LoadTypes, segment_list

LEMMA FailuresAreInt ==
  BootIoError_Other \in Int /\ BootIoError_Configuration_DescriptorString \in Int
BY DEF BootIoError_Other, BootIoError_Configuration_DescriptorString

(* The ways a step leaves the handle and the result.                       *)
LEMMA LeftTypes ==
  ASSUME LoadTypes, NEW code \in Int,
         \/ Close(code) \/ Quit(code) \/ UNCHANGED << handle, result >>
         \/ handle' = TRUE /\ UNCHANGED result
  PROVE  handle' \in BOOLEAN /\ result' \in Int
<1>1. handle' = TRUE \/ handle' = FALSE \/ handle' = handle
  BY Zenon DEF Close, Quit
<1>2. handle' \in BOOLEAN
  BY <1>1, Zenon DEF LoadTypes
<1>3. result' \in Int
  BY DEF Close, Quit, LoadTypes
<1> QED
  BY <1>2, <1>3

LEMMA TypesCall ==
  ASSUME LoadTypes, LoadCall
  PROVE  LoadTypes'
<1>1. ASSUME NEW f \in { "upload_dfuse", "download_dfuse" }, RefuseCall(f)
      PROVE  LoadTypes'
  BY <1>1 DEF RefuseCall, Refuse, dfuseVars, segment_list, LoadTypes, BootIoError_InvalidParam
<1>2. ASSUME NEW f \in { "upload_dfuse", "download_dfuse" }, NEW a \in Addresses,
             NEW size, NEW c, Call(f, a, size, c)
      PROVE  LoadTypes'
  <2>1. FirstBlock \in 0 .. U16 - 1
    BY U16Assumption DEF FirstBlock
  <2>2. node' = 0 /\ segment_list' = segment_list
    BY <1>2 DEF Call, segment_list
  <2>3. 0 \in 0 .. Len(segment_list)
    BY DEF LoadTypes
  <2> QED
    BY <1>2, <2>1, <2>2, <2>3 DEF Call, Start, LoadTypes
<1> QED
  BY <1>1, <1>2 DEF LoadCall

LEMMA TypesCode ==
  ASSUME LoadTypes, Placed, Code
  PROVE  LoadTypes'
<1>1. ASSUME NEW r \in CodeReplies, OpenDownload(r)
      PROVE  LoadTypes'
  <2>1. /\ UNCHANGED << op, count, total, head, image, alt_name, start >>
        /\ segment_list' = segment_list /\ r \in Int
    BY <1>1, CodeReply, CodeType DEF OpenDownload, segment_list
  <2>2. handle' \in BOOLEAN /\ result' \in Int
    <3>1. CASE Quit(r)
      BY <2>1, <3>1, LeftTypes
    <3>2. CASE Close(BootIoError_Configuration_DescriptorString)
      BY <3>2, FailuresAreInt, LeftTypes
    <3>3. CASE handle' = TRUE /\ UNCHANGED result
      BY <2>1, <3>3, LeftTypes
    <3> QED
      BY <1>1, <3>1, <3>2, <3>3 DEF OpenDownload
  <2>3. node' \in 0 .. Len(segment_list)
    <3>1. CASE node' = node
      BY <3>1 DEF LoadTypes
    <3>2. CASE node' = find_segment_node(segment_list, start)
      <4>1. segment_list \in Seq(Segment) /\ start \in 0 .. U32 - 1
        BY ListParsed DEF Placed
      <4>2. node' # 0 => node' \in DOMAIN segment_list
        BY <3>2, <4>1, FindsHit
      <4> QED
        BY <4>1, <4>2
    <3> QED
      BY <1>1, <3>1, <3>2 DEF OpenDownload
  <2> QED
    BY <2>1, <2>2, <2>3 DEF LoadTypes
<1>2. ASSUME NEW r \in CodeReplies, OpenUpload(r) \/ AbortCommand(r) \/ Terminate(r) \/ Release(r)
      PROVE  LoadTypes'
  <2>1. r \in Int
    BY CodeReply, CodeType
  <2>2. UNCHANGED << op, count, total, head, image, alt_name, start, node >>
    BY <1>2 DEF OpenUpload, AbortCommand, Terminate, Release, dfuseVars
  <2>3. handle' \in BOOLEAN /\ result' \in Int
    <3>1. CASE Quit(r) \/ Close(r) \/ UNCHANGED << handle, result >>
      BY <2>1, <3>1, LeftTypes
    <3>2. CASE Close(BootIoError_Other)
      BY <3>2, FailuresAreInt, LeftTypes
    <3>3. CASE Close(BootIoError_Configuration_DescriptorString)
      BY <3>3, FailuresAreInt, LeftTypes
    <3>4. CASE handle' = TRUE /\ UNCHANGED result
      BY <2>1, <3>4, LeftTypes
    <3> QED
      BY <1>2, <3>1, <3>2, <3>3, <3>4
         DEF OpenUpload, AbortCommand, Terminate, Release, Proceed
  <2> QED
    BY <2>2, <2>3, TypesElsewhere
<1> QED
  BY <1>1, <1>2 DEF Code

LEMMA TypesSend ==
  ASSUME LoadTypes, LoadInv, NEW r \in TransferReplies(SendLength), SendBlock(r)
  PROVE  LoadTypes'
<1>1. /\ UNCHANGED << op, count, alt_name, start, node >>
      /\ total < expected /\ head \in Nat /\ total \in Nat
  BY DEF SendBlock, LoadTypes
<1>2. segment_list' = segment_list
  BY <1>1 DEF segment_list
<1>3. r \in Int /\ (r >= 0 => r \in Nat)
  BY <1>1, SendLengthFits, DataReply, CodeType
<1>4. handle' \in BOOLEAN /\ result' \in Int
  <2>1. Close(r) \/ UNCHANGED << handle, result >>
    BY DEF SendBlock
  <2> QED
    BY <1>3, <2>1, LeftTypes
<1>5. total' \in Nat /\ head' \in Nat /\ image' \in Seq(Nat)
  <2>1. CASE UNCHANGED << total, image, head >>
    BY <2>1 DEF LoadTypes
  <2>2. CASE r >= 0 /\ Move(head, r, SendLength) /\ head' = HeadAfter(r)
    BY <1>1, <1>3, <2>2, OffsetsAreNat DEF Move, HeadAfter, LoadTypes
  <2> QED
    BY <2>1, <2>2 DEF SendBlock
<1> QED
  BY <1>1, <1>2, <1>4, <1>5 DEF LoadTypes

LEMMA TypesRead ==
  ASSUME LoadTypes, LoadInv, NEW r \in TransferReplies(ReadLength), ReadBlock(r)
  PROVE  LoadTypes'
<1>1. /\ UNCHANGED << op, alt_name, start, head, node >>
      /\ total \in Nat /\ count \in 0 .. U16 - 1
  BY DEF ReadBlock, LoadTypes, dfuseVars
<1>2. segment_list' = segment_list
  BY <1>1 DEF segment_list
<1>3. r \in Int /\ (r >= 0 => r \in Nat)
  BY ReadLengthFits, DataReply, CodeType
<1>4. handle' \in BOOLEAN /\ result' \in Int
  <2>1. Close(r) \/ UNCHANGED << handle, result >>
    BY DEF ReadBlock
  <2> QED
    BY <1>3, <2>1, LeftTypes
<1>5. count' \in 0 .. U16 - 1
  BY <1>1, CountWraps DEF ReadBlock
<1>6. total' \in Nat /\ image' \in Seq(Nat)
  <2>1. CASE UNCHANGED << total, image >>
    BY <2>1 DEF LoadTypes
  <2>2. CASE r >= 0 /\ Move(total, r, ReadLength)
    BY <1>1, <1>3, <2>2, OffsetsAreNat DEF Move, LoadTypes
  <2> QED
    BY <2>1, <2>2 DEF ReadBlock
<1> QED
  BY <1>1, <1>2, <1>4, <1>5, <1>6 DEF LoadTypes

LEMMA TypesControl ==
  ASSUME LoadTypes, LoadInv, Placed, Control
  PROVE  LoadTypes'
<1>1. /\ UNCHANGED << op, total, head, image, alt_name, start >>
      /\ segment_list' = segment_list
  BY DEF Control, ErasePage, AfterErase, SetAddress, AfterAddress, AfterBlock, EndBlocks,
         AfterIdle, AfterManifest, EndUpload, AfterSettle, dfuseVars, segment_list
<1>2. handle' \in BOOLEAN /\ result' \in Int
  <2>1. ec \in Int
    BY CodeType DEF LoadInv, Counters
  <2>2. Close(ec) \/ UNCHANGED << handle, result >>
    BY DEF Control, ErasePage, AfterErase, SetAddress, AfterAddress, AfterBlock,
           EndBlocks, AfterIdle, AfterManifest, EndUpload, AfterSettle, Proceed
  <2> QED
    BY <2>1, <2>2, LeftTypes
<1>3. count' \in 0 .. U16 - 1
  <2>1. count' = count \/ count' = (count + 1) % U16
    BY DEF Control, ErasePage, AfterErase, SetAddress, AfterAddress, AfterBlock,
           EndBlocks, AfterIdle, AfterManifest, EndUpload, AfterSettle
  <2> QED
    BY <2>1, CountWraps DEF LoadTypes
<1>4. node' \in 0 .. Len(segment_list)
  <2>1. CASE node' = node
    BY <2>1 DEF LoadTypes
  <2>2. CASE AfterErase /\ node' = next(segment_list, segment_node)
    <3>1. segment_node \in 1 .. Len(segment_list) /\ Len(segment_list) \in Nat
      BY <2>2, ListParsed DEF AfterErase, Placed, Found
    <3> QED
      BY <2>2, <3>1 DEF next
  <2> QED
    BY <2>1, <2>2
       DEF Control, ErasePage, AfterErase, SetAddress, AfterAddress, AfterBlock,
           EndBlocks, AfterIdle, AfterManifest, EndUpload, AfterSettle, dfuseVars
<1> QED
  BY <1>1, <1>2, <1>3, <1>4 DEF LoadTypes

LEMMA TypesKept ==
  ASSUME LoadTypes, LoadInv, Placed, [Next]_vars
  PROVE  LoadTypes'
<1>1. CASE Callee \/ UNCHANGED vars
  BY <1>1, TypesElsewhere DEF Callee, vars, loadVars, dfuseVars, LoadTypes
<1> QED
  BY <1>1, TypesCall, TypesCode, TypesSend, TypesRead, TypesControl
     DEF Next, LoadStep, Data

LEMMA TypesInit ==
  ASSUME AddressesSuffice, Init
  PROVE  LoadTypes
<1>1. LoadInit /\ head = 0 /\ start = 0 /\ node = 0 /\ 2 \in 0 .. U16 - 1
  BY U16Assumption DEF Init
<1>2. segment_list \in Seq(Segment)
  BY DfuseAssumption, ParsedList DEF Init, segment_list
<1>3. handle \in BOOLEAN
  BY <1>1, Zenon DEF LoadInit
<1>4. image \in Seq(Nat) /\ count \in 0 .. U16 - 1
  BY <1>1 DEF LoadInit
<1> QED
  BY <1>1, <1>2, <1>3, <1>4 DEF LoadInit, LoadTypes, AddressesSuffice

(* Every variable of load_dfuse.c and of the commands and waits it calls   *)
(* keeps its type: 16-bit block numbers, a node that is the null pointer   *)
(* or in the list, bytes sent that never pass the image.                   *)
THEOREM DfuseTypes ==
  ASSUME ConstBuffer = "stored", AddressesSuffice
  PROVE  Spec => []TypeOK
<1>1. Init => LoadTypes /\ CommandInv
  BY TypesInit, CommandInitInv DEF Init
<1>2. LoadInv /\ Placed /\ LoadTypes /\ CommandInv /\ [Next]_vars
        => LoadTypes' /\ CommandInv'
  BY TypesKept, CommandsCarried
<1>3. LoadInv /\ Numbered /\ Placed /\ LoadTypes /\ CommandInv => TypeOK
  <2> SUFFICES ASSUME LoadInv, Numbered, Placed, LoadTypes, CommandInv PROVE TypeOK
    OBVIOUS
  <2>1. segment_node \in 0 .. Len(segment_list)
    BY ListParsed DEF Placed, Found
  <2>2. CommandTypeOK
    BY DEF CommandInv
  <2> QED
    BY <2>1, <2>2
       DEF TypeOK, LoadTypes, LoadInv, Counters, Places, Progress, Numbered, Placed
<1>4. Spec => []Numbered
  BY NumberedInit, NumberedKept, LoadInvariance, PTL DEF Spec
<1>5. Spec => []Placed
  BY PlacedInit, PlacedKept, PTL DEF Spec
<1> QED
  BY <1>1, <1>2, <1>3, <1>4, <1>5, LoadInvariance, PTL DEF Spec
=============================================================================
