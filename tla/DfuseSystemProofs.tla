------------------------- MODULE DfuseSystemProofs -------------------------
(***************************************************************************)
(* What the DfuSe load functions and the device make of each other, for    *)
(* all sizes, memories, transfer sizes, descriptors and poll budgets, and  *)
(* through lost requests, lost answers, failed jobs and crashes.           *)
(***************************************************************************)
EXTENDS DfuseSystem, LoadDfuseProofs

(***************************************************************************)
(* The composition only narrows the replies: with the device forgotten,    *)
(* its steps are steps of LoadDfuse.  What holds of the load functions     *)
(* against every device therefore holds against this one.                  *)
(***************************************************************************)
LEMMA ComposedCode ==
  ASSUME OpenDevice \/ Finish
  PROVE  Code
BY DEF OpenDevice, Finish, Code

LEMMA ComposedCallee ==
  ASSUME AskStatus \/ GiveCommand \/ Recover
  PROVE  Callee
<1>1. CASE AskStatus
  BY <1>1 DEF AskStatus, Polls, Callee, CommandStep, WaitStep, Poll
<1>2. CASE GiveCommand
  BY <1>2 DEF GiveCommand, Callee, CommandStep
<1>3. CASE Recover
  BY <1>3 DEF Recover, Callee, CommandStep, WaitStep, Request
<1> QED
  BY <1>1, <1>2, <1>3

LEMMA ComposedData ==
  ASSUME GiveBlock \/ FetchBlock
  PROVE  Data
BY DEF GiveBlock, FetchBlock, Data

LEMMA ComposedCompute ==
  ASSUME Compute
  PROVE  Control \/ Callee
BY DEF Compute, Callee, CommandStep, WaitStep

LEMMA ComposedNext ==
  ASSUME [SystemNext]_systemVars
  PROVE  [Next]_vars
<1>1. CASE SystemCall
  BY <1>1 DEF SystemCall, LoadCall, Next
<1>2. CASE HostStep
  BY <1>2, ComposedCode, ComposedCallee, ComposedData, ComposedCompute
     DEF HostStep, Next, LoadStep
<1>3. CASE CrashStep \/ UNCHANGED systemVars
  BY <1>3 DEF CrashStep, systemVars
<1> QED
  BY <1>1, <1>2, <1>3 DEF SystemNext

(* On the device of DfuDevice a load call does only what it may do on any. *)
THEOREM SystemIsLoad == SystemSpec => Spec
<1>1. SystemInit => Init
  BY DEF SystemInit
<1> QED
  BY <1>1, ComposedNext, PTL DEF SystemSpec, Spec

(* A download to this device is one of the transfer load.h promises, too.  *)
THEOREM SystemTransfers == SystemSpec => DownloadIsTransfer
<1> QED
  BY SystemIsLoad, DownloadRefines, PTL

(* What the load functions keep on any device, of which the rest builds.   *)
HostInv == LoadInv /\ Numbered /\ Placed /\ CalleeAt

THEOREM HostInvariance == SystemSpec => []HostInv
<1>1. Init => HostInv
  BY LoadInitInv, NumberedInit, PlacedInit, CalleeAtInit DEF HostInv
<1>2. HostInv /\ [Next]_vars => HostInv'
  BY LoadStepInv, NumberedKept, PlacedKept, CalleeAtKept DEF HostInv
<1> QED
  BY <1>1, <1>2, SystemIsLoad, PTL DEF Spec

-----------------------------------------------------------------------------
(***************************************************************************)
(* The device.  A request is lost, stalled or done; only the first two of  *)
(* them are errors to the host, and a lost answer is one as well.          *)
(***************************************************************************)
Fields == { "state", "status", "pointer", "job", "busy" } \subseteq DOMAIN dev

Lost(r) == r < 0 /\ ~ prompt' /\ dev' = dev

Stalled(r) == r < 0 /\ plugged /\ dev'.state = "Error" /\ dev'.status = "Failed"

(* No request but GETSTATUS touches the flash, or what only jobs change.   *)
Spared ==
  /\ UNCHANGED << flash, plugged >> /\ Fields'
  /\ dev'.pointer = dev.pointer /\ dev'.busy = dev.busy
  /\ prompt' => prompt

LEMMA Negative ==
  ASSUME NEW r \in TransferErrors
  PROVE  r \in Int /\ r < 0
BY TransferErrorsAssumption

(* A lost answer shows in the history, whatever it was.                    *)
LEMMA AnswerHeard ==
  ASSUME NEW r, NEW answer, Answered(r, answer, TransferErrors)
  PROVE  /\ plugged /\ plugged' = plugged /\ (prompt' => prompt)
         /\ r = answer \/ (r < 0 /\ r # answer /\ ~ prompt')
<1>1. plugged /\ plugged' = plugged /\ r \in {answer} \cup TransferErrors
  BY DEF Answered
<1>2. (prompt' => prompt) /\ (r # answer => ~ prompt')
  BY Zenon DEF Answered
<1> QED
  BY <1>1, <1>2, Negative

LEMMA StallEffect ==
  ASSUME Fields, NEW r, Stall(r)
  PROVE  Spared /\ Stalled(r) /\ fetched' = fetched
<1>1. r \in TransferErrors
  BY TransferErrorsAssumption DEF Stall, Answered
<1>2. plugged /\ plugged' = plugged /\ (prompt' => prompt)
  BY AnswerHeard DEF Stall
<1> QED
  BY <1>1, <1>2, Negative DEF Fields, Stall, Spared, Stalled

LEMMA DnloadEffect ==
  ASSUME Fields, NEW length, NEW job, NEW r, Dnload(length, job, r)
  PROVE  /\ Spared /\ fetched' = fetched
         /\ \/ Lost(r)
            \/ /\ Stalled(r)
               /\ dev.state \notin { "Idle", "DownloadIdle" } \/ job.length > TransferSize
            \/ /\ dev.state \in { "Idle", "DownloadIdle" } /\ plugged
               /\ dev'.state = IF length = 0 THEN "ManifestSync" ELSE "DownloadSync"
               /\ dev'.job = job /\ dev'.status = dev.status
               /\ (r = length \/ (r < 0 /\ r # length /\ ~ prompt'))
<1>1. CASE Unheard(r, TransferErrors)
  BY <1>1, Negative DEF Unheard, Lost, Spared, Fields
<1>2. CASE /\ Stall(r)
           /\ dev.state \notin { "Idle", "DownloadIdle" } \/ job.length > TransferSize
  BY <1>2, StallEffect
<1>3. CASE /\ dev.state \in { "Idle", "DownloadIdle" }
           /\ Answered(r, length, TransferErrors)
           /\ dev' = [dev EXCEPT !.job = job,
                        !.state = IF length = 0 THEN "ManifestSync" ELSE "DownloadSync"]
           /\ UNCHANGED << flash, fetched >>
  <2>1. /\ plugged /\ plugged' = plugged /\ (prompt' => prompt)
        /\ (r = length \/ (r < 0 /\ r # length /\ ~ prompt'))
    BY <1>3, AnswerHeard
  <2> QED
    BY <1>3, <2>1 DEF Spared, Fields
<1> QED
  BY <1>1, <1>2, <1>3 DEF Dnload

LEMMA AbortEffect ==
  ASSUME Fields, NEW r, AbortRequest(r)
  PROVE  /\ Spared /\ fetched' = fetched
         /\ \/ Lost(r)
            \/ /\ Stalled(r)
               /\ dev.state \in { "DownloadBusy", "Manifest", "ManifestWaitReset", "Error" }
            \/ /\ dev.state \notin { "DownloadBusy", "Manifest", "ManifestWaitReset", "Error" }
               /\ plugged /\ dev'.state = "Idle" /\ dev'.status = dev.status
               /\ (r = 0 \/ (r < 0 /\ ~ prompt'))
<1>1. CASE Unheard(r, TransferErrors)
  BY <1>1, Negative DEF Unheard, Lost, Spared, Fields
<1>2. CASE Stall(r)
           /\ dev.state \in { "DownloadBusy", "Manifest", "ManifestWaitReset", "Error" }
  BY <1>2, StallEffect
<1>3. CASE /\ dev.state \notin { "DownloadBusy", "Manifest", "ManifestWaitReset", "Error" }
           /\ Answered(r, 0, TransferErrors)
           /\ dev' = [dev EXCEPT !.state = "Idle", !.job = NoJob]
           /\ UNCHANGED << flash, fetched >>
  <2>1. /\ plugged /\ plugged' = plugged /\ (prompt' => prompt)
        /\ (r = 0 \/ (r < 0 /\ ~ prompt'))
    BY <1>3, AnswerHeard
  <2> QED
    BY <1>3, <2>1 DEF Spared, Fields
<1> QED
  BY <1>1, <1>2, <1>3 DEF AbortRequest

LEMMA ClearEffect ==
  ASSUME Fields, NEW r, ClearStatusRequest(r)
  PROVE  /\ Spared /\ fetched' = fetched
         /\ \/ Lost(r)
            \/ Stalled(r) /\ dev.state # "Error"
            \/ dev.state = "Error" /\ dev'.state = "Idle" /\ dev'.status = "Ok"
<1>1. CASE Unheard(r, TransferErrors)
  BY <1>1, Negative DEF Unheard, Lost, Spared, Fields
<1>2. CASE Stall(r) /\ dev.state # "Error"
  BY <1>2, StallEffect
<1>3. CASE /\ dev.state = "Error"
           /\ Answered(r, 0, TransferErrors)
           /\ dev' = [dev EXCEPT !.state = "Idle", !.status = "Ok"]
           /\ UNCHANGED << flash, fetched >>
  <2>1. plugged' = plugged /\ (prompt' => prompt)
    BY <1>3, AnswerHeard
  <2> QED
    BY <1>3, <2>1 DEF Spared, Fields
<1> QED
  BY <1>1, <1>2, <1>3 DEF ClearStatusRequest

(* An upload that answers a count has read as many addresses in a row.     *)
LEMMA UploadEffect ==
  ASSUME Fields, NEW block, NEW length, NEW r \in Int, Upload(block, length, r)
  PROVE  /\ Spared
         /\ r >= 0 =>
              fetched' = fetched \o [k \in 1 .. r |-> BlockAddress(block) + k - 1]
         /\ \/ Lost(r)
            \/ /\ Stalled(r)
               /\ dev.state \notin { "Idle", "UploadIdle" } \/ length > TransferSize
            \/ /\ dev.state \in { "Idle", "UploadIdle" } /\ plugged
               /\ dev'.state \in { "Idle", "UploadIdle" } /\ dev'.status = dev.status
<1> DEFINE first == BlockAddress(block)
           read  == { a \in first .. first + length - 1 : a \in Memory }
           n     == IF read = {} THEN 0
                    ELSE 1 + (CHOOSE a \in read : \A b \in read : b <= a) - first
<1>1. CASE Unheard(r, TransferErrors)
  BY <1>1, Negative DEF Unheard, Lost, Spared, Fields
<1>2. CASE /\ Stall(r)
           /\ dev.state \notin { "Idle", "UploadIdle" } \/ length > TransferSize
  BY <1>2, StallEffect DEF Stalled
<1>3. CASE /\ dev.state \in { "Idle", "UploadIdle" }
           /\ Answered(r, n, TransferErrors)
           /\ dev' = [dev EXCEPT !.state = IF n < length THEN "Idle" ELSE "UploadIdle"]
           /\ fetched' = fetched \o [k \in 1 .. n |-> BlockAddress(block) + k - 1]
           /\ UNCHANGED flash
  <2> HIDE DEF n
  <2>1. PICK m : m = n
    OBVIOUS
  <2>2. /\ Answered(r, m, TransferErrors)
        /\ dev' = [dev EXCEPT !.state = IF m < length THEN "Idle" ELSE "UploadIdle"]
        /\ fetched' = fetched \o [k \in 1 .. m |-> BlockAddress(block) + k - 1]
    BY <1>3, <2>1
  <2>3. plugged /\ plugged' = plugged /\ (prompt' => prompt)
    BY <2>2, AnswerHeard
  <2>4. r >= 0 => r = m
    BY <2>2, Negative DEF Answered
  <2>5. Spared /\ dev'.state \in { "Idle", "UploadIdle" } /\ dev'.status = dev.status
    BY <1>3, <2>2, <2>3 DEF Spared, Fields
  <2> QED
    BY <1>3, <2>2, <2>3, <2>4, <2>5
<1> QED
  BY <1>1, <1>2, <1>3 DEF Upload

(* What becomes of the device that takes a GETSTATUS.                      *)
Progresses ==
  StartJob \/ StayBusy \/ EndJob \/ FailJob \/ Manifest(tolerant) \/ Rest

LEMMA StatusEffect ==
  ASSUME NEW r, StatusRequest(tolerant, r)
  PROVE  /\ UNCHANGED << fetched, plugged >> /\ (prompt' => prompt)
         /\ \/ r.n < 0 /\ ~ prompt' /\ UNCHANGED << dev, flash >>
            \/ /\ plugged /\ Progresses
               /\ prompt' => r = Reading /\ dev'.busy = 0 /\ dev'.status = "Ok"
<1>1. CASE Unheard(r, NoReply)
  BY <1>1, Negative DEF Unheard, NoReply
<1>2. CASE /\ Progresses
           /\ plugged /\ r \in {Reading} \cup NoReply
           /\ prompt' = (prompt /\ r = Reading /\ dev'.busy = 0 /\ dev'.status = "Ok")
           /\ UNCHANGED << fetched, plugged >>
  BY <1>2, Zenon
<1> QED
  BY <1>1, <1>2 DEF StatusRequest, Progresses

(* GETSTATUS starts the job a DNLOAD left.                                 *)
LEMMA JobIsStarted ==
  ASSUME Fields, Progresses
  PROVE  Fields' /\ dev'.state # "DownloadSync"
BY DEF Fields, Progresses, StartJob, StayBusy, EndJob, FailJob, Manifest, Rest

(* Only the end of a job touches the flash or moves the address pointer.   *)
LEMMA JobsWrite ==
  ASSUME Fields, Progresses, ~ EndJob
  PROVE  flash' = flash /\ dev'.pointer = dev.pointer
BY DEF Fields, Progresses, StartJob, StayBusy, FailJob, Manifest, Rest

-----------------------------------------------------------------------------
(***************************************************************************)
(* The device between its jobs: no poll of an earlier job is left over,    *)
(* and a failure shows in the state.  Behind the abort that ends a         *)
(* download's blocks there is no job any more.                             *)
(***************************************************************************)
Jobs == { "DownloadSync", "DownloadBusy" }

Calm == dev.state \notin Jobs

(* Not the failure of a callee.                                            *)
Good == at = "ret" => ec >= 0

Sane ==
  /\ Fields
  /\ dev.state \notin { "DownloadBusy", "Error" } => dev.busy = 0
  /\ dev.status # "Ok" => dev.state = "Error"

Aborted ==
  \/ pc = "idled" /\ at # "abort" /\ Good
  \/ pc \in { "terminate", "manifested" }

Rested == Sane /\ (Aborted => Calm /\ dev.busy = 0)

LEMMA RestedInit == SystemInit => Rested
<1> SUFFICES ASSUME SystemInit PROVE Rested
  OBVIOUS
<1>1. dev = [state |-> "Idle", status |-> "Ok", pointer |-> 0, job |-> NoJob, busy |-> 0]
  BY DEF SystemInit, DeviceInit
<1>2. pc = "idle"
  BY DEF SystemInit, Init, LoadInit
<1> QED
  BY <1>1, <1>2 DEF Rested, Sane, Fields, Aborted

LEMMA SaneDnload ==
  ASSUME Sane, NEW length, NEW job, NEW r, Dnload(length, job, r)
  PROVE  Sane'
BY DnloadEffect DEF Sane, Spared, Lost, Stalled

LEMMA SaneAbort ==
  ASSUME Sane, NEW r, AbortRequest(r)
  PROVE  Sane'
BY AbortEffect DEF Sane, Spared, Lost, Stalled

LEMMA SaneUpload ==
  ASSUME Sane, NEW block, NEW length, NEW r \in Int, Upload(block, length, r)
  PROVE  Sane'
BY UploadEffect DEF Sane, Spared, Lost, Stalled

LEMMA SaneStatus ==
  ASSUME Sane, NEW r, StatusRequest(tolerant, r)
  PROVE  Sane' /\ (Calm /\ dev.busy = 0 => Calm' /\ dev'.busy = 0)
<1>1. CASE UNCHANGED dev
  BY <1>1 DEF Sane, Fields, Calm
<1>2. CASE Progresses
  BY <1>2
     DEF Sane, Fields, Calm, Jobs, Progresses, StartJob, StayBusy, EndJob, FailJob,
         Manifest, Rest
<1> QED
  BY <1>1, <1>2, StatusEffect

(* A step of the host that asks nothing of the device gets behind the      *)
(* abort only by its success.                                              *)
LEMMA AbortedStays ==
  ASSUME HostInv, SystemCall \/ OpenDevice \/ Compute, Aborted'
  PROVE  Aborted /\ dev' = dev
<1>1. ~ SystemCall
  BY DEF SystemCall, Call, Start, Aborted
<1>2. ~ OpenDevice
  BY DEF OpenDevice, OpenDownload, OpenUpload, Quit, Close, Aborted
<1>3. Compute /\ dev' = dev
  BY <1>1, <1>2 DEF Compute, deviceVars
<1>4. CASE Control
  <2>1. ec \in Int
    BY CodeType DEF HostInv, LoadInv, Counters
  <2>2. AfterIdle => Aborted
    BY <2>1 DEF AfterIdle, Proceed, Close, Aborted, Good
  <2>3. ~ AfterIdle => Aborted
    BY <1>4
       DEF Control, ErasePage, AfterErase, SetAddress, AfterAddress, AfterBlock,
           EndBlocks, AfterManifest, EndUpload, AfterSettle, Proceed, Close, Enter,
           Aborted
  <2> QED
    BY <1>3, <2>2, <2>3
<1>5. CASE (WakeUpCommand \/ WakeUp) /\ UNCHANGED loadVars
  BY <1>3, <1>5 DEF HostInv, Calling, WakeUpCommand, WakeUp, CalleeAt, Aborted, loadVars
<1> QED
  BY <1>3, <1>4, <1>5 DEF Compute

(* A transfer of the load functions returns an integer.                    *)
LEMMA CodeReplyInt == ASSUME NEW r \in CodeReplies PROVE r \in Int
BY CodeReply, CodeType

LEMMA SendReplyInt ==
  ASSUME LoadInv, total < expected, NEW r \in TransferReplies(SendLength)
  PROVE  r \in Int
BY SendLengthFits, DataReply, CodeType

LEMMA ReadReplyInt ==
  ASSUME LoadInv, NEW r \in TransferReplies(ReadLength)
  PROVE  r \in Int
BY ReadLengthFits, DataReply, CodeType

LEMMA RestedRecover ==
  ASSUME HostInv, Rested, NEW r \in CodeReplies, pc' = pc,
         \/ Abort(r) /\ AbortRequest(r)
         \/ ClearStatus(r) /\ ClearStatusRequest(r)
  PROVE  Rested'
<1>1. CASE Abort(r) /\ AbortRequest(r)
  <2>1. Sane' /\ pc' = "idled"
    BY <1>1, SaneAbort DEF Rested, HostInv, CalleeAt, Calling, Abort
  <2>2. CASE r < 0
    BY <1>1, <2>1, <2>2, CodeReplyInt DEF Abort, Return, Rested, Aborted, Good
  <2>3. CASE ~ (r < 0)
    <3>1. dev'.state = "Idle"
      BY <1>1, <2>3, AbortEffect DEF Rested, Sane, Lost, Stalled
    <3> QED
      BY <2>1, <3>1 DEF Rested, Sane, Calm, Jobs
  <2> QED
    BY <2>2, <2>3
<1>2. CASE ClearStatus(r) /\ ClearStatusRequest(r)
  <2>1. pc' = "manifested" /\ Calm /\ dev.busy = 0
    BY <1>2 DEF ClearStatus, HostInv, CalleeAt, Calling, Rested, Aborted
  <2> QED
    BY <1>2, <2>1, ClearEffect
       DEF Rested, Sane, Spared, Lost, Stalled, Calm, Jobs
<1> QED
  BY <1>1, <1>2

LEMMA RestedFinish ==
  ASSUME HostInv, Rested, Finish
  PROVE  Rested'
<1>1. ASSUME NEW r \in CodeReplies, AbortCommand(r) \/ Release(r), AbortRequest(r)
      PROVE  Rested'
  <2>1. pc' \in { "done", "block" }
    BY <1>1 DEF AbortCommand, Release, Proceed, Close
  <2> QED
    BY <1>1, <2>1, SaneAbort DEF Rested, Aborted
<1>2. ASSUME NEW r \in CodeReplies, Terminate(r), Dnload(0, NoJob, r)
      PROVE  Rested'
  <2>1. Calm /\ dev.busy = 0 /\ Sane'
    BY <1>2, SaneDnload DEF Terminate, Rested, Aborted
  <2> QED
    BY <1>2, <2>1, DnloadEffect DEF Rested, Sane, Spared, Lost, Stalled, Calm, Jobs
<1> QED
  BY <1>1, <1>2 DEF Finish

LEMMA RestedKept ==
  ASSUME HostInv, Rested, [SystemNext]_systemVars
  PROVE  Rested'
<1>1. CASE SystemCall \/ OpenDevice \/ Compute
  <2>1. dev' = dev
    BY <1>1 DEF SystemCall, OpenDevice, Compute, deviceVars
  <2> QED
    BY <1>1, <2>1, AbortedStays DEF Rested, Sane, Fields, Calm
<1>2. CASE AskStatus
  <2>1. at = "poll" /\ pc' = pc /\ Sane' /\ (Calm /\ dev.busy = 0 => Calm' /\ dev'.busy = 0)
    BY <1>2, SaneStatus DEF AskStatus, Rested, loadVars
  <2> QED
    BY <2>1 DEF Rested, Aborted, Good
<1>3. CASE GiveCommand
  <2>1. Sane' /\ pc' = pc /\ at = "command"
    BY <1>3, SaneDnload DEF GiveCommand, Rested, SendCommand, loadVars
  <2>2. ~ Aborted'
    BY <2>1 DEF HostInv, CalleeAt, Calling, Aborted
  <2> QED
    BY <2>1, <2>2 DEF Rested
<1>4. CASE Recover
  BY <1>4, RestedRecover DEF Recover, loadVars
<1>5. CASE GiveBlock
  <2>1. PICK r \in TransferReplies(SendLength) :
          SendBlock(r) /\ Dnload(SendLength, WriteJob(count, head, SendLength), r)
    BY <1>5 DEF GiveBlock
  <2>2. Sane' /\ pc' \in { "done", "waited" }
    BY <2>1, SaneDnload DEF Rested, SendBlock, Close
  <2> QED
    BY <2>2 DEF Rested, Aborted
<1>6. CASE FetchBlock
  <2>1. PICK r \in TransferReplies(ReadLength) : ReadBlock(r) /\ Upload(count, ReadLength, r)
    BY <1>6 DEF FetchBlock
  <2>2. Sane' /\ pc' \in { "done", "block", "settled" }
    BY <2>1, SaneUpload, ReadReplyInt DEF Rested, HostInv, ReadBlock, Close
  <2> QED
    BY <2>2 DEF Rested, Aborted
<1>7. CASE Finish
  BY <1>7, RestedFinish
<1>8. CASE CrashStep
  <2>1. /\ dev' = [dev EXCEPT !.state = "Idle", !.status = "Ok", !.pointer = 0,
                    !.job = NoJob, !.busy = 0]
    BY <1>8 DEF CrashStep, Crash
  <2> QED
    BY <2>1 DEF Rested, Sane, Fields, Calm, Jobs
<1>9. CASE UNCHANGED systemVars
  BY <1>9
     DEF systemVars, vars, commandVars, waitVars, loadVars, deviceVars, Rested, Sane,
         Fields, Aborted, Good, Calm
<1> QED
  BY <1>1, <1>2, <1>3, <1>4, <1>5, <1>6, <1>7, <1>8, <1>9 DEF SystemNext, HostStep

-----------------------------------------------------------------------------
(***************************************************************************)
(* Whole blocks.  The device takes a block as it is or not at all, and an  *)
(* upload goes on behind a full block only: while bytes are left to move,  *)
(* every block was one of the length asked for.                            *)
(***************************************************************************)
Whole ==
  /\ pc \in { "open", "erase", "erased", "addressed", "abort", "block", "waited" } => exact
  /\ Running => expected \in Sizes
  /\ Running /\ total < expected => chunk \in ChunkSizes

LEMMA WholeInit == SystemInit => Whole
BY DEF SystemInit, Init, LoadInit, Whole, Running

(* A step within a call that moves no data.                                *)
LEMMA WholeElsewhere ==
  ASSUME Whole, UNCHANGED << expected, chunk, total, exact >>,
         pc' # "done" => Running,
         pc' \in { "open", "erase", "erased", "addressed", "abort", "block", "waited" }
           => pc \in { "open", "erase", "erased", "addressed", "abort", "block", "waited" }
  PROVE  Whole'
BY DEF Whole, Running

(* The length of the block about to be sent is not cut: it is the one      *)
(* asked for, or what is left of the image.                                *)
LEMMA Sending ==
  ASSUME HostInv, Whole, pc = "block", total < expected
  PROVE  /\ total \in Nat /\ expected \in Nat /\ chunk \in Nat /\ chunk \in ChunkSizes
         /\ NextChunk \in 0 .. U16 - 1 /\ SendLength = NextChunk /\ NextChunk <= chunk
         /\ NextChunk = chunk \/ NextChunk = expected - total
         /\ chunk # 0 => NextChunk # 0
<1>1. /\ total \in Nat /\ expected \in Nat /\ chunk \in Nat /\ chunk <= U16 - 1
      /\ U16 \in Nat
  BY U16Assumption DEF HostInv, LoadInv, Counters, Numbered
<1>2. chunk \in ChunkSizes
  BY DEF Whole, Running
<1>3. /\ NextChunk \in 0 .. U16 - 1 /\ NextChunk <= chunk
      /\ NextChunk = chunk \/ NextChunk = expected - total
      /\ chunk # 0 => NextChunk # 0
  BY <1>1 DEF NextChunk
<1>4. SendLength = NextChunk
  BY <1>1, <1>3 DEF SendLength, transfer_out
<1> QED
  BY <1>1, <1>2, <1>3, <1>4

LEMMA WholeSend ==
  ASSUME HostInv, Rested, Whole, GiveBlock
  PROVE  Whole'
<1>1. PICK r \in TransferReplies(SendLength) :
        SendBlock(r) /\ Dnload(SendLength, WriteJob(count, head, SendLength), r)
  BY DEF GiveBlock
<1>2. pc = "block" /\ total < expected /\ expected' = expected /\ chunk' = NextChunk
  BY <1>1 DEF SendBlock
<1>3. r \in Int
  BY <1>1, <1>2, SendReplyInt DEF HostInv
<1>4. CASE r < 0
  <2>1. pc' = "done"
    BY <1>1, <1>3, <1>4 DEF SendBlock, Close
  <2> QED
    BY <2>1 DEF Whole, Running
<1>5. CASE r >= 0
  <2>1. r = SendLength
    BY <1>1, <1>3, <1>5, DnloadEffect DEF Rested, Sane, Lost, Stalled
  <2>2. pc' = "waited" /\ total' = total + NextChunk /\ exact' = (exact /\ r = SendLength)
    BY <1>1, <1>2, <1>3, <1>5, <2>1, Sending DEF SendBlock, Move
  <2>3. exact' /\ expected' \in Sizes
    BY <1>2, <2>1, <2>2 DEF Whole, Running
  <2>4. total' < expected' => chunk' \in ChunkSizes
    BY <1>2, <2>2, Sending
  <2> QED
    BY <2>3, <2>4 DEF Whole
<1> QED
  BY <1>3, <1>4, <1>5

LEMMA WholeRead ==
  ASSUME HostInv, Whole, FetchBlock
  PROVE  Whole'
<1>1. PICK r \in TransferReplies(ReadLength) : ReadBlock(r)
  BY DEF FetchBlock
<1>2. /\ pc = "block" /\ UNCHANGED << expected, chunk >> /\ total < expected
      /\ exact /\ expected \in Sizes /\ chunk \in ChunkSizes
  BY <1>1 DEF ReadBlock, Whole, Running
<1>3. r \in Int /\ ReadLength \in Nat /\ ReadLength <= chunk /\ chunk \in Nat
  BY <1>1, ReadReplyInt, ReadLengthFits DEF HostInv, LoadInv, Counters
<1>4. CASE pc' = "block"
  <2>1. r >= chunk /\ exact' = (exact /\ r = ReadLength)
    BY <1>1, <1>3, <1>4 DEF ReadBlock, UploadGoesOn, Move, Close
  <2>2. r <= ReadLength
    BY <1>1, <1>3, <2>1, DataReply
  <2>3. r = ReadLength
    BY <1>3, <2>1, <2>2
  <2>4. exact'
    BY <1>2, <2>1, <2>3
  <2> QED
    BY <1>2, <2>4 DEF Whole
<1>5. CASE pc' # "block"
  <2>1. pc' \in { "done", "settled" }
    BY <1>1, <1>5 DEF ReadBlock, Close
  <2> QED
    BY <1>2, <2>1 DEF Whole, Running
<1> QED
  BY <1>4, <1>5

LEMMA WholeKept ==
  ASSUME HostInv, Rested, Whole, [SystemNext]_systemVars
  PROVE  Whole'
<1>1. CASE SystemCall
  BY <1>1 DEF SystemCall, Call, Start, Whole, Running
<1>2. CASE UNCHANGED loadVars
  BY <1>2 DEF loadVars, Whole, Running
<1>3. CASE OpenDevice \/ Finish
  BY <1>3, WholeElsewhere
     DEF OpenDevice, Finish, OpenDownload, OpenUpload, AbortCommand, Release, Terminate,
         Quit, Close, Proceed, Running
<1>4. CASE Compute
  <2>1. CASE Control
    BY <2>1, WholeElsewhere
       DEF Control, ErasePage, AfterErase, SetAddress, AfterAddress, AfterBlock, EndBlocks,
           AfterIdle, AfterManifest, EndUpload, AfterSettle, Proceed, Close, Running
  <2> QED
    BY <1>2, <1>4, <2>1 DEF Compute
<1>5. CASE AskStatus \/ GiveCommand \/ Recover
  BY <1>2, <1>5 DEF AskStatus, GiveCommand, Recover
<1>6. CASE CrashStep \/ UNCHANGED systemVars
  BY <1>2, <1>6 DEF CrashStep, systemVars, vars
<1> QED
  BY <1>1, <1>3, <1>4, <1>5, <1>6, WholeSend, WholeRead DEF SystemNext, HostStep

-----------------------------------------------------------------------------
(***************************************************************************)
(* A download.  The count the host counts by and the memory the device     *)
(* fills are kept in step by what lies between them: the address pointer   *)
(* at the start address, the block number, the job in hand, and the polls  *)
(* that must have found a job begun before the host goes on (Heard).  A    *)
(* device that is late or has failed stalls the next request (Jammed).     *)
(***************************************************************************)
Written(n) == \A k \in 0 .. n - 1 : start + k \in Memory /\ flash[start + k] = k

Ready == dev.state = "DownloadIdle" /\ dev.pointer = start

Jammed == dev.state \in { "DownloadBusy", "Error" }

Heard == at # "poll" /\ ec >= 0 => dev.state # "DownloadSync"

(* The address command is in hand, refused or carried out.                 *)
Addressing ==
  \/ dev.state \in Jobs /\ dev.job = CommandJob(dfuse_cmd_set_address(start))
  \/ dev.state = "Error"
  \/ Ready

(* A write of the last bytes moved, behind the ones that are there.        *)
Pending(j) ==
  /\ j.op = "Write" /\ j.first \in 0 .. total
  /\ j.address = start + j.first /\ j.length = total - j.first
  /\ Written(j.first)

Writing ==
  \/ dev.state \in Jobs /\ dev.pointer = start /\ Pending(dev.job)
  \/ dev.state = "Error"
  \/ Ready /\ Written(total)

Between == Jammed \/ (Ready /\ Written(total))

Programmed ==
  /\ pc = "addressed" /\ at = "command" => command = dfuse_cmd_set_address(start)
  /\ pc = "addressed" /\ at # "command" /\ Good /\ plugged => Addressing /\ Heard
  /\ pc = "abort" /\ plugged => Jammed \/ Ready
  /\ pc = "waited" /\ Good /\ plugged => Writing /\ Heard
  /\ (pc = "block" /\ op = "download_dfuse") \/ (pc = "idled" /\ at = "abort") =>
       (plugged => Between)
  /\ Aborted => Written(total)
  /\ Done("download_dfuse") => Calm /\ Written(result)

LEMMA ProgrammedInit == SystemInit => Programmed
BY DEF SystemInit, Init, LoadInit, Programmed, Aborted, Done

(* A GETSTATUS brings the command or the write in hand to its end.         *)
LEMMA AddressingKept ==
  ASSUME Fields, Addressing, NEW r, StatusRequest(tolerant, r), start' = start
  PROVE  Addressing'
<1>1. CASE UNCHANGED dev
  BY <1>1 DEF Addressing, Ready
<1>2. CASE Progresses
  <2>1. CASE EndJob
    BY <2>1
       DEF EndJob, Fields, Addressing, Ready, Jobs, CommandJob, dfuse_cmd_set_address
  <2>2. CASE Rest
    BY <2>2 DEF Rest, Addressing, Ready
  <2> QED
    BY <1>2, <2>1, <2>2
       DEF Progresses, StartJob, StayBusy, FailJob, Manifest, Fields, Addressing, Ready,
           Jobs
<1> QED
  BY <1>1, <1>2, StatusEffect

LEMMA WritingKept ==
  ASSUME Fields, Writing, NEW r, StatusRequest(tolerant, r),
         UNCHANGED << start, total >>, start \in Nat, total \in Nat
  PROVE  Writing'
<1>1. CASE UNCHANGED << dev, flash >>
  BY <1>1 DEF Writing, Ready, Pending, Written
<1>2. CASE Progresses /\ ~ EndJob
  <2>1. flash' = flash /\ dev'.pointer = dev.pointer
    BY <1>2, JobsWrite
  <2>2. Written(total)' <=> Written(total)
    BY <2>1 DEF Written
  <2>3. ASSUME dev'.job = dev.job PROVE Pending(dev.job)' <=> Pending(dev.job)
    BY <2>1, <2>3 DEF Pending, Written
  <2>4. CASE StartJob \/ StayBusy
    BY <2>1, <2>2, <2>3, <2>4 DEF StartJob, StayBusy, Fields, Writing, Ready, Jobs
  <2>5. CASE FailJob
    BY <2>5 DEF FailJob, Fields, Writing
  <2>6. CASE Manifest(tolerant)
    BY <2>6 DEF Manifest, Writing, Ready, Jobs
  <2>7. CASE Rest
    BY <2>2, <2>7 DEF Rest, Writing, Ready, Jobs
  <2> QED
    BY <1>2, <2>4, <2>5, <2>6, <2>7 DEF Progresses
<1>3. CASE EndJob
  <2> DEFINE j == dev.job
  <2>1. /\ dev.pointer = start /\ Pending(j) /\ CanDo(j)
        /\ flash' = FlashAfter(j)
        /\ dev'.state = "DownloadIdle" /\ dev'.pointer = start
    BY <1>3 DEF EndJob, Fields, Writing, Ready, Jobs, Pending
  <2>2. /\ j.op = "Write" /\ j.first \in 0 .. total
        /\ j.address = start + j.first /\ j.length = total - j.first
    BY <2>1 DEF Pending
  <2>3. Touched(j) = start + j.first .. start + total - 1
    BY <2>2 DEF Touched
  <2>4. ASSUME NEW k \in 0 .. total - 1
        PROVE  start + k \in Memory /\ flash'[start + k] = k
    <3>1. CASE k < j.first
      <4>1. start + k \in Memory /\ flash[start + k] = k
        BY <2>1, <2>2, <2>4, <3>1 DEF Pending, Written
      <4>2. start + k \notin Touched(j)
        BY <2>2, <2>3, <2>4, <3>1
      <4> QED
        BY <2>1, <4>1, <4>2 DEF FlashAfter
    <3>2. CASE j.first <= k
      <4>1. start + k \in Touched(j)
        BY <2>2, <2>3, <2>4, <3>2
      <4>2. start + k \in Memory
        BY <2>1, <4>1 DEF CanDo
      <4>3. flash'[start + k] = j.first + (start + k) - j.address
        BY <2>1, <2>2, <4>1, <4>2 DEF FlashAfter
      <4> QED
        BY <2>2, <2>4, <4>2, <4>3
    <3> QED
      BY <2>2, <2>4, <3>1, <3>2
  <2> QED
    BY <2>1, <2>4 DEF Writing, Ready, Written
<1> QED
  BY <1>1, <1>2, <1>3, StatusEffect

(* A code of success behind a poll stands for a whole reply.               *)
LEMMA PollHeard ==
  ASSUME NEW r \in transfer_status, Polls(r), at' # "poll", ec' >= 0
  PROVE  r.n = 6
<1> SUFFICES ASSUME r.n # 6 PROVE FALSE
  OBVIOUS
<1> DEFINE code == StatusCode(r)
<1>1. code \in Int /\ code < 0
  <2>1. r.n \in { 0, 5 } \cup TransferErrors
    BY DEF transfer_status
  <2> QED
    BY <2>1, Negative DEF StatusCode, BootIoError_Other
<1>2. ASSUME NEW st, CommandLoop(code, st) PROVE FALSE
  BY <1>1, <1>2 DEF CommandLoop, Return, BootIoError_Transfer_Pipe
<1>3. ASSUME NEW st, NextIteration(code, st) PROVE FALSE
  BY <1>1, <1>3 DEF NextIteration, Return, Verdict, BootIoError_Other
<1>4. PollCommand(r) => ec' = code \/ \E st : CommandLoop(code, st)
  BY DEF PollCommand
<1>5. PollDownloadIdle(r) \/ PollManifest(r) => ec' = code
  BY <1>1 DEF PollDownloadIdle, PollManifest, Return, Sleep
<1>6. PollDfuIdle(r) => ec' = code \/ \E st : NextIteration(code, st)
  BY DEF PollDfuIdle, Return
<1> HIDE DEF code
<1> QED
  BY <1>1, <1>2, <1>3, <1>4, <1>5, <1>6 DEF Polls

LEMMA HeardAfterPoll ==
  ASSUME Fields, NEW r \in transfer_status, StatusRequest(tolerant, r), Polls(r)
  PROVE  Heard'
<1> SUFFICES ASSUME at' # "poll", ec' >= 0 PROVE dev'.state # "DownloadSync"
  BY DEF Heard
<1>1. r.n = 6
  BY PollHeard
<1>2. Progresses
  BY <1>1, StatusEffect
<1> QED
  BY <1>2, JobIsStarted

(* Behind a sleep the code is the poll's, or an error.                     *)
LEMMA HeardAfterSleep ==
  ASSUME Heard, ec \in Int, at = "sleep", WakeUp \/ WakeUpCommand, dev' = dev
  PROVE  Heard'
<1>1. CASE WakeUp
  BY <1>1 DEF WakeUp, NextIteration, Return, Verdict, BootIoError_Other, Heard
<1>2. CASE WakeUpCommand
  BY <1>2 DEF WakeUpCommand, CommandLoop, Return, BootIoError_Transfer_Pipe, Heard
<1> QED
  BY <1>1, <1>2

-----------------------------------------------------------------------------
LEMMA HostTypes ==
  ASSUME HostInv
  PROVE  /\ ec \in Int /\ total \in Nat /\ expected \in Nat /\ count \in Nat
         /\ start \in Nat /\ U16 \in Nat
BY CodeType, U16Assumption, U32Assumption DEF HostInv, LoadInv, Counters, Placed

LEMMA ProgrammedOpen ==
  ASSUME HostInv, Programmed, OpenDevice
  PROVE  Programmed'
<1>1. PICK r \in CodeReplies : OpenDownload(r) \/ OpenUpload(r)
  BY DEF OpenDevice
<1>2. r \in Int
  BY CodeReplyInt
<1>3. \/ pc' \in { "done", "erase" }
      \/ pc' = "addressed" /\ at' = "command" /\ command' = dfuse_cmd_set_address(start)
         /\ start' = start
  BY <1>1 DEF OpenDownload, OpenUpload, Quit, Close, EnterCommand, dfuseVars
<1>4. ~ Done("download_dfuse")'
  <2>1. pc' = "done" => result' < 0 /\ result' \in Int
    BY <1>1, <1>2
       DEF OpenDownload, OpenUpload, Quit, Close, BootIoError_Other,
           BootIoError_Configuration_DescriptorString
  <2> QED
    BY <2>1 DEF Done
<1> QED
  BY <1>3, <1>4 DEF Programmed, Aborted, dfuse_cmd_set_address

LEMMA ProgrammedStatus ==
  ASSUME HostInv, Rested, Programmed, AskStatus
  PROVE  Programmed'
<1>1. PICK r \in transfer_status : StatusRequest(tolerant, r) /\ Polls(r)
  BY DEF AskStatus
<1>2. /\ at = "poll" /\ UNCHANGED << loadVars, dfuseVars >>
      /\ pc' = pc /\ start' = start /\ total' = total /\ op' = op
  BY DEF AskStatus, loadVars, dfuseVars
<1>3. /\ Fields /\ start \in Nat /\ total \in Nat /\ plugged' = plugged /\ Good
      /\ pc \in Calling
  BY <1>1, <1>2, HostTypes, StatusEffect DEF Rested, Sane, Good, HostInv, CalleeAt
<1>4. at' \notin { "command", "abort" }
  BY <1>1
     DEF Polls, PollCommand, CommandLoop, PollDownloadIdle, PollManifest, PollDfuIdle,
         NextIteration, Return, Sleep
<1>5. Heard'
  BY <1>1, <1>3, HeardAfterPoll
<1>6. pc = "addressed" /\ plugged => Addressing'
  BY <1>1, <1>2, <1>3, AddressingKept DEF Programmed
<1>7. pc = "waited" /\ plugged => Writing'
  BY <1>1, <1>2, <1>3, WritingKept DEF Programmed
<1>8. Aborted' => Written(total)'
  <2> SUFFICES ASSUME Aborted' PROVE Written(total)'
    OBVIOUS
  <2>1. Aborted
    BY <1>2, <1>3 DEF Aborted
  <2>2. Calm /\ Written(total)
    BY <2>1 DEF Rested, Programmed
  <2>3. flash' = flash
    BY <1>1, <1>3, <2>2, StatusEffect, JobsWrite DEF EndJob, Calm, Jobs
  <2> QED
    BY <1>2, <2>2, <2>3 DEF Written
<1> QED
  BY <1>2, <1>3, <1>4, <1>5, <1>6, <1>7, <1>8 DEF Programmed, Calling, Done

LEMMA ProgrammedCommand ==
  ASSUME HostInv, Rested, Programmed, GiveCommand
  PROVE  Programmed'
<1> DEFINE length == CommandLength(command)
<1>1. PICK r \in TransferReplies(length) :
        SendCommand(r) /\ Dnload(length, CommandJob(command), r)
  BY DEF GiveCommand
<1>2. /\ at = "command" /\ pc' = pc /\ start' = start
      /\ pc \in { "erased", "addressed" }
  BY <1>1 DEF GiveCommand, SendCommand, loadVars, dfuseVars, HostInv, CalleeAt, Calling
<1>3. length \in Nat /\ length # 0
  BY DEF CommandLength
<1>4. r \in Int
  BY <1>3, DataReply, CodeType
<1>5. CASE r < 0
  BY <1>1, <1>2, <1>4, <1>5 DEF SendCommand, Return, Good, Programmed, Aborted, Done
<1>6. CASE ~ (r < 0)
  <2>1. at' = "poll"
    BY <1>1, <1>6 DEF SendCommand
  <2>2. dev'.state = "DownloadSync" /\ dev'.job = CommandJob(command)
    BY <1>1, <1>3, <1>6, DnloadEffect DEF Rested, Sane, Lost, Stalled
  <2>3. pc = "addressed" => Addressing' /\ Heard'
    BY <1>2, <2>1, <2>2
       DEF Programmed, Addressing, Jobs, CommandJob, dfuse_cmd_set_address, Heard
  <2> QED
    BY <1>2, <2>1, <2>3 DEF Programmed, Aborted, Done
<1> QED
  BY <1>5, <1>6

LEMMA ProgrammedRecover ==
  ASSUME HostInv, Rested, Programmed, Recover
  PROVE  Programmed'
<1>1. PICK r \in CodeReplies :
        \/ Abort(r) /\ AbortRequest(r)
        \/ ClearStatus(r) /\ ClearStatusRequest(r)
  BY DEF Recover
<1>2. r \in Int /\ Fields /\ pc' = pc /\ UNCHANGED << start, total >>
  BY CodeReplyInt DEF Recover, loadVars, dfuseVars, Rested, Sane
<1>3. CASE Abort(r) /\ AbortRequest(r)
  <2>1. pc = "idled" /\ at = "abort"
    BY <1>3 DEF Abort, HostInv, CalleeAt, Calling
  <2>2. CASE r < 0
    BY <1>2, <1>3, <2>1, <2>2 DEF Abort, Return, Good, Programmed, Aborted, Done
  <2>3. CASE ~ (r < 0)
    <3>1. plugged /\ dev.state \notin { "DownloadBusy", "Error" } /\ flash' = flash
      BY <1>2, <1>3, <2>3, AbortEffect DEF Lost, Stalled, Spared
    <3>2. Written(total)'
      BY <1>2, <2>1, <3>1 DEF Programmed, Between, Jammed, Written
    <3> QED
      BY <1>2, <1>3, <2>1, <2>3, <3>2 DEF Abort, Programmed, Done
  <2> QED
    BY <2>2, <2>3
<1>4. CASE ClearStatus(r) /\ ClearStatusRequest(r)
  <2>1. pc = "manifested" /\ flash' = flash
    BY <1>2, <1>4, ClearEffect DEF ClearStatus, HostInv, CalleeAt, Calling, Spared
  <2>2. Written(total)'
    BY <1>2, <2>1 DEF Programmed, Aborted, Written
  <2> QED
    BY <1>2, <2>1, <2>2 DEF Programmed, Done
<1> QED
  BY <1>1, <1>3, <1>4

(***************************************************************************)
(* The block that is about to move lies where its number says: at the      *)
(* start address and the bytes moved so far, if the caller asks for blocks *)
(* of the device's transfer size and the 16-bit block numbers suffice for  *)
(* the sizes asked for.                                                    *)
(***************************************************************************)
BlocksSuffice ==
  /\ ChunkSizes \subseteq {TransferSize}
  /\ \A size \in Sizes : size <= TransferSize * (U16 - 2)

LEMMA BlockPlace ==
  ASSUME HostInv, Whole, BlocksSuffice, pc = "block", total < expected,
         dev.pointer = start
  PROVE  BlockAddress(count) = start + total
<1>1. /\ count \in Nat /\ total \in Nat /\ start \in Nat /\ TransferSize \in Nat
      /\ U16 \in Nat
  BY HostTypes, DeviceAssumption
<1>2. chunk = TransferSize /\ exact /\ expected <= chunk * (U16 - 2)
  BY DEF Whole, Running, BlocksSuffice
<1>3. total = TransferSize * (count - 2)
  BY <1>2 DEF HostInv, Numbered, Fits
<1>4. TransferSize * (count - 2) = (count - 2) * TransferSize
  BY <1>1
<1> QED
  BY <1>1, <1>3, <1>4 DEF BlockAddress

LEMMA ProgrammedSend ==
  ASSUME HostInv, Rested, Whole, BlocksSuffice, Programmed, GiveBlock
  PROVE  Programmed'
<1>1. PICK r \in TransferReplies(SendLength) :
        SendBlock(r) /\ Dnload(SendLength, WriteJob(count, head, SendLength), r)
  BY DEF GiveBlock
<1>2. /\ pc = "block" /\ total < expected /\ op = "download_dfuse"
      /\ UNCHANGED << op, start >>
  BY <1>1 DEF SendBlock
<1>3. r \in Int /\ Fields
  BY <1>1, <1>2, SendReplyInt DEF HostInv, Rested, Sane
<1>4. CASE r < 0
  <2>1. pc' = "done" /\ result' = r
    BY <1>1, <1>3, <1>4 DEF SendBlock, Close
  <2> QED
    BY <1>3, <1>4, <2>1 DEF Programmed, Aborted, Done
<1>5. CASE r >= 0
  <2> DEFINE j == WriteJob(count, head, NextChunk)
  <2>1. /\ total \in Nat /\ NextChunk \in Nat \ {0} /\ SendLength = NextChunk
        /\ start \in Nat
    BY <1>2, Sending, HostTypes, DeviceAssumption DEF BlocksSuffice
  <2>2. /\ plugged /\ dev.state \in { "Idle", "DownloadIdle" } /\ r = NextChunk
        /\ dev'.state = "DownloadSync" /\ dev'.job = j
        /\ dev'.pointer = dev.pointer /\ flash' = flash
    BY <1>1, <1>3, <1>5, <2>1, DnloadEffect DEF Lost, Stalled, Spared
  <2>3. Ready /\ Written(total)
    BY <1>2, <2>2 DEF Programmed, Between, Jammed
  <2>4. pc' = "waited" /\ at' = "poll" /\ total' = total + NextChunk
    BY <1>1, <1>3, <1>5, <2>2 DEF SendBlock, Move, Enter
  <2>5. head = total
    BY <1>2 DEF HostInv, LoadInv, Progress, Running
  <2>6. BlockAddress(count) = start + total
    BY <1>2, <2>3, BlockPlace DEF Ready
  <2>7. /\ dev'.job.op = "Write" /\ dev'.job.first = total
        /\ dev'.job.address = start + total /\ dev'.job.length = NextChunk
    BY <2>2, <2>5, <2>6 DEF WriteJob
  <2> HIDE DEF j
  <2>8. Pending(dev.job)'
    BY <1>2, <2>1, <2>2, <2>3, <2>4, <2>7 DEF Pending, Written
  <2>9. Writing'
    BY <1>2, <2>2, <2>3, <2>8 DEF Writing, Ready, Jobs
  <2> QED
    BY <2>4, <2>9 DEF Programmed, Heard, Aborted, Done
<1> QED
  BY <1>3, <1>4, <1>5

(* A step of the host alone: what it finds of the device it leaves.        *)
LEMMA ProgrammedControl ==
  ASSUME HostInv, Rested, Programmed, Control, UNCHANGED deviceVars
  PROVE  Programmed'
<1>1. /\ UNCHANGED << dev, flash, plugged, op, start, total >> /\ at = "ret"
      /\ ec \in Int /\ total \in Nat
  BY HostTypes
     DEF deviceVars, Control, ErasePage, AfterErase, SetAddress, AfterAddress, AfterBlock,
         EndBlocks, AfterIdle, AfterManifest, EndUpload, AfterSettle, dfuseVars
<1>2. \A n : Written(n)' <=> Written(n)
  BY <1>1 DEF Written
<1>3. CASE ErasePage \/ EndUpload \/ AfterSettle
  BY <1>3 DEF ErasePage, EndUpload, AfterSettle, Programmed, Aborted, Done
<1>4. CASE SetAddress
  BY <1>1, <1>4
     DEF SetAddress, EnterCommand, Programmed, Aborted, Done, dfuse_cmd_set_address
<1>5. CASE AfterErase \/ AfterAddress \/ AfterBlock \/ AfterIdle
  <2>1. CASE ec < 0
    <3>1. pc' = "done" /\ result' = ec
      BY <1>5, <2>1
         DEF AfterErase, AfterAddress, AfterBlock, AfterIdle, Proceed, Close
    <3> QED
      BY <1>1, <2>1, <3>1 DEF Programmed, Aborted, Done
  <2>2. CASE ~ (ec < 0)
    <3>1. Good
      BY <1>1, <2>2 DEF Good
    <3>2. CASE AfterErase
      BY <2>2, <3>2 DEF AfterErase, Proceed, Programmed, Aborted, Done
    <3>3. CASE AfterAddress
      <4>1. pc = "addressed" /\ total = 0 /\ (plugged => Jammed \/ Ready)
        <5>1. pc = "addressed" /\ total = 0
          BY <3>3 DEF AfterAddress, HostInv, Numbered
        <5>2. plugged => Addressing /\ Heard
          BY <1>1, <3>1, <5>1 DEF Programmed
        <5> QED
          BY <1>1, <2>2, <5>1, <5>2 DEF Addressing, Heard, Jammed, Jobs
      <4>2. plugged => Between
        BY <4>1 DEF Between, Written
      <4>3. /\ pc' \in { "block", "abort" }
        BY <2>2, <3>3 DEF AfterAddress, Proceed
      <4> QED
        BY <1>1, <1>2, <4>1, <4>2, <4>3
           DEF Programmed, Between, Jammed, Ready, Aborted, Done
    <3>4. CASE AfterBlock
      <4>1. plugged => Writing /\ Heard
        BY <3>1, <1>1, <3>4 DEF AfterBlock, Programmed
      <4>2. plugged => Between
        BY <1>1, <2>2, <4>1 DEF Writing, Heard, Between, Jammed, Jobs
      <4>3. pc' = "block"
        BY <2>2, <3>4 DEF AfterBlock, Proceed
      <4> QED
        BY <1>1, <1>2, <4>2, <4>3 DEF Programmed, Between, Jammed, Ready, Aborted, Done
    <3>5. CASE AfterIdle
      <4>1. pc = "idled" /\ pc' = "terminate"
        BY <2>2, <3>5 DEF AfterIdle, Proceed
      <4>2. Written(total)
        BY <1>1, <3>1, <4>1 DEF Programmed, Aborted
      <4> QED
        BY <1>1, <1>2, <4>1, <4>2 DEF Programmed, Done
    <3> QED
      BY <1>5, <3>2, <3>3, <3>4, <3>5
  <2> QED
    BY <2>1, <2>2
<1>6. CASE EndBlocks
  <2>1. pc = "block" /\ op = "download_dfuse" /\ pc' = "idled" /\ at' = "abort"
    BY <1>6 DEF EndBlocks, Enter
  <2> QED
    BY <1>1, <1>2, <2>1 DEF Programmed, Between, Jammed, Ready, Aborted, Done
<1>7. CASE AfterManifest
  <2>1. Calm /\ Written(total) /\ pc' = "done"
    BY <1>7 DEF AfterManifest, Close, Rested, Programmed, Aborted
  <2>2. result' = IF ec < 0 THEN ec ELSE total
    BY <1>7 DEF AfterManifest, Close
  <2>3. result' >= 0 => result' = total
    BY <1>1, <2>2
  <2> QED
    BY <1>1, <1>2, <2>1, <2>3 DEF Programmed, Calm, Aborted, Done
<1> QED
  BY <1>3, <1>4, <1>5, <1>6, <1>7 DEF Control

LEMMA ProgrammedWakeUp ==
  ASSUME HostInv, Programmed, WakeUp \/ WakeUpCommand, at' # "command", at' # "abort",
         UNCHANGED << loadVars, dfuseVars, deviceVars >>
  PROVE  Programmed'
<1>1. /\ UNCHANGED << dev, flash, plugged, op, pc, result, start, total >> /\ at = "sleep"
      /\ ec \in Int
  BY HostTypes DEF deviceVars, loadVars, dfuseVars, WakeUp, WakeUpCommand
<1>2. \A n : Written(n)' <=> Written(n)
  BY <1>1 DEF Written
<1>3. Heard => Heard'
  BY <1>1, HeardAfterSleep
<1>4. Good /\ pc \notin { "idled", "abort", "block", "done", "terminate" }
  BY <1>1 DEF Good, HostInv, CalleeAt, Calling
<1>5. Addressing' <=> Addressing
  BY <1>1 DEF Addressing, Ready
<1>6. Writing' <=> Writing
  BY <1>1, <1>2 DEF Writing, Ready, Pending
<1> QED
  BY <1>1, <1>2, <1>3, <1>4, <1>5, <1>6 DEF Programmed, Aborted, Done

LEMMA ProgrammedFinish ==
  ASSUME HostInv, Rested, Programmed, Finish
  PROVE  Programmed'
<1>1. ASSUME NEW r, AbortCommand(r) \/ Release(r)
      PROVE  Programmed'
  <2>1. op' = "upload_dfuse" /\ pc' \in { "done", "block" }
    BY <1>1 DEF AbortCommand, Release, Proceed, Close, HostInv, LoadInv, Places
  <2> QED
    BY <2>1 DEF Programmed, Aborted, Done
<1>2. ASSUME NEW r, Terminate(r), Dnload(0, NoJob, r)
      PROVE  Programmed'
  <2>1. /\ pc = "terminate" /\ pc' = "manifested"
        /\ UNCHANGED << start, total, flash >>
    BY <1>2, DnloadEffect DEF Terminate, dfuseVars, Rested, Sane, Spared
  <2>2. Written(total)'
    BY <2>1 DEF Programmed, Aborted, Written
  <2> QED
    BY <2>1, <2>2 DEF Programmed, Done
<1> QED
  BY <1>1, <1>2 DEF Finish

LEMMA ProgrammedCrash ==
  ASSUME Rested, Programmed, CrashStep
  PROVE  Programmed'
<1>1. /\ ~ plugged' /\ (Calm => flash' = flash) /\ Fields /\ dev'.state = "Idle"
  BY DEF CrashStep, Crash, Calm, Jobs, Rested, Sane, Fields
<1>2. /\ UNCHANGED << pc, op, at, ec, command, result, start, total >>
  BY DEF CrashStep, vars, commandVars, waitVars, loadVars, dfuseVars
<1>3. ASSUME NEW n, Calm, Written(n) PROVE Written(n)'
  BY <1>1, <1>2, <1>3 DEF Written
<1>4. Aborted' => Written(total)'
  BY <1>2, <1>3 DEF Rested, Programmed, Aborted, Good
<1>5. Done("download_dfuse")' => Calm' /\ Written(result)'
  BY <1>1, <1>2, <1>3 DEF Programmed, Done, Calm, Jobs
<1> QED
  BY <1>1, <1>2, <1>4, <1>5 DEF Programmed, dfuse_cmd_set_address

LEMMA ProgrammedKept ==
  ASSUME HostInv, Rested, Whole, BlocksSuffice, Programmed, [SystemNext]_systemVars
  PROVE  Programmed'
<1>1. CASE SystemCall
  BY <1>1 DEF SystemCall, Call, Start, Programmed, Aborted, Done
<1>2. CASE Compute
  <2>1. CASE (WakeUp \/ WakeUpCommand) /\ UNCHANGED << loadVars, dfuseVars, deviceVars >>
    <3>1. at' # "command" /\ at' # "abort"
      BY <2>1 DEF WakeUp, WakeUpCommand, NextIteration, CommandLoop, Return
    <3> QED
      BY <2>1, <3>1, ProgrammedWakeUp
  <2> QED
    BY <1>2, <2>1, ProgrammedControl DEF Compute
<1>3. CASE FetchBlock
  <2>1. /\ op' = "upload_dfuse" /\ pc' \in { "done", "block", "settled" }
    BY <1>3 DEF FetchBlock, ReadBlock, Close
  <2> QED
    BY <2>1 DEF Programmed, Aborted, Done
<1>4. CASE UNCHANGED systemVars
  <2>1. UNCHANGED << pc, op, at, ec, command, result, start, total, dev, flash, plugged >>
    BY <1>4 DEF systemVars, vars, commandVars, waitVars, loadVars, dfuseVars, deviceVars
  <2> QED
    BY <2>1
       DEF Programmed, Addressing, Writing, Between, Jammed, Ready, Heard, Pending, Written,
           Aborted, Good, Done, Calm, dfuse_cmd_set_address
<1> QED
  BY <1>1, <1>2, <1>3, <1>4, ProgrammedOpen, ProgrammedStatus, ProgrammedCommand,
     ProgrammedRecover, ProgrammedSend, ProgrammedFinish, ProgrammedCrash
     DEF SystemNext, HostStep

-----------------------------------------------------------------------------
(***************************************************************************)
(* An upload.  Behind the address command the pointer stays at the start   *)
(* address, so that each block read continues the one before.              *)
(***************************************************************************)
Fetched ==
  /\ pc = "block" /\ op = "upload_dfuse" /\ plugged => dev.pointer = start
  /\ op = "upload_dfuse" /\ Running => fetched = Offsets(start, total)
  /\ SuccessIsFetched

LEMMA ReadOffsets == \A n : [k \in 1 .. n |-> start + k - 1] = Offsets(start, n)
BY DEF Offsets

LEMMA FetchedInit == SystemInit => Fetched
BY DEF SystemInit, Init, LoadInit, Fetched, SuccessIsFetched, Done

(* A step that reads nothing, and does not get to the block loop.          *)
LEMMA FetchedElsewhere ==
  ASSUME Fetched, UNCHANGED << op, start, total, fetched >>,
         pc' = "block" /\ op = "upload_dfuse" => ~ plugged',
         pc' \notin { "idle", "done" } => Running,
         pc' = "done" /\ op = "upload_dfuse" /\ result' >= 0 =>
           \/ Running /\ result' = total
           \/ pc = pc' /\ result' = result
  PROVE  Fetched'
<1>1. op = "upload_dfuse" /\ Running' => fetched' = Offsets(start, total)'
  BY DEF Fetched, Running, Offsets
<1>2. SuccessIsFetched'
  <2> SUFFICES ASSUME Done("upload_dfuse")'
               PROVE  fetched' = [k \in 1 .. result' |-> start + k - 1]
    BY DEF SuccessIsFetched
  <2>1. CASE Running /\ result' = total
    BY <2>1, ReadOffsets DEF Done, Fetched
  <2>2. CASE pc = pc' /\ result' = result
    BY <2>2 DEF Done, Fetched, SuccessIsFetched
  <2> QED
    BY <2>1, <2>2 DEF Done
<1> QED
  BY <1>1, <1>2 DEF Fetched

LEMMA FetchedRead ==
  ASSUME HostInv, Rested, Whole, BlocksSuffice, Fetched, FetchBlock
  PROVE  Fetched'
<1>1. PICK r \in TransferReplies(ReadLength) : ReadBlock(r) /\ Upload(count, ReadLength, r)
  BY DEF FetchBlock
<1>2. /\ pc = "block" /\ op = "upload_dfuse" /\ total < expected
      /\ UNCHANGED << op, start >> /\ start \in Nat /\ total \in Nat
  BY <1>1, HostTypes DEF ReadBlock, dfuseVars
<1>3. r \in Int /\ Fields
  BY <1>1, ReadReplyInt DEF HostInv, Rested, Sane
<1>4. CASE r < 0
  <2>1. pc' = "done" /\ result' = r
    BY <1>1, <1>3, <1>4 DEF ReadBlock, Close
  <2> QED
    BY <1>3, <1>4, <2>1 DEF Fetched, SuccessIsFetched, Done, Running
<1>5. CASE r >= 0
  <2>1. /\ pc' \in { "block", "settled" } /\ total' = total + r
    BY <1>1, <1>3, <1>5 DEF ReadBlock, Move
  <2>2. /\ Spared /\ plugged
        /\ fetched' = fetched \o [k \in 1 .. r |-> BlockAddress(count) + k - 1]
    <3>1. Spared /\ (r >= 0 => fetched' = fetched
                        \o [k \in 1 .. r |-> BlockAddress(count) + k - 1])
      BY <1>1, <1>3, UploadEffect
    <3>2. plugged
      BY <1>1, <1>3, <1>5, UploadEffect DEF Lost, Stalled
    <3> QED
      BY <1>5, <3>1, <3>2
  <2>3. dev.pointer = start /\ fetched = Offsets(start, total)
    BY <1>2, <2>2 DEF Fetched, Running
  <2>4. BlockAddress(count) = start + total
    BY <1>2, <2>3, BlockPlace
  <2>5. fetched' = Offsets(start, total) \o Offsets(start + total, r)
    <3>1. fetched' = fetched \o Offsets(BlockAddress(count), r)
      BY <2>2 DEF Offsets
    <3> QED
      BY <2>3, <2>4, <3>1
  <2>6. fetched' = Offsets(start, total + r)
    <3>1. r \in Nat
      BY <1>3, <1>5
    <3>2. Offsets(start, total) \o Offsets(start + total, r) = Offsets(start, total + r)
      BY <1>2, <3>1, OffsetsFollow, Zenon
    <3> QED
      BY <2>5, <3>2
  <2>7. fetched' = Offsets(start, total)'
    BY <1>2, <2>1, <2>6 DEF Offsets
  <2> QED
    BY <1>2, <2>1, <2>2, <2>3, <2>7 DEF Spared, Fetched, SuccessIsFetched, Done
<1> QED
  BY <1>3, <1>4, <1>5

LEMMA FetchedFinish ==
  ASSUME HostInv, Rested, Programmed, Fetched, Finish
  PROVE  Fetched'
<1>1. UNCHANGED << op, start, total >>
  BY DEF Finish, AbortCommand, Release, Terminate, dfuseVars
<1>2. ASSUME NEW r \in CodeReplies, AbortCommand(r), AbortRequest(r)
      PROVE  Fetched'
  <2>1. r \in Int /\ Fields /\ fetched' = fetched /\ pc = "abort" /\ op = "upload_dfuse"
    BY <1>2, CodeReplyInt, AbortEffect
       DEF Rested, Sane, AbortCommand, HostInv, LoadInv, Places
  <2>2. CASE r < 0
    <3>1. pc' = "done" /\ result' = r
      BY <1>2, <2>2 DEF AbortCommand, Proceed, Close
    <3> QED
      BY <1>1, <2>1, <2>2, <3>1, FetchedElsewhere
  <2>3. CASE ~ (r < 0)
    <3>1. pc' = "block"
      BY <1>2, <2>3 DEF AbortCommand, Proceed
    <3>2. plugged /\ dev.state \notin { "DownloadBusy", "Error" } /\ dev'.pointer = dev.pointer
      BY <1>2, <2>1, <2>3, AbortEffect DEF Lost, Stalled, Spared
    <3>3. dev'.pointer = start
      BY <2>1, <3>2 DEF Programmed, Jammed, Ready
    <3>4. fetched' = Offsets(start, total)'
      BY <1>1, <2>1 DEF Fetched, Running, Offsets
    <3> QED
      BY <1>1, <3>1, <3>3, <3>4 DEF Fetched, SuccessIsFetched, Done
  <2> QED
    BY <2>2, <2>3
<1>3. ASSUME NEW r \in CodeReplies, Release(r), AbortRequest(r)
      PROVE  Fetched'
  <2>1. /\ r \in Int /\ fetched' = fetched /\ pc = "release" /\ pc' = "done"
        /\ result' = IF r < 0 THEN r ELSE total
    BY <1>3, CodeReplyInt, AbortEffect DEF Rested, Sane, Release, Close
  <2>2. result' >= 0 => result' = total
    BY <2>1
  <2> QED
    BY <1>1, <2>1, <2>2, FetchedElsewhere DEF Running
<1>4. ASSUME NEW r, Terminate(r)
      PROVE  Fetched'
  <2>1. op' = "download_dfuse"
    BY <1>4 DEF Terminate, HostInv, LoadInv, Places
  <2> QED
    BY <2>1 DEF Fetched, SuccessIsFetched, Done
<1> QED
  BY <1>2, <1>3, <1>4 DEF Finish

LEMMA FetchedControl ==
  ASSUME HostInv, Fetched, Control, UNCHANGED deviceVars
  PROVE  Fetched'
<1>1. UNCHANGED << op, start, total, fetched >> /\ ec \in Int /\ Running
  BY HostTypes
     DEF deviceVars, Control, ErasePage, AfterErase, SetAddress, AfterAddress, AfterBlock,
         EndBlocks, AfterIdle, AfterManifest, EndUpload, AfterSettle, dfuseVars, Running
<1>2. CASE ErasePage \/ AfterErase \/ SetAddress \/ AfterBlock \/ EndBlocks \/ AfterIdle
           \/ AfterManifest
  <2>1. op' = "download_dfuse"
    BY <1>1, <1>2
       DEF ErasePage, AfterErase, SetAddress, AfterBlock, EndBlocks, AfterIdle,
           AfterManifest, HostInv, LoadInv, Places
  <2> QED
    BY <2>1 DEF Fetched, SuccessIsFetched, Done
<1>3. CASE AfterAddress
  <2>1. \/ ec < 0 /\ pc' = "done" /\ result' = ec
        \/ pc' = IF op = "download_dfuse" THEN "block" ELSE "abort"
    BY <1>3 DEF AfterAddress, Proceed, Close
  <2> QED
    BY <1>1, <2>1, FetchedElsewhere
<1>4. CASE EndUpload \/ AfterSettle
  <2>1. pc' \in { "settled", "release" }
    BY <1>4 DEF EndUpload, AfterSettle
  <2> QED
    BY <1>1, <2>1, FetchedElsewhere
<1> QED
  BY <1>2, <1>3, <1>4 DEF Control

LEMMA FetchedKept ==
  ASSUME HostInv, Rested, Whole, BlocksSuffice, Programmed, Fetched,
         [SystemNext]_systemVars
  PROVE  Fetched'
<1>1. CASE SystemCall
  <2>1. fetched' = << >> /\ total' = 0 /\ pc' = "open"
    BY <1>1 DEF SystemCall, Call, Start
  <2>2. fetched' = Offsets(start, total)'
    BY <2>1 DEF Offsets
  <2> QED
    BY <2>1, <2>2 DEF Fetched, SuccessIsFetched, Done
<1>2. CASE OpenDevice
  <2>1. /\ UNCHANGED << op, start, total, fetched >> /\ Running
        /\ pc' \in { "done", "erase", "addressed" }
        /\ pc' = "done" => result' \in Int /\ result' < 0
    BY <1>2, CodeReplyInt
       DEF OpenDevice, OpenDownload, OpenUpload, Quit, Close, dfuseVars, Running,
           BootIoError_Other, BootIoError_Configuration_DescriptorString
  <2> QED
    BY <2>1, FetchedElsewhere
<1>3. CASE AskStatus \/ GiveCommand \/ Recover
  <2>1. UNCHANGED << loadVars, dfuseVars >> /\ at # "ret"
    BY <1>3
       DEF AskStatus, GiveCommand, SendCommand, Recover, Abort, ClearStatus
  <2>2. fetched' = fetched
    <3>1. CASE AskStatus
      BY <3>1, StatusEffect DEF AskStatus
    <3>2. CASE GiveCommand
      BY <3>2, DnloadEffect DEF GiveCommand, Rested, Sane
    <3>3. CASE Recover
      BY <3>3, AbortEffect, ClearEffect DEF Recover, Rested, Sane
    <3> QED
      BY <1>3, <3>1, <3>2, <3>3
  <2>3. pc # "block"
    BY <2>1 DEF HostInv, CalleeAt, Calling
  <2> QED
    BY <2>1, <2>2, <2>3, FetchedElsewhere DEF loadVars, dfuseVars, Running
<1>4. CASE GiveBlock
  <2>1. op' = "download_dfuse"
    BY <1>4 DEF GiveBlock, SendBlock
  <2> QED
    BY <2>1 DEF Fetched, SuccessIsFetched, Done
<1>5. CASE Compute
  <2>1. CASE (WakeUp \/ WakeUpCommand) /\ UNCHANGED << loadVars, dfuseVars, deviceVars >>
    BY <2>1
       DEF loadVars, dfuseVars, deviceVars, Fetched, SuccessIsFetched, Done, Running, Offsets
  <2> QED
    BY <1>5, <2>1, FetchedControl DEF Compute
<1>6. CASE CrashStep
  BY <1>6
     DEF CrashStep, Crash, vars, loadVars, dfuseVars, Fetched, SuccessIsFetched, Done,
         Running, Offsets
<1>7. CASE UNCHANGED systemVars
  BY <1>7
     DEF systemVars, vars, loadVars, dfuseVars, deviceVars, Fetched, SuccessIsFetched, Done,
         Running, Offsets
<1> QED
  BY <1>1, <1>2, <1>3, <1>4, <1>5, <1>6, <1>7, FetchedRead, FetchedFinish
     DEF SystemNext, HostStep

-----------------------------------------------------------------------------
(* What holds of the composition without a word on sizes and chunks.       *)
SystemInv == HostInv /\ Rested /\ Whole

THEOREM SystemInvariance == SystemSpec => []SystemInv
<1>1. SystemInit => Rested /\ Whole
  BY RestedInit, WholeInit
<1>2. HostInv /\ Rested /\ Whole /\ [SystemNext]_systemVars => Rested' /\ Whole'
  BY RestedKept, WholeKept
<1>3. SystemInv <=> HostInv /\ Rested /\ Whole
  BY DEF SystemInv
<1> QED
  BY <1>1, <1>2, <1>3, HostInvariance, PTL DEF SystemSpec

(* A download that returns a count has put the image where it belongs, and *)
(* an upload has read it from there, through lost requests, lost answers,  *)
(* slow and failed jobs, crashes, and whatever earlier calls left behind.  *)
(* The caller must ask for blocks of the transfer size, or the device      *)
(* takes their numbers for other addresses, and the size must need no more *)
(* of them than a 16-bit number counts: beyond, the numbers start over,    *)
(* and with them the addresses.                                            *)
THEOREM TransferInvariance ==
  ASSUME BlocksSuffice
  PROVE  SystemSpec => [](Programmed /\ Fetched)
<1>1. SystemInit => Programmed /\ Fetched
  BY ProgrammedInit, FetchedInit
<1>2. SystemInv /\ Programmed /\ Fetched /\ [SystemNext]_systemVars
        => Programmed' /\ Fetched'
  BY ProgrammedKept, FetchedKept, BlocksSuffice DEF SystemInv
<1> QED
  BY <1>1, <1>2, SystemInvariance, PTL DEF SystemSpec

(* The image is in the memory, byte by byte, when download_dfuse says so.  *)
THEOREM DownloadProgrammed ==
  ASSUME BlocksSuffice
  PROVE  SystemSpec => []SuccessIsProgrammed
<1>1. Programmed => SuccessIsProgrammed
  BY DEF Programmed, SuccessIsProgrammed, Written
<1> QED
  BY <1>1, TransferInvariance, BlocksSuffice, PTL

(* The buffer holds the addresses behind the start, in order, when         *)
(* upload_dfuse says so.                                                   *)
THEOREM UploadFetched ==
  ASSUME BlocksSuffice
  PROVE  SystemSpec => []SuccessIsFetched
<1>1. Fetched => SuccessIsFetched
  BY DEF Fetched
<1> QED
  BY <1>1, TransferInvariance, BlocksSuffice, PTL

-----------------------------------------------------------------------------
(***************************************************************************)
(* A prompt device.  The first poll behind a command or a block starts the *)
(* job, the second ends it: with at least two polls the host is done with  *)
(* its polls when the device is done with its job, and each request finds  *)
(* the device in a state to take it.                                       *)
(***************************************************************************)
Healthy == dev.state # "Error" /\ dev.status = "Ok" /\ dev.busy = 0 /\ plugged

Working ==
  \/ dev.state = "DownloadSync" /\ at = "poll" /\ i = 0
  \/ dev.state = "DownloadBusy" /\ at = "sleep" /\ i = 0 /\ status.state # "DownloadIdle"
  \/ dev.state = "DownloadBusy" /\ at = "poll" /\ i = 1
  \/ dev.state = "DownloadIdle"

InStep ==
  /\ pc = "open" => dev.state = "Idle"
  /\ pc = "erase" => dev.state \in { "Idle", "DownloadIdle" }
  /\ pc \in { "erased", "addressed" } /\ at = "command" =>
       i = 0 /\ dev.state \in { "Idle", "DownloadIdle" }
  /\ pc \in { "erased", "addressed" } /\ at # "command" => Working
  /\ pc = "abort" => dev.state = "DownloadIdle"
  /\ pc = "block" /\ op = "download_dfuse" => dev.state = "DownloadIdle"
  /\ pc = "waited" => Working
  /\ pc = "idled" /\ at = "abort" => dev.state = "DownloadIdle"
  /\ pc = "idled" /\ at # "abort" => dev.state = "Idle"
  /\ pc = "terminate" => dev.state = "Idle"
  /\ pc = "manifested" =>
       /\ at # "clear"
       /\ dev.state \in { "ManifestSync", "Manifest", "ManifestWaitReset", "Idle" }
  /\ (pc = "block" /\ op = "upload_dfuse") \/ pc \in { "settled", "release" } =>
       dev.state \in { "Idle", "UploadIdle" }

Prompt == prompt => Healthy /\ InStep

(* What the host must be: it reads what was stored, polls twice, and sends *)
(* blocks the device takes.                                                *)
PollsSuffice ==
  /\ ConstBuffer = "stored" /\ timeout_number >= 2
  /\ ChunkSizes \subseteq 1 .. TransferSize

LEMMA PromptInit == SystemInit => Prompt
<1> SUFFICES ASSUME SystemInit PROVE Prompt
  OBVIOUS
<1>1. /\ dev = [state |-> "Idle", status |-> "Ok", pointer |-> 0, job |-> NoJob, busy |-> 0]
      /\ plugged
  BY DEF SystemInit, DeviceInit
<1>2. pc = "idle"
  BY DEF SystemInit, Init, LoadInit
<1> QED
  BY <1>1, <1>2 DEF Prompt, Healthy, InStep

LEMMA Budget ==
  ASSUME PollsSuffice
  PROVE  /\ timeout_number \in Nat /\ 1 < timeout_number
         /\ max_wait_count \in Nat /\ 1 < max_wait_count
BY CommandAssumption, WaitAssumption DEF PollsSuffice

(* What the host learns of a prompt device is how the device is.           *)
LEMMA ReadingTrue ==
  ASSUME PollsSuffice, NEW r, r = Reading
  PROVE  r.n = 6 /\ StatusCode(r) = 0 /\ Decode(r).state = dev'.state
BY DEF PollsSuffice, Reading, StatusCode, Decode, BootIoError_Success

(* Where a GETSTATUS leaves a prompt device.                               *)
LEMMA PromptProgress ==
  ASSUME Fields, Healthy, Progresses, dev'.busy = 0, dev'.status = "Ok", plugged' = plugged
  PROVE  /\ Healthy'
         /\ dev.state = "DownloadSync" => dev'.state = "DownloadBusy"
         /\ dev.state = "DownloadBusy" => dev'.state = "DownloadIdle"
         /\ dev.state = "ManifestSync" => dev'.state = "Manifest"
         /\ dev.state = "Manifest" => dev'.state \in { "Idle", "ManifestWaitReset" }
         /\ dev.state \notin { "DownloadSync", "DownloadBusy", "ManifestSync", "Manifest" }
              => dev'.state = dev.state
<1>1. ~ FailJob
  BY DEF Fields, FailJob
<1>2. ~ StayBusy
  BY DEF Healthy, StayBusy
<1> QED
  BY <1>1, <1>2
     DEF Fields, Healthy, Progresses, StartJob, EndJob, Manifest, Rest

LEMMA WorkingPoll ==
  ASSUME PollsSuffice, Fields, Healthy, Working, at = "poll",
         fn \in { "send_command", "wait_for_download_idle" },
         Progresses, dev'.busy = 0, dev'.status = "Ok", plugged' = plugged,
         NEW r, r = Reading, Polls(r)
  PROVE  Working'
<1>1. dev'.state \in { "DownloadBusy", "DownloadIdle" }
  BY PromptProgress DEF Working
<1>2. CASE dev'.state = "DownloadIdle"
  BY <1>2 DEF Working
<1>3. CASE dev'.state = "DownloadBusy"
  <2>1. i = 0
    BY <1>3, PromptProgress DEF Working
  <2>2. status'.state = "DownloadBusy" /\ at' = "sleep" /\ i' = i
    <3>1. CASE fn = "send_command"
      BY <1>3, <3>1, ReadingTrue
         DEF Polls, PollCommand, PollDownloadIdle, PollManifest, PollDfuIdle
    <3>2. CASE fn = "wait_for_download_idle"
      BY <1>3, <3>2, ReadingTrue
         DEF Polls, PollCommand, PollDownloadIdle, PollManifest, PollDfuIdle, GetStatus,
             Sleep, BootIoError_Transfer_Pipe
    <3> QED
      BY <3>1, <3>2
  <2> QED
    BY <1>3, <2>1, <2>2 DEF Working
<1> QED
  BY <1>1, <1>2, <1>3

LEMMA WorkingSleep ==
  ASSUME PollsSuffice, Working, dev' = dev,
         \/ fn = "send_command" /\ WakeUpCommand
         \/ fn = "wait_for_download_idle" /\ WakeUp
  PROVE  Working'
<1>1. CASE dev.state = "DownloadIdle"
  BY <1>1 DEF Working
<1>2. CASE dev.state = "DownloadBusy" /\ i = 0 /\ status.state # "DownloadIdle"
  <2>1. at' = "poll" /\ i' = 1
    <3>1. CASE WakeUpCommand
      BY <1>2, <3>1, Budget DEF WakeUpCommand, CommandLoop
    <3>2. CASE WakeUp /\ fn = "wait_for_download_idle"
      BY <1>2, <3>2, Budget DEF WakeUp, NextIteration, Target, Waits
    <3> QED
      BY <3>1, <3>2
  <2> QED
    BY <1>2, <2>1 DEF Working
<1> QED
  BY <1>1, <1>2 DEF Working, WakeUp, WakeUpCommand

LEMMA PromptCall ==
  ASSUME Rested, SystemCall
  PROVE  Prompt'
<1>1. prompt' => dev.state = "Idle"
  BY Zenon DEF SystemCall
<1>2. plugged' = TRUE /\ dev' = dev /\ pc' = "open"
  BY DEF SystemCall, Call, Start
<1> QED
  BY <1>1, <1>2 DEF Prompt, Healthy, InStep, Rested, Sane

LEMMA PromptOpen ==
  ASSUME Prompt, OpenDevice
  PROVE  Prompt'
<1>1. PICK r : OpenDownload(r) \/ OpenUpload(r)
  BY DEF OpenDevice
<1>2. prompt' => prompt
  BY Zenon DEF OpenDevice
<1>3. pc = "open" /\ UNCHANGED << dev, plugged >>
  BY DEF OpenDevice, OpenDownload, OpenUpload
<1>4. \/ pc' \in { "done", "erase" }
      \/ pc' = "addressed" /\ at' = "command" /\ i' = 0
  BY <1>1 DEF OpenDownload, OpenUpload, Quit, Close, EnterCommand
<1> QED
  BY <1>2, <1>3, <1>4 DEF Prompt, Healthy, InStep

LEMMA PromptStatus ==
  ASSUME PollsSuffice, HostInv, Rested, Prompt, AskStatus
  PROVE  Prompt'
<1> SUFFICES ASSUME prompt' PROVE Healthy' /\ InStep'
  BY DEF Prompt
<1>1. PICK r \in transfer_status : StatusRequest(tolerant, r) /\ Polls(r)
  BY DEF AskStatus
<1>2. at = "poll" /\ pc' = pc /\ op' = op /\ pc \in Calling
  BY DEF AskStatus, loadVars, HostInv, CalleeAt
<1>3. /\ Fields /\ Healthy /\ InStep /\ Progresses /\ plugged' = plugged
      /\ r = Reading /\ dev'.busy = 0 /\ dev'.status = "Ok"
  BY <1>1, StatusEffect DEF Rested, Sane, Prompt
<1>4. at' \notin { "command", "abort" }
  BY <1>1
     DEF Polls, PollCommand, CommandLoop, PollDownloadIdle, PollManifest, PollDfuIdle,
         NextIteration, Return, Sleep
<1>5. Healthy'
  BY <1>3, PromptProgress
<1>6. CASE pc \in { "erased", "addressed", "waited" }
  <2>1. Working /\ fn \in { "send_command", "wait_for_download_idle" }
    BY <1>2, <1>3, <1>6 DEF InStep, HostInv, CalleeAt
  <2>2. Working'
    BY <1>1, <1>2, <1>3, <2>1, WorkingPoll
  <2> QED
    BY <1>2, <1>4, <1>5, <1>6, <2>2 DEF InStep
<1>7. CASE pc \in { "idled", "settled" }
  BY <1>2, <1>3, <1>4, <1>5, <1>7, PromptProgress DEF InStep
<1>8. CASE pc = "manifested"
  <2>1. dev'.state \in { "ManifestSync", "Manifest", "ManifestWaitReset", "Idle" }
    BY <1>2, <1>3, <1>8, PromptProgress DEF InStep
  <2>2. fn = "wait_for_manifest"
    BY <1>8 DEF HostInv, CalleeAt
  <2>3. status' = Decode(r) /\ Decode(r).state # "Error" /\ StatusCode(r) = 0
    BY <1>1, <1>3, <2>1, <2>2, ReadingTrue
       DEF Polls, PollCommand, PollDownloadIdle, PollManifest, PollDfuIdle, GetStatus
  <2>4. at' # "clear"
    BY <1>1, <2>2, <2>3
       DEF Polls, PollCommand, PollDownloadIdle, PollManifest, PollDfuIdle, Sleep, Return
  <2> QED
    BY <1>2, <1>5, <1>8, <2>1, <2>4 DEF InStep
<1> QED
  BY <1>2, <1>6, <1>7, <1>8 DEF Calling

LEMMA PromptCommand ==
  ASSUME HostInv, Rested, Prompt, GiveCommand
  PROVE  Prompt'
<1> SUFFICES ASSUME prompt' PROVE Healthy' /\ InStep'
  BY DEF Prompt
<1> DEFINE length == CommandLength(command)
<1>1. PICK r \in TransferReplies(length) :
        SendCommand(r) /\ Dnload(length, CommandJob(command), r)
  BY DEF GiveCommand
<1>2. /\ at = "command" /\ pc' = pc /\ i' = i /\ pc \in { "erased", "addressed" }
  BY <1>1 DEF GiveCommand, SendCommand, loadVars, HostInv, CalleeAt, Calling
<1>3. length \in Nat /\ length # 0 /\ ~ (length < 0)
  BY DEF CommandLength
<1>4. Spared /\ Healthy /\ i = 0 /\ dev.state \in { "Idle", "DownloadIdle" }
  BY <1>1, <1>2, DnloadEffect DEF Rested, Sane, Spared, Prompt, InStep
<1>5. r = length /\ dev'.state = "DownloadSync" /\ dev'.status = dev.status
  <2>1. ~ (CommandJob(command).length > TransferSize)
    BY DeviceAssumption DEF CommandJob
  <2> QED
    BY <1>1, <1>3, <1>4, <2>1, DnloadEffect DEF Rested, Sane, Lost
<1>6. at' = "poll"
  BY <1>1, <1>3, <1>5 DEF SendCommand
<1> QED
  BY <1>2, <1>4, <1>5, <1>6 DEF Spared, Healthy, InStep, Working

LEMMA PromptRecover ==
  ASSUME HostInv, Rested, Prompt, Recover
  PROVE  Prompt'
<1> SUFFICES ASSUME prompt' PROVE Healthy' /\ InStep'
  BY DEF Prompt
<1>1. PICK r \in CodeReplies :
        \/ Abort(r) /\ AbortRequest(r)
        \/ ClearStatus(r) /\ ClearStatusRequest(r)
  BY DEF Recover
<1>2. Spared /\ Healthy /\ InStep /\ pc' = pc
  BY <1>1, AbortEffect, ClearEffect DEF Recover, loadVars, Rested, Sane, Spared, Prompt
<1>3. CASE Abort(r) /\ AbortRequest(r)
  <2>1. pc = "idled" /\ at = "abort" /\ at' \in { "ret", "poll" }
    BY <1>3 DEF Abort, Return, HostInv, CalleeAt, Calling
  <2>2. dev'.state = "Idle" /\ dev'.status = dev.status
    BY <1>2, <1>3, <2>1, AbortEffect DEF Rested, Sane, InStep, Lost
  <2> QED
    BY <1>2, <2>1, <2>2 DEF Spared, Healthy, InStep
<1>4. CASE ClearStatus(r)
  BY <1>2, <1>4 DEF ClearStatus, InStep, HostInv, CalleeAt, Calling
<1> QED
  BY <1>1, <1>3, <1>4

LEMMA PromptSend ==
  ASSUME PollsSuffice, HostInv, Rested, Whole, Prompt, GiveBlock
  PROVE  Prompt'
<1> SUFFICES ASSUME prompt' PROVE Healthy' /\ InStep'
  BY DEF Prompt
<1>1. PICK r \in TransferReplies(SendLength) :
        SendBlock(r) /\ Dnload(SendLength, WriteJob(count, head, SendLength), r)
  BY DEF GiveBlock
<1>2. /\ pc = "block" /\ op = "download_dfuse" /\ op' = op /\ total < expected
  BY <1>1 DEF SendBlock
<1>3. /\ SendLength \in Nat /\ SendLength # 0 /\ ~ (SendLength < 0)
      /\ ~ (WriteJob(count, head, SendLength).length > TransferSize)
  <2>1. chunk \in 1 .. TransferSize /\ TransferSize \in Nat
    BY <1>2, Sending, DeviceAssumption DEF PollsSuffice
  <2> QED
    BY <1>2, <2>1, Sending DEF WriteJob
<1>4. Spared /\ Healthy /\ dev.state = "DownloadIdle"
  BY <1>1, <1>2, DnloadEffect DEF Rested, Sane, Spared, Prompt, InStep
<1>5. r = SendLength /\ dev'.state = "DownloadSync" /\ dev'.status = dev.status
  BY <1>1, <1>3, <1>4, DnloadEffect DEF Rested, Sane, Lost
<1>6. pc' = "waited" /\ at' = "poll" /\ i' = 0
  BY <1>1, <1>3, <1>5 DEF SendBlock, Enter
<1> QED
  BY <1>4, <1>5, <1>6 DEF Spared, Healthy, InStep, Working

LEMMA PromptRead ==
  ASSUME PollsSuffice, HostInv, Rested, Whole, Prompt, FetchBlock
  PROVE  Prompt'
<1> SUFFICES ASSUME prompt' PROVE Healthy' /\ InStep'
  BY DEF Prompt
<1>1. PICK r \in TransferReplies(ReadLength) : ReadBlock(r) /\ Upload(count, ReadLength, r)
  BY DEF FetchBlock
<1>2. /\ pc = "block" /\ op = "upload_dfuse" /\ op' = op
      /\ pc' \in { "done", "block", "settled" }
  BY <1>1 DEF ReadBlock, Close
<1>3. r \in Int
  BY <1>1, ReadReplyInt DEF HostInv
<1>4. Spared /\ Healthy /\ dev.state \in { "Idle", "UploadIdle" }
  BY <1>1, <1>2, <1>3, UploadEffect DEF Rested, Sane, Spared, Prompt, InStep
<1>5. dev'.state \in { "Idle", "UploadIdle" } /\ dev'.status = dev.status
  <2>1. chunk \in 1 .. TransferSize /\ TransferSize \in Nat
    <3>1. pc = "block" /\ total < expected
      BY <1>1 DEF ReadBlock
    <3>2. chunk \in ChunkSizes
      BY <3>1 DEF Whole, Running
    <3> QED
      BY <3>2, DeviceAssumption DEF PollsSuffice
  <2>2. ~ (ReadLength > TransferSize)
    BY <2>1, ReadLengthFits DEF HostInv, LoadInv, Counters
  <2> QED
    BY <1>1, <1>3, <1>4, <2>2, UploadEffect DEF Rested, Sane, Lost
<1> QED
  BY <1>2, <1>4, <1>5 DEF Spared, Healthy, InStep

LEMMA PromptFinish ==
  ASSUME HostInv, Rested, Prompt, Finish
  PROVE  Prompt'
<1> SUFFICES ASSUME prompt' PROVE Healthy' /\ InStep'
  BY DEF Prompt
<1>1. ASSUME NEW r \in CodeReplies, AbortCommand(r) \/ Release(r), AbortRequest(r)
      PROVE  Healthy' /\ InStep'
  <2>1. op' = "upload_dfuse" /\ pc' \in { "done", "block" }
    BY <1>1 DEF AbortCommand, Release, Proceed, Close, HostInv, LoadInv, Places
  <2>2. /\ Spared /\ Healthy /\ dev.state \in { "DownloadIdle", "Idle", "UploadIdle" }
    BY <1>1, AbortEffect
       DEF AbortCommand, Release, Rested, Sane, Spared, Prompt, InStep
  <2>3. dev'.state = "Idle" /\ dev'.status = dev.status
    BY <1>1, <2>2, AbortEffect DEF Rested, Sane, Lost
  <2> QED
    BY <2>1, <2>2, <2>3 DEF Spared, Healthy, InStep
<1>2. ASSUME NEW r \in CodeReplies, Terminate(r), Dnload(0, NoJob, r)
      PROVE  Healthy' /\ InStep'
  <2>1. pc = "terminate" /\ pc' = "manifested" /\ at' = "poll"
    BY <1>2 DEF Terminate, Enter
  <2>2. Spared /\ Healthy /\ dev.state = "Idle"
    BY <1>2, <2>1, DnloadEffect DEF Rested, Sane, Spared, Prompt, InStep
  <2>3. dev'.state = "ManifestSync" /\ dev'.status = dev.status
    BY <1>2, <2>2, DnloadEffect, DeviceAssumption DEF Rested, Sane, Lost, NoJob
  <2> QED
    BY <2>1, <2>2, <2>3 DEF Spared, Healthy, InStep
<1> QED
  BY <1>1, <1>2 DEF Finish

LEMMA PromptControl ==
  ASSUME HostInv, Prompt, Control, UNCHANGED deviceVars
  PROVE  Prompt'
<1> SUFFICES ASSUME prompt PROVE Healthy' /\ InStep'
  BY DEF Prompt, deviceVars
<1>1. /\ dev' = dev /\ plugged' = plugged /\ op' = op /\ at = "ret"
      /\ Healthy /\ InStep
  BY DEF deviceVars, Prompt, Control, ErasePage, AfterErase, SetAddress, AfterAddress,
         AfterBlock, EndBlocks, AfterIdle, AfterManifest, EndUpload, AfterSettle
<1>2. Healthy'
  BY <1>1 DEF Healthy
<1>3. CASE ErasePage \/ SetAddress
  <2>1. /\ pc = "erase" /\ pc' \in { "erased", "addressed" } /\ at' = "command" /\ i' = 0
    BY <1>3 DEF ErasePage, SetAddress, EnterCommand
  <2> QED
    BY <1>1, <1>2, <2>1 DEF InStep
<1>4. CASE AfterErase \/ AfterAddress \/ AfterBlock
  <2>1. /\ pc \in { "erased", "addressed", "waited" }
        /\ \/ pc' = "done"
           \/ pc' = "erase"
           \/ pc' = "block" /\ op = "download_dfuse"
           \/ pc' = "abort"
    BY <1>4 DEF AfterErase, AfterAddress, AfterBlock, Proceed, Close
  <2>2. dev.state = "DownloadIdle"
    BY <1>1, <2>1 DEF InStep, Working
  <2> QED
    BY <1>1, <1>2, <2>1, <2>2 DEF InStep
<1>5. CASE EndBlocks
  <2>1. pc = "block" /\ op = "download_dfuse" /\ pc' = "idled" /\ at' = "abort"
    BY <1>5 DEF EndBlocks, Enter
  <2> QED
    BY <1>1, <1>2, <2>1 DEF InStep
<1>6. CASE AfterIdle \/ AfterManifest
  <2>1. pc' = "done" \/ (pc = "idled" /\ pc' = "terminate")
    BY <1>6 DEF AfterIdle, AfterManifest, Proceed, Close
  <2> QED
    BY <1>1, <1>2, <2>1 DEF InStep
<1>7. CASE EndUpload \/ AfterSettle
  <2>1. /\ pc' \in { "settled", "release" }
        /\ (pc = "block" /\ op = "upload_dfuse") \/ pc = "settled"
    BY <1>7 DEF EndUpload, AfterSettle
  <2> QED
    BY <1>1, <1>2, <2>1 DEF InStep
<1> QED
  BY <1>3, <1>4, <1>5, <1>6, <1>7 DEF Control

LEMMA PromptWakeUp ==
  ASSUME PollsSuffice, HostInv, Prompt, WakeUp \/ WakeUpCommand,
         UNCHANGED << loadVars, dfuseVars, deviceVars >>
  PROVE  Prompt'
<1> SUFFICES ASSUME prompt PROVE Healthy' /\ InStep'
  BY DEF Prompt, deviceVars
<1>1. /\ dev' = dev /\ plugged' = plugged /\ op' = op /\ pc' = pc /\ at = "sleep"
      /\ Healthy /\ InStep
  BY DEF deviceVars, loadVars, Prompt, WakeUp, WakeUpCommand
<1>2. Healthy' /\ at' \in { "poll", "ret" }
  BY <1>1
     DEF Healthy, WakeUp, WakeUpCommand, NextIteration, CommandLoop, Return
<1>3. CASE pc \in { "erased", "addressed", "waited" }
  <2>1. Working
    BY <1>1, <1>3 DEF InStep
  <2>2. Working'
    BY <1>1, <1>3, <2>1, WorkingSleep
       DEF HostInv, CalleeAt, WakeUp, WakeUpCommand, Waits
  <2> QED
    BY <1>1, <1>2, <1>3, <2>2 DEF InStep
<1>4. CASE pc \in { "settled", "manifested" }
  BY <1>1, <1>2, <1>4 DEF InStep
<1> QED
  BY <1>1, <1>3, <1>4 DEF HostInv, CalleeAt, Calling

LEMMA PromptKept ==
  ASSUME PollsSuffice, HostInv, Rested, Whole, Prompt, [SystemNext]_systemVars
  PROVE  Prompt'
<1>1. CASE Compute
  BY <1>1, PromptControl, PromptWakeUp DEF Compute
<1>2. CASE CrashStep
  BY <1>2 DEF CrashStep, Crash, Prompt
<1>3. CASE UNCHANGED systemVars
  <2>1. UNCHANGED << pc, op, at, i, status, dev, plugged, prompt >>
    BY <1>3 DEF systemVars, vars, commandVars, waitVars, loadVars, deviceVars
  <2> QED
    BY <2>1 DEF Prompt, Healthy, InStep, Working
<1> QED
  BY <1>1, <1>2, <1>3, PromptCall, PromptOpen, PromptStatus, PromptCommand,
     PromptRecover, PromptSend, PromptRead, PromptFinish DEF SystemNext, HostStep

(* Host and device stay in step from the first request of a call to the    *)
(* last: no request reaches a prompt device that it must stall.            *)
THEOREM PromptInvariance ==
  ASSUME PollsSuffice
  PROVE  SystemSpec => []Prompt
<1>1. SystemInv /\ Prompt /\ [SystemNext]_systemVars => Prompt'
  BY PromptKept, PollsSuffice DEF SystemInv
<1> QED
  BY <1>1, PromptInit, SystemInvariance, PTL DEF SystemSpec

(* A device in dfuIDLE that does its jobs in time never gets to dfuERROR:  *)
(* the program's two polls behind a command and ten in a wait are enough,  *)
(* if no block is empty or longer than the device's transfer size.         *)
THEOREM PromptNeverStalls ==
  ASSUME PollsSuffice
  PROVE  SystemSpec => []PromptDeviceNeverStalls
<1>1. Prompt => PromptDeviceNeverStalls
  BY DEF Prompt, Healthy, PromptDeviceNeverStalls
<1> QED
  BY <1>1, PromptInvariance, PollsSuffice, PTL
-----------------------------------------------------------------------------
(***************************************************************************)
(* A device in dfuERROR.  The one way on to the terminating transfer leads *)
(* through the abort behind the blocks, and a device that grants an abort  *)
(* is in dfuIDLE; the polls that follow find no job that could still fail. *)
(***************************************************************************)
Granted == pc = "idled" /\ at # "abort" /\ Good

AbortClears == Granted /\ plugged => dev.state # "Error"

LEMMA AbortClearsInit == SystemInit => AbortClears
BY DEF SystemInit, Init, LoadInit, AbortClears, Granted

(* Nothing but the abort gets behind the abort.                            *)
LEMMA GrantedStays ==
  ASSUME HostInv, SystemCall \/ OpenDevice \/ Compute, Granted'
  PROVE  Granted /\ dev' = dev /\ plugged' = plugged
<1>1. Aborted'
  BY DEF Granted, Aborted
<1>2. Aborted /\ dev' = dev
  BY <1>1, AbortedStays
<1>3. ~ SystemCall /\ ~ OpenDevice
  BY DEF SystemCall, Call, Start, OpenDevice, OpenDownload, OpenUpload, Quit, Close,
         Granted
<1>4. CASE Control
  BY <1>2, <1>4
     DEF Control, ErasePage, AfterErase, SetAddress, AfterAddress, AfterBlock, EndBlocks,
         AfterIdle, AfterManifest, EndUpload, AfterSettle, Proceed, Close, Enter, Granted,
         Aborted
<1>5. CASE (WakeUpCommand \/ WakeUp) /\ UNCHANGED loadVars
  BY <1>5 DEF HostInv, Calling, WakeUpCommand, WakeUp, CalleeAt, Granted, loadVars
<1> QED
  BY <1>2, <1>3, <1>4, <1>5 DEF Compute, deviceVars

LEMMA AbortClearsKept ==
  ASSUME HostInv, Rested, AbortClears, [SystemNext]_systemVars
  PROVE  AbortClears'
<1> SUFFICES ASSUME Granted', plugged' PROVE dev'.state # "Error"
  BY DEF AbortClears
<1>1. CASE SystemCall \/ OpenDevice \/ Compute
  BY <1>1, GrantedStays DEF AbortClears
<1>2. CASE AskStatus
  <2>1. Granted /\ Calm
    BY <1>2 DEF AskStatus, loadVars, Granted, Good, Rested, Aborted
  <2>2. PICK r : StatusRequest(tolerant, r)
    BY <1>2 DEF AskStatus
  <2>3. plugged /\ (dev' = dev \/ Progresses)
    BY <2>2, StatusEffect
  <2> QED
    BY <2>1, <2>3
       DEF AbortClears, Rested, Sane, Fields, Calm, Jobs, Progresses, StartJob, StayBusy,
           EndJob, FailJob, Manifest, Rest
<1>3. CASE GiveCommand
  BY <1>3 DEF GiveCommand, SendCommand, loadVars, Granted, HostInv, CalleeAt, Calling
<1>4. CASE Recover
  <2>1. PICK r \in CodeReplies :
          \/ Abort(r) /\ AbortRequest(r)
          \/ ClearStatus(r) /\ ClearStatusRequest(r)
    BY <1>4 DEF Recover
  <2>2. pc = "idled"
    BY <1>4 DEF Recover, loadVars, Granted
  <2>3. Abort(r) /\ AbortRequest(r)
    BY <2>1, <2>2 DEF ClearStatus, HostInv, CalleeAt
  <2>4. ~ (r < 0)
    BY <2>3, CodeReplyInt DEF Abort, Return, Granted, Good
  <2> QED
    BY <2>3, <2>4, AbortEffect DEF Rested, Sane, Lost, Stalled
<1>5. CASE GiveBlock \/ FetchBlock \/ Finish
  BY <1>5
     DEF GiveBlock, SendBlock, FetchBlock, ReadBlock, Finish, AbortCommand, Release,
         Terminate, Proceed, Close, Granted
<1>6. CASE CrashStep
  BY <1>6 DEF CrashStep, Crash
<1>7. CASE UNCHANGED systemVars
  BY <1>7
     DEF systemVars, vars, commandVars, waitVars, loadVars, deviceVars, AbortClears,
         Granted, Good
<1> QED
  BY <1>1, <1>2, <1>3, <1>4, <1>5, <1>6, <1>7 DEF SystemNext, HostStep

(* Behind a granted abort the device is not in dfuERROR, crashes apart:    *)
(* AfterIdle goes on to the terminating transfer on no such device.        *)
THEOREM AbortInvariance == SystemSpec => []AbortClears
<1>1. SystemInv /\ AbortClears /\ [SystemNext]_systemVars => AbortClears'
  BY AbortClearsKept DEF SystemInv
<1> QED
  BY <1>1, AbortClearsInit, SystemInvariance, PTL DEF SystemSpec

(* The call is over, with a failure, and the device still in dfuERROR.     *)
Fails == pc' = "done" /\ result' < 0 /\ dev'.state = "Error"

Leaves == Stuck' \/ Fails

(* A request to a device in dfuERROR is lost or stalled, GETSTATUS and     *)
(* CLRSTATUS apart; to the host it fails.                                  *)
LEMMA StuckRequest ==
  ASSUME Rested, Stuck, NEW r \in Int,
         \/ \E length, job : Dnload(length, job, r)
         \/ \E block, length : Upload(block, length, r)
         \/ AbortRequest(r)
  PROVE  r < 0 /\ dev'.state = "Error" /\ plugged'
<1>1. Fields /\ plugged /\ dev.state = "Error"
  BY DEF Rested, Sane, Stuck
<1>2. CASE \E length, job : Dnload(length, job, r)
  BY <1>1, <1>2, DnloadEffect DEF Lost, Stalled, Spared
<1>3. CASE \E block, length : Upload(block, length, r)
  BY <1>1, <1>3, UploadEffect DEF Lost, Stalled, Spared
<1>4. CASE AbortRequest(r)
  BY <1>1, <1>4, AbortEffect DEF Lost, Stalled, Spared
<1> QED
  BY <1>2, <1>3, <1>4

LEMMA StuckCallee ==
  ASSUME HostInv, Rested, Stuck, AskStatus \/ GiveCommand \/ Recover
  PROVE  Stuck'
<1>1. pc' = pc
  BY DEF AskStatus, GiveCommand, Recover, loadVars
<1>2. Fields /\ plugged /\ dev.state = "Error"
  BY DEF Rested, Sane, Stuck
<1>3. CASE AskStatus
  <2>1. PICK r : StatusRequest(tolerant, r)
    BY <1>3 DEF AskStatus
  <2>2. plugged' = plugged /\ (dev' = dev \/ Progresses)
    BY <2>1, StatusEffect
  <2>3. dev'.state = "Error"
    BY <1>2, <2>2
       DEF Progresses, StartJob, StayBusy, EndJob, FailJob, Manifest, Rest
  <2> QED
    BY <1>1, <1>2, <2>2, <2>3 DEF Stuck, Running
<1>4. CASE GiveCommand
  <2>1. PICK r : Dnload(CommandLength(command), CommandJob(command), r)
    BY <1>4 DEF GiveCommand
  <2>2. dev'.state = "Error" /\ plugged'
    BY <1>2, <2>1, DnloadEffect DEF Lost, Stalled, Spared
  <2> QED
    BY <1>1, <2>2 DEF Stuck, Running
<1>5. CASE Recover
  <2>1. PICK r \in CodeReplies :
          \/ Abort(r) /\ AbortRequest(r)
          \/ ClearStatus(r) /\ ClearStatusRequest(r)
    BY <1>5 DEF Recover
  <2>2. AbortRequest(r)
    BY <2>1 DEF ClearStatus, Stuck, HostInv, CalleeAt, Calling
  <2>3. dev'.state = "Error" /\ plugged'
    BY <2>2, CodeReplyInt, StuckRequest
  <2> QED
    BY <1>1, <2>3 DEF Stuck, Running
<1> QED
  BY <1>3, <1>4, <1>5

LEMMA StuckData ==
  ASSUME HostInv, Rested, Stuck, GiveBlock \/ FetchBlock \/ Finish
  PROVE  Fails
<1>1. CASE GiveBlock
  <2>1. PICK r \in TransferReplies(SendLength) :
          SendBlock(r) /\ Dnload(SendLength, WriteJob(count, head, SendLength), r)
    BY <1>1 DEF GiveBlock
  <2>2. r \in Int
    BY <2>1, SendReplyInt DEF SendBlock, HostInv
  <2>3. r < 0 /\ dev'.state = "Error"
    BY <2>1, <2>2, StuckRequest
  <2> QED
    BY <2>1, <2>2, <2>3 DEF SendBlock, Close, Fails
<1>2. CASE FetchBlock
  <2>1. PICK r \in TransferReplies(ReadLength) : ReadBlock(r) /\ Upload(count, ReadLength, r)
    BY <1>2 DEF FetchBlock
  <2>2. r \in Int
    BY <2>1, ReadReplyInt DEF HostInv
  <2>3. r < 0 /\ dev'.state = "Error"
    BY <2>1, <2>2, StuckRequest
  <2> QED
    BY <2>1, <2>2, <2>3 DEF ReadBlock, Close, Fails
<1>3. CASE Finish
  <2>1. PICK r \in CodeReplies : (AbortCommand(r) \/ Release(r)) /\ AbortRequest(r)
    BY <1>3 DEF Finish, Terminate, Stuck
  <2>2. r < 0 /\ dev'.state = "Error"
    BY <2>1, CodeReplyInt, StuckRequest
  <2> QED
    BY <2>1, <2>2 DEF AbortCommand, Release, Proceed, Close, Fails
<1> QED
  BY <1>1, <1>2, <1>3

(* What the host makes of it by itself: it goes on, and to no other        *)
(* request than those, or it gives up.                                     *)
LEMMA StuckHost ==
  ASSUME HostInv, AbortClears, Stuck, OpenDevice \/ Compute
  PROVE  Leaves
<1>1. dev' = dev /\ plugged' = plugged /\ plugged /\ dev.state = "Error"
  BY DEF OpenDevice, Compute, deviceVars, Stuck
<1>2. ASSUME pc' \notin { "idle", "done", "terminate", "manifested" }
      PROVE  Leaves
  BY <1>1, <1>2 DEF Leaves, Stuck, Running
<1>3. CASE OpenDevice
  <2>1. PICK r \in CodeReplies : OpenDownload(r) \/ OpenUpload(r)
    BY <1>3 DEF OpenDevice
  <2>2. \/ pc' \in { "erase", "addressed" }
        \/ pc' = "done" /\ result' < 0
    BY <2>1, CodeReplyInt
       DEF OpenDownload, OpenUpload, Quit, Close, BootIoError_Other,
           BootIoError_Configuration_DescriptorString
  <2> QED
    BY <1>1, <1>2, <2>2 DEF Leaves, Fails
<1>4. CASE Control
  <2>1. ec \in Int
    BY CodeType DEF HostInv, LoadInv, Counters
  <2>2. ~ (AfterIdle /\ ec >= 0) /\ ~ AfterManifest
    BY <1>1 DEF AfterIdle, AfterManifest, AbortClears, Granted, Good, Stuck
  <2>3. \/ pc' \in { "erased", "erase", "addressed", "block", "abort", "idled",
                     "settled", "release", "waited" }
        \/ pc' = "done" /\ result' < 0
    BY <1>4, <2>1, <2>2
       DEF Control, ErasePage, AfterErase, SetAddress, AfterAddress, AfterBlock, EndBlocks,
           AfterIdle, EndUpload, AfterSettle, Proceed, Close
  <2> QED
    BY <1>1, <1>2, <2>3 DEF Leaves, Fails
<1>5. CASE UNCHANGED loadVars
  BY <1>1, <1>5 DEF loadVars, Leaves, Stuck, Running
<1> QED
  BY <1>3, <1>4, <1>5 DEF Compute

LEMMA StuckStep ==
  ASSUME HostInv, Rested, AbortClears, Stuck, [SystemNext]_systemVars
  PROVE  Leaves \/ ~ plugged'
<1>1. CASE AskStatus \/ GiveCommand \/ Recover
  BY <1>1, StuckCallee DEF Leaves
<1>2. CASE GiveBlock \/ FetchBlock \/ Finish
  BY <1>2, StuckData DEF Leaves
<1>3. CASE OpenDevice \/ Compute
  BY <1>3, StuckHost
<1>4. CASE SystemCall
  BY <1>4 DEF SystemCall, Call, Start, Stuck
<1>5. CASE CrashStep
  BY <1>5 DEF CrashStep, Crash
<1>6. CASE UNCHANGED systemVars
  BY <1>6 DEF systemVars, vars, loadVars, deviceVars, Leaves, Stuck, Running
<1> QED
  BY <1>1, <1>2, <1>3, <1>4, <1>5, <1>6 DEF SystemNext, HostStep

(* Neither load function clears an error: from a device in dfuERROR a call *)
(* gets, until it has sent its terminating transfer, no further than to a  *)
(* failure, and leaves the device to the next call as it is.               *)
THEOREM ErrorEndsCalls == SystemSpec => ErrorEndsTheCall
<1>1. SystemInv /\ AbortClears /\ [SystemNext]_systemVars =>
        (Stuck => \/ Stuck' \/ ~ plugged'
                  \/ pc' = "done" /\ result' < 0 /\ dev'.state = "Error")
  BY StuckStep DEF SystemInv, Leaves, Fails
<1> QED
  BY <1>1, SystemInvariance, AbortInvariance, PTL DEF SystemSpec, ErrorEndsTheCall
=============================================================================
