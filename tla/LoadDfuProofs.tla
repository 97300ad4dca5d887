--------------------------- MODULE LoadDfuProofs ---------------------------
(***************************************************************************)
(* What load_dfu.c guarantees against every device: for all sizes, chunk   *)
(* sizes, bounds, poll budgets and replies, in any build.                  *)
(***************************************************************************)
EXTENDS LoadDfu, DfuStatusProofs, SequenceTheorems

(***************************************************************************)
(* The inductive invariant.  A running call has seen no error (Faults); an *)
(* upload has filled a prefix of its buffer (Uploads); and as long as no   *)
(* transfer was short and the chunk is still the caller's, the counter of  *)
(* download_dfu times the chunk is the number of bytes sent (Blocks),      *)
(* which is why the offset it computes from them is right.  InOrder does   *)
(* not ask which function runs: a refused call leaves the image as it was. *)
(***************************************************************************)
Counters ==
  ec \in Int /\ total \in Nat /\ expected \in Nat /\ chunk \in Nat /\ turn \in Nat

Places ==
  /\ pc = "open" => total = 0 /\ turn = 0 /\ image = << >>
  /\ pc = "settled" => op = "upload_dfu"
  /\ pc \in { "waited", "idled", "terminate", "manifested" } => op = "download_dfu"

Faults == (Running => errors = {}) /\ OnlyBlockErrorsAreDropped

Uploads ==
  /\ Running /\ op = "upload_dfu" =>
       image = Offsets(0, total) /\ (total < expected + chunk \/ total = 0)
  /\ UploadSuccessIsPrefix

Regular == exact /\ chunk < U16 /\ total < expected

InOrder == Regular \/ total = 0 => image = Offsets(0, total)

Turns == IF pc = "waited" THEN turn + 1 ELSE turn

(* A chunk too long for a transfer's length never gets a download near its *)
(* end: it sends the chunk less a multiple of 2^16, so that as much is left. *)
Wide == exact /\ U16 <= chunk /\ total < expected =>
          total = 0 \/ U16 <= expected - total

Blocks ==
  Running /\ op = "download_dfu" => Wide /\ (Regular => total = chunk * Turns)

LoadInv == Counters /\ Places /\ Faults /\ Uploads /\ InOrder /\ Blocks

-----------------------------------------------------------------------------
LEMMA OffsetsJoin ==
  ASSUME NEW m \in Nat, NEW n \in Nat
  PROVE  Offsets(0, m) \o Offsets(m, n) = Offsets(0, m + n)
<1> DEFINE s == Offsets(0, m)
           t == Offsets(m, n)
           u == Offsets(0, m + n)
<1>1. /\ s \in Seq(Nat) /\ t \in Seq(Nat) /\ u \in Seq(Nat)
      /\ Len(s) = m /\ Len(t) = n /\ Len(u) = m + n
  BY DEF Offsets
<1>2. s \o t \in Seq(Nat) /\ Len(s \o t) = m + n
  BY <1>1, ConcatProperties
<1>3. ASSUME NEW k \in 1 .. m + n PROVE (s \o t)[k] = u[k]
  BY <1>1, ConcatProperties DEF Offsets
<1> QED
  BY <1>1, <1>2, <1>3, SeqEqual

LEMMA OffsetsNone == Offsets(0, 0) = << >>
BY DEF Offsets

(* A transfer of n bytes has a length of n at most, and of n when it fits. *)
LEMMA Truncated ==
  ASSUME NEW n \in Nat
  PROVE  n % U16 \in Nat /\ n % U16 <= n /\ (n < U16 => n % U16 = n)
BY U16Assumption

(* What a transfer cuts off its length is a multiple of 2^16.              *)
LEMMA CutOff ==
  ASSUME NEW n \in Nat, U16 <= n
  PROVE  U16 <= n - (n % U16)
<1>1. n % U16 <= n - U16
  BY U16Assumption
<1> QED
  BY <1>1, U16Assumption

LEMMA DataReply ==
  ASSUME NEW len \in Nat, NEW r \in TransferReplies(len)
  PROVE  r \in Int /\ (r >= 0 => r \in Nat /\ r <= len)
BY ErrorType DEF TransferReplies

(* The steps of a wait keep its code an integer.                           *)
LEMMA WaitCode ==
  ASSUME ec \in Int, WaitStep
  PROVE  ec' \in Int
<1>1. ASSUME NEW code \in Int, NEW st, NextIteration(code, st)
      PROVE  ec' \in Int
  BY <1>1 DEF NextIteration, Return, Verdict, BootIoError_Other
<1>2. ASSUME NEW r \in transfer_status,
             PollDownloadIdle(r) \/ PollManifest(r) \/ PollDfuIdle(r)
      PROVE  ec' \in Int
  <2>1. StatusCode(r) \in Int
    BY ReplyType
  <2>2. CASE PollDownloadIdle(r)
    BY <2>1, <2>2 DEF PollDownloadIdle, Return, Sleep, BootIoError_Other
  <2>3. CASE PollManifest(r)
    BY <2>1, <2>3 DEF PollManifest, Return, Sleep
  <2>4. CASE PollDfuIdle(r)
    BY <2>1, <2>4, <1>1 DEF PollDfuIdle, Return
  <2> QED
    BY <1>2, <2>2, <2>3, <2>4
<1>3. ASSUME NEW r \in CodeReplies, Abort(r) \/ ClearStatus(r) \/ ResetDevice(r)
      PROVE  ec' \in Int
  <2>1. r \in Int
    BY CodeReplyType
  <2>2. CASE Abort(r)
    BY <2>1, <2>2 DEF Abort, Return
  <2>3. CASE ClearStatus(r)
    BY <2>1, <2>3 DEF ClearStatus, Return, Sleep
  <2>4. CASE ResetDevice(r)
    BY <2>1, <2>4, <1>1 DEF ResetDevice, Return
  <2> QED
    BY <1>3, <2>2, <2>3, <2>4
<1>4. CASE WakeUp
  BY <1>1, <1>4 DEF WakeUp
<1> QED
  BY <1>2, <1>3, <1>4 DEF WaitStep, Poll, Request

LEMMA CodeKept ==
  ASSUME ec \in Int, UNCHANGED waitVars \/ \E f \in Waits : Enter(f)
  PROVE  ec' \in Int
BY DEF waitVars, Enter

-----------------------------------------------------------------------------
LEMMA LoadInitInv == Init => LoadInv
BY OffsetsNone
   DEF Init, WaitInit, LoadInit, LoadInv, Counters, Places, Faults, Uploads,
       InOrder, Regular, Blocks, Wide, Turns, Running, Done,
       OnlyBlockErrorsAreDropped, UploadSuccessIsPrefix

(* What does not touch the load function keeps everything.                 *)
LEMMA Untouched ==
  ASSUME LoadInv, ec' \in Int, UNCHANGED << loadVars, turn >>
  PROVE  LoadInv'
BY DEF loadVars, LoadInv, Counters, Places, Faults, Uploads, InOrder, Regular,
       Blocks, Wide, Turns, Running, Done, OnlyBlockErrorsAreDropped,
       UploadSuccessIsPrefix

(* A call returns: by then it has noted at most the error it returns, or,  *)
(* in a download, that of a block.                                         *)
LEMMA ReturnInv ==
  ASSUME LoadInv, Running, pc' = "done", ec' \in Int, result' \in Int,
         result' >= 0 => result' = total,
         \/ result' < 0
         \/ errors' = {}
         \/ op = "download_dfu" /\ errors' \subseteq { "block" },
         chunk' = chunk,
         UNCHANGED << op, expected, total, image, exact, turn >>
  PROVE  LoadInv'
<1>1. ~ Running' /\ Counters' /\ Places'
  BY DEF Running, LoadInv, Counters, Places
<1>2. Faults'
  BY <1>1 DEF Faults, OnlyBlockErrorsAreDropped
<1>3. Uploads'
  BY <1>1 DEF LoadInv, Uploads, UploadSuccessIsPrefix, Done
<1>4. InOrder' /\ Blocks'
  BY <1>1 DEF LoadInv, InOrder, Regular, Blocks, Wide
<1> QED
  BY <1>1, <1>2, <1>3, <1>4 DEF LoadInv

(* The label `out`, with the code that was noted.                          *)
LEMMA CloseInv ==
  ASSUME LoadInv, Running, NEW code \in Int, Note(code), Close(code), ec' \in Int,
         UNCHANGED << op, expected, chunk, total, image, exact, turn >>
  PROVE  LoadInv'
<1>1. errors = {} /\ total \in Nat /\ chunk \in Nat
  BY DEF LoadInv, Faults, Counters
<1>2. pc' = "done" /\ result' = IF code < 0 THEN code ELSE total
  BY DEF Close
<1>3. code >= 0 => errors' = {}
  BY <1>1 DEF Note
<1> QED
  BY <1>1, <1>2, <1>3, ReturnInv

(* The return statements that do not pass through `out`.                   *)
LEMMA QuitInv ==
  ASSUME LoadInv, Running, NEW code \in Int, code < 0, Quit(code), ec' \in Int,
         UNCHANGED << op, expected, chunk, total, image, exact, turn >>
  PROVE  LoadInv'
<1>1. pc' = "done" /\ result' = code /\ chunk' \in Nat
  BY DEF Quit, LoadInv, Counters
<1> QED
  BY <1>1, ReturnInv

(* On to the next step, nothing having been moved.                         *)
LEMMA GoOn ==
  ASSUME LoadInv, Running, pc' \notin { "idle", "open", "done" }, ec' \in Int,
         Places', errors' = {}, turn' \in Nat, Turns' = Turns,
         UNCHANGED << op, expected, chunk, total, image, exact >>
  PROVE  LoadInv'
<1>1. Running' /\ Counters'
  BY DEF Running, LoadInv, Counters
<1>2. Faults' /\ Uploads'
  BY <1>1
     DEF LoadInv, Faults, OnlyBlockErrorsAreDropped, Uploads, Running,
         UploadSuccessIsPrefix, Done
<1>3. InOrder' /\ Blocks'
  BY <1>1 DEF LoadInv, InOrder, Regular, Blocks, Wide
<1> QED
  BY <1>1, <1>2, <1>3 DEF LoadInv

(* `if (ec < 0) goto out;`.                                                 *)
LEMMA ProceedInv ==
  ASSUME LoadInv, Running, NEW next_pc, next_pc \notin { "idle", "open", "done" },
         Proceed(ec, next_pc), UNCHANGED waitVars,
         ec < 0 => turn' = turn,
         ec >= 0 => Places' /\ turn' \in Nat /\ Turns' = Turns,
         UNCHANGED << op, expected, chunk, total, image, exact >>
  PROVE  LoadInv'
<1>1. ec \in Int /\ ec' \in Int /\ errors = {}
  BY DEF waitVars, LoadInv, Counters, Faults
<1>2. CASE ec < 0
  BY <1>1, <1>2, CloseInv DEF Proceed
<1>3. CASE ec >= 0
  <2>1. pc' = next_pc /\ errors' = {}
    BY <1>1, <1>3 DEF Proceed, Note
  <2> QED
    BY <1>1, <1>3, <2>1, GoOn
<1> QED
  BY <1>1, <1>2, <1>3

-----------------------------------------------------------------------------
(* One lemma per action.                                                   *)
LEMMA CallInv ==
  ASSUME LoadInv, NEW f, NEW size \in Sizes, NEW c \in ChunkSizes, Call(f, size, c)
  PROVE  LoadInv'
<1>1. size \in Nat /\ c \in Nat /\ ec' \in Int
  BY LoadAssumption, CodeKept DEF Call, LoadInv, Counters
<1>2. /\ pc' = "open" /\ total' = 0 /\ turn' = 0 /\ image' = << >> /\ errors' = {}
      /\ expected' = size /\ chunk' = c
  BY DEF Call, Start
<1> QED
  BY <1>1, <1>2, OffsetsNone
     DEF LoadInv, Counters, Places, Faults, Uploads, InOrder, Regular, Blocks, Wide,
         Turns, Running, Done, OnlyBlockErrorsAreDropped, UploadSuccessIsPrefix

LEMMA RefuseCallInv ==
  ASSUME LoadInv, NEW f, RefuseCall(f)
  PROVE  LoadInv'
<1>1. /\ pc' = "done" /\ result' < 0 /\ ~ Running' /\ ec' \in Int
      /\ UNCHANGED << expected, chunk, total, image, exact, turn >>
  BY CodeKept
     DEF RefuseCall, Refuse, Running, LoadInv, Counters, BootIoError_InvalidParam
<1>2. result' \in Int
  BY DEF RefuseCall, Refuse, BootIoError_InvalidParam
<1> QED
  BY <1>1, <1>2
     DEF LoadInv, Counters, Places, Faults, Uploads, InOrder, Regular, Blocks, Wide,
         Done, OnlyBlockErrorsAreDropped, UploadSuccessIsPrefix

LEMMA OpenInv ==
  ASSUME LoadInv, NEW r \in CodeReplies, Open(r)
  PROVE  LoadInv'
<1>1. /\ Running /\ r \in Int /\ ec' \in Int /\ Note(r) /\ errors = {}
      /\ UNCHANGED << op, expected, chunk, total, image, exact, turn >>
  BY CodeReplyType, CodeKept DEF Open, Running, LoadInv, Counters, Faults
<1>2. CASE r < 0 /\ Quit(r)
  BY <1>1, <1>2, QuitInv
<1>3. CASE r >= 0 /\ pc' = "block"
  <2>1. Places' /\ errors' = {} /\ turn' \in Nat /\ Turns' = Turns
    BY <1>1, <1>3 DEF Note, Places, Turns, Open, LoadInv, Counters
  <2> QED
    BY <1>1, <1>3, <2>1, GoOn
<1> QED
  BY <1>2, <1>3 DEF Open

LEMMA ReadBlockInv ==
  ASSUME LoadInv, NEW r \in TransferReplies(ReadLength), ReadBlock(r)
  PROVE  LoadInv'
<1>1. /\ Running /\ pc = "block" /\ op = "upload_dfu" /\ total < expected
      /\ Note(r) /\ errors = {}
      /\ image = Offsets(0, total)
      /\ total \in Nat /\ expected \in Nat /\ chunk \in Nat /\ turn \in Nat
      /\ UNCHANGED << op, expected, chunk, turn >>
  BY DEF ReadBlock, Running, LoadInv, Counters, Faults, Uploads
<1>2. ReadLength \in Nat /\ ReadLength <= chunk
  BY <1>1, Truncated DEF ReadLength, transfer_in
<1>3. r \in Int /\ (r >= 0 => r \in Nat /\ r <= chunk)
  BY <1>1, <1>2, DataReply
<1>4. ec' \in Int
  BY CodeKept DEF ReadBlock, LoadInv, Counters, Waits
<1>5. CASE r < 0
  <2>1. Close(r) /\ UNCHANGED << total, image, exact >>
    BY <1>3, <1>5 DEF ReadBlock
  <2> QED
    BY <1>1, <1>3, <1>4, <2>1, CloseInv
<1>6. CASE r >= 0
  <2>1. total' = total + r /\ image' = image \o Offsets(total, r)
    BY <1>3, <1>6 DEF ReadBlock, Move
  <2>2. pc' \in { "block", "settled" }
    BY <1>3, <1>6 DEF ReadBlock
  <2>3. image' = Offsets(0, total')
    BY <1>1, <1>3, <1>6, <2>1, OffsetsJoin
  <2>4. errors' = {} /\ Running'
    BY <1>1, <1>3, <1>6, <2>2 DEF Note, Running
  <2>5. Counters' /\ total' < expected' + chunk'
    BY <1>1, <1>3, <1>4, <1>6, <2>1 DEF Counters
  <2>6. Places'
    BY <1>1, <2>2 DEF Places
  <2>7. Faults' /\ Uploads'
    BY <1>1, <2>2, <2>3, <2>4, <2>5
       DEF Faults, Uploads, OnlyBlockErrorsAreDropped, UploadSuccessIsPrefix, Done
  <2>8. InOrder'
    BY <2>3 DEF InOrder
  <2>9. Blocks'
    BY <1>1 DEF Blocks
  <2> QED
    BY <2>5, <2>6, <2>7, <2>8, <2>9 DEF LoadInv
<1> QED
  BY <1>3, <1>5, <1>6

(***************************************************************************)
(* A block of a download.  When it leaves bytes to send, its chunk is the  *)
(* whole one, and the offset computed from the counter the right one.      *)
(***************************************************************************)
LEMMA SendBlockInv ==
  ASSUME LoadInv, NEW r \in TransferReplies(SendLength), SendBlock(r)
  PROVE  LoadInv'
<1>1. /\ Running /\ pc = "block" /\ op = "download_dfu" /\ total < expected
      /\ Note(r) /\ errors = {} /\ chunk' = NextChunk
      /\ total \in Nat /\ expected \in Nat /\ chunk \in Nat /\ turn \in Nat
      /\ UNCHANGED << op, expected, turn >>
  BY DEF SendBlock, Running, LoadInv, Counters, Faults
<1>2. /\ NextChunk \in Nat /\ NextChunk <= chunk
      /\ NextChunk = chunk \/ NextChunk = expected - total
  BY <1>1 DEF NextChunk
<1>3. SendLength \in Nat /\ (NextChunk < U16 => SendLength = NextChunk)
  BY <1>2, Truncated DEF SendLength, transfer_out
<1>4. r \in Int /\ (r >= 0 => r \in Nat)
  BY <1>3, DataReply
<1>5. ec' \in Int
  BY CodeKept DEF SendBlock, LoadInv, Counters, Waits
<1>6. CASE r < 0
  <2>1. pc' = "done" /\ result' = total /\ UNCHANGED << total, image, exact >>
    BY <1>4, <1>6 DEF SendBlock, Close, BootIoError_Success
  <2>2. errors' = { "block" }
    BY <1>1, <1>6 DEF Note
  <2>3. Running' = FALSE /\ Counters' /\ Places'
    BY <1>1, <1>2, <1>5, <2>1 DEF Running, Counters, Places
  <2>4. Faults' /\ Blocks'
    BY <1>1, <2>1, <2>2, <2>3 DEF Faults, Blocks, OnlyBlockErrorsAreDropped
  <2>5. Uploads'
    BY <1>1, <2>3 DEF Uploads, UploadSuccessIsPrefix, Done
  <2>6. InOrder'
    <3> SUFFICES ASSUME Regular' PROVE Regular \/ total = 0
      BY <2>1 DEF InOrder, LoadInv
    <3>1. CASE chunk < U16
      BY <1>1, <2>1, <3>1 DEF Regular
    <3>2. CASE U16 <= chunk
      <4>1. expected - total < U16
        BY <1>1, <1>2, <3>2, U16Assumption DEF Regular
      <4>2. Wide /\ exact
        BY <1>1, <2>1 DEF LoadInv, Blocks, Regular
      <4> QED
        BY <1>1, <3>2, <4>1, <4>2, U16Assumption DEF Wide
    <3> QED
      BY <1>1, <3>1, <3>2, U16Assumption
  <2> QED
    BY <2>3, <2>4, <2>5, <2>6 DEF LoadInv
<1>7. CASE r >= 0
  <2>1. /\ total' = total + r /\ image' = image \o Offsets(NextChunk * turn, r)
        /\ exact' = (exact /\ r = SendLength) /\ pc' = "waited"
    BY <1>4, <1>7 DEF SendBlock, Move, BufHead
  <2>2. errors' = {} /\ Running'
    BY <1>1, <1>4, <1>7, <2>1 DEF Note, Running
  <2>3. Counters' /\ Places'
    BY <1>1, <1>2, <1>4, <1>5, <1>7, <2>1 DEF Counters, Places
  <2>4. Faults' /\ Uploads'
    BY <1>1, <2>1, <2>2
       DEF Faults, Uploads, OnlyBlockErrorsAreDropped, UploadSuccessIsPrefix, Done
  <2>5. ASSUME Regular'
        PROVE  image' = Offsets(0, total') /\ total' = chunk' * (turn + 1)
    <3>1. r = NextChunk
      BY <1>1, <1>3, <2>1, <2>5 DEF Regular
    <3>2. NextChunk = chunk
      BY <1>1, <1>2, <2>1, <2>5, <3>1 DEF Regular
    <3>3. Regular
      BY <1>1, <1>4, <2>1, <2>5, <3>1, <3>2 DEF Regular
    <3>4. total = chunk * turn /\ image = Offsets(0, total)
      BY <1>1, <3>3 DEF LoadInv, InOrder, Blocks, Turns
    <3>5. image' = Offsets(0, total) \o Offsets(total, chunk)
      BY <2>1, <3>1, <3>2, <3>4
    <3>6. image' = Offsets(0, total')
      BY <1>1, <2>1, <3>1, <3>2, <3>5, OffsetsJoin
    <3>7. chunk * (turn + 1) = chunk * turn + chunk
      BY <1>1
    <3> QED
      BY <1>1, <2>1, <3>1, <3>2, <3>4, <3>6, <3>7
  <2>6. ASSUME total' = 0 PROVE image' = Offsets(0, total')
    <3>1. r = 0 /\ total = 0
      BY <1>1, <1>4, <1>7, <2>1, <2>6
    <3>2. image = << >>
      BY <3>1, OffsetsNone DEF LoadInv, InOrder
    <3>3. image' = << >> \o << >>
      BY <2>1, <3>1, <3>2 DEF Offsets
    <3> QED
      BY <2>6, <3>3, OffsetsNone
  <2>7. Wide'
    <3> SUFFICES ASSUME exact', U16 <= chunk', total' < expected
                 PROVE  U16 <= expected - total'
      BY <1>1 DEF Wide
    <3>1. r = NextChunk % U16
      BY <2>1 DEF SendLength, transfer_out
    <3>2. NextChunk \in Nat /\ U16 <= NextChunk
      BY <1>1, <1>2
    <3>3. U16 <= NextChunk - r
      BY <3>1, <3>2, CutOff
    <3>4. NextChunk <= expected - total
      BY <1>1 DEF NextChunk
    <3> QED
      BY <1>1, <1>2, <1>4, <1>7, <2>1, <3>3, <3>4, U16Assumption
  <2>8. InOrder' /\ Blocks'
    BY <1>1, <2>1, <2>5, <2>6, <2>7 DEF InOrder, Blocks, Turns
  <2> QED
    BY <2>3, <2>4, <2>8 DEF LoadInv
<1> QED
  BY <1>4, <1>6, <1>7

LEMMA AfterBlockInv ==
  ASSUME LoadInv, AfterBlock
  PROVE  LoadInv'
<1>1. /\ Running /\ pc = "waited" /\ op = "download_dfu" /\ turn \in Nat
      /\ Proceed(ec, "block") /\ UNCHANGED waitVars
      /\ UNCHANGED << op, expected, chunk, total, image, exact >>
  BY DEF AfterBlock, Running, LoadInv, Places, Counters
<1>2. ec < 0 => turn' = turn
  BY DEF AfterBlock
<1>3. ASSUME ec >= 0 PROVE Places' /\ turn' \in Nat /\ Turns' = Turns
  <2>1. turn' = turn + 1 /\ pc' = "block"
    BY <1>3 DEF AfterBlock, Proceed, LoadInv, Counters
  <2> QED
    BY <1>1, <2>1 DEF Places, Turns
<1> QED
  BY <1>1, <1>2, <1>3, ProceedInv

LEMMA AfterIdleInv ==
  ASSUME LoadInv, AfterIdle
  PROVE  LoadInv'
<1>1. /\ Running /\ pc = "idled" /\ op = "download_dfu" /\ turn \in Nat
      /\ Proceed(ec, "terminate") /\ UNCHANGED waitVars
      /\ UNCHANGED << op, expected, chunk, total, image, exact, turn >>
  BY DEF AfterIdle, Running, LoadInv, Places, Counters
<1>2. ASSUME ec >= 0 PROVE Places' /\ turn' \in Nat /\ Turns' = Turns
  <2>1. pc' = "terminate"
    BY <1>2 DEF AfterIdle, Proceed, LoadInv, Counters
  <2> QED
    BY <1>1, <2>1 DEF Places, Turns
<1> QED
  BY <1>1, <1>2, ProceedInv

(* The steps that enter a wait behind the loops.                           *)
LEMMA EndInv ==
  ASSUME LoadInv, EndBlocks \/ EndUpload
  PROVE  LoadInv'
<1>1. /\ Running /\ pc = "block" /\ errors' = {} /\ turn' = turn /\ turn \in Nat
      /\ UNCHANGED << op, expected, chunk, total, image, exact >>
  BY DEF EndBlocks, EndUpload, Running, LoadInv, Faults, Counters
<1>2. ec' \in Int
  BY CodeKept DEF EndBlocks, EndUpload, LoadInv, Counters, Waits
<1>3. \/ pc' = "idled" /\ op = "download_dfu"
      \/ pc' = "settled" /\ op = "upload_dfu"
  BY DEF EndBlocks, EndUpload
<1>4. Places' /\ Turns' = Turns
  BY <1>1, <1>3 DEF Places, Turns
<1> QED
  BY <1>1, <1>2, <1>3, <1>4, GoOn

LEMMA AfterLastWaitInv ==
  ASSUME LoadInv, AfterSettle \/ AfterManifest
  PROVE  LoadInv'
<1>1. /\ Running /\ Note(ec) /\ Close(ec) /\ UNCHANGED waitVars
      /\ UNCHANGED << op, expected, chunk, total, image, exact, turn >>
  BY DEF AfterSettle, AfterManifest, Running
<1>2. ec \in Int /\ ec' \in Int
  BY <1>1, CodeKept DEF LoadInv, Counters
<1> QED
  BY <1>1, <1>2, CloseInv

LEMMA TerminateInv ==
  ASSUME LoadInv, NEW r \in CodeReplies, Terminate(r)
  PROVE  LoadInv'
<1>1. /\ Running /\ pc = "terminate" /\ op = "download_dfu" /\ r \in Int
      /\ Note(r) /\ errors = {} /\ turn \in Nat
      /\ UNCHANGED << op, expected, chunk, total, image, exact, turn >>
  BY CodeReplyType DEF Terminate, Running, LoadInv, Counters, Faults, Places
<1>2. ec' \in Int
  BY CodeKept DEF Terminate, LoadInv, Counters, Waits
<1>3. CASE r < 0 /\ Quit(r)
  BY <1>1, <1>2, <1>3, QuitInv
<1>4. CASE r >= 0 /\ pc' = "manifested"
  <2>1. Places' /\ errors' = {} /\ Turns' = Turns
    BY <1>1, <1>4 DEF Note, Places, Turns
  <2> QED
    BY <1>1, <1>2, <1>4, <2>1, GoOn
<1> QED
  BY <1>3, <1>4 DEF Terminate

-----------------------------------------------------------------------------
LEMMA LoadNextInv ==
  ASSUME LoadInv, [Next]_vars
  PROVE  LoadInv'
<1>1. CASE LoadCall
  BY <1>1, CallInv, RefuseCallInv DEF LoadCall
<1>2. ASSUME NEW r \in CodeReplies, Open(r) \/ Terminate(r) PROVE LoadInv'
  BY <1>2, OpenInv, TerminateInv
<1>3. CASE Data
  BY <1>3, SendBlockInv, ReadBlockInv DEF Data
<1>4. CASE Control
  BY <1>4, AfterBlockInv, AfterIdleInv, EndInv, AfterLastWaitInv DEF Control
<1>5. CASE Callee
  <2>1. ec' \in Int
    BY <1>5, WaitCode DEF Callee, LoadInv, Counters
  <2> QED
    BY <1>5, <2>1, Untouched DEF Callee
<1>6. CASE UNCHANGED vars
  <2>1. ec' \in Int
    BY <1>6, CodeKept DEF vars, LoadInv, Counters
  <2> QED
    BY <1>6, <2>1, Untouched DEF vars
<1> QED
  BY <1>1, <1>2, <1>3, <1>4, <1>5, <1>6 DEF Next, LoadStep

(* The invariant holds of every behaviour of load_dfu.c.                   *)
THEOREM LoadInvariance == Spec => []LoadInv
BY LoadInitInv, LoadNextInv, PTL DEF Spec

(* An error on the way is lost in one place: a block that fails.           *)
THEOREM ErrorsReported == Spec => []OnlyBlockErrorsAreDropped
<1>1. LoadInv => OnlyBlockErrorsAreDropped
  BY DEF LoadInv, Faults
<1> QED
  BY <1>1, LoadInvariance, PTL

(* An upload that succeeds has filled a prefix of the buffer.              *)
THEOREM UploadPrefix == Spec => []UploadSuccessIsPrefix
<1>1. LoadInv => UploadSuccessIsPrefix
  BY DEF LoadInv, Uploads
<1> QED
  BY <1>1, LoadInvariance, PTL

(* Until its last block a download sends the image in order.               *)
THEOREM BlocksOrdered == Spec => []BlocksAreInOrder
<1>1. LoadInv => BlocksAreInOrder
  BY DEF LoadInv, InOrder, Regular, BlocksAreInOrder
<1> QED
  BY <1>1, LoadInvariance, PTL

(* A call that returns leaves the handle open only when the terminating    *)
(* transfer fails, or when the handle was open before the call.            *)
THEOREM LeakAtTerminator == Spec => HandleLeaksAtTerminator
<1> DEFINE Leak == Running /\ ~ Running' /\ handle' =>
                     pc = "terminate" \/ (pc = "open" /\ handle)
<1>1. ASSUME Next PROVE Leak
  <2> SUFFICES ASSUME Running, ~ Running', handle'
               PROVE  pc = "terminate" \/ (pc = "open" /\ handle)
    OBVIOUS
  <2>1. pc' \in { "idle", "done" }
    BY DEF Running
  <2>2. ~ LoadCall
    BY DEF LoadCall, Call, RefuseCall, Start, Refuse
  <2>3. ASSUME NEW r, Open(r) PROVE pc = "open" /\ handle
    BY <2>1, <2>3 DEF Open, Quit
  <2>4. ASSUME NEW r, Terminate(r) PROVE pc = "terminate"
    BY <2>4 DEF Terminate
  <2>5. ~ Data
    BY <2>1 DEF Data, SendBlock, ReadBlock, Close
  <2>6. ~ Control
    BY <2>1 DEF Control, AfterBlock, EndBlocks, AfterIdle, AfterManifest,
                EndUpload, AfterSettle, Proceed, Close
  <2>7. ~ Callee
    BY DEF Callee, loadVars, Running
  <2> QED
    BY <1>1, <2>2, <2>3, <2>4, <2>5, <2>6, <2>7 DEF Next, LoadStep
<1>2. [Next]_vars => [Leak]_vars
  BY <1>1
<1> QED
  BY <1>2, PTL DEF Spec, HandleLeaksAtTerminator

-----------------------------------------------------------------------------
(***************************************************************************)
(* Types.  The registers of the waits are theirs, which DfuStatusProofs    *)
(* shows every wait keeps; a download never counts more bytes than it was  *)
(* given, because a transfer returns at most the length it was given.      *)
(***************************************************************************)
LoadTypes ==
  /\ op \in { "none", "upload_dfu", "download_dfu" }
  /\ pc \in { "idle", "done", "open", "block", "waited", "idled", "terminate",
             "manifested", "settled" }
  /\ handle \in BOOLEAN
  /\ expected \in Nat /\ chunk \in Nat /\ count \in 0 .. U16 - 1
  /\ total \in Nat
  /\ op = "download_dfu" /\ Running => total <= expected
  /\ turn \in Nat
  /\ result \in Int
  /\ image \in Seq(Nat)

LEMMA CountWraps ==
  ASSUME NEW n \in 0 .. U16 - 1
  PROVE  (n + 1) % U16 \in 0 .. U16 - 1
BY U16Assumption

LEMMA OffsetsAreNat ==
  ASSUME NEW s \in Seq(Nat), NEW m \in Nat, NEW n \in Nat
  PROVE  s \o Offsets(m, n) \in Seq(Nat)
<1>1. Offsets(m, n) \in Seq(Nat)
  BY DEF Offsets
<1> QED
  BY <1>1, ConcatProperties

LEMMA SettleTypes ==
  ASSUME LoadTypes, handle' \in BOOLEAN, result' \in Int, count' \in 0 .. U16 - 1,
         pc' \in { "done", "block", "waited", "idled", "terminate", "manifested",
                   "settled" },
         turn' \in Nat, Running, UNCHANGED << op, expected, chunk, total, image >>
  PROVE  LoadTypes'
BY DEF LoadTypes, Running

LEMMA ControlTypes ==
  ASSUME LoadTypes, LoadInv, Control
  PROVE  LoadTypes'
<1>1. /\ Running /\ UNCHANGED << op, expected, chunk, total, image >>
      /\ count \in 0 .. U16 - 1 /\ turn \in Nat /\ ec \in Int /\ total \in Nat
      /\ result \in Int /\ handle \in BOOLEAN
  BY DEF Control, AfterBlock, EndBlocks, AfterIdle, AfterManifest, EndUpload,
         AfterSettle, Running, LoadTypes, LoadInv, Counters
<1>2. CASE AfterBlock
  <2>1. /\ count' \in 0 .. U16 - 1 /\ turn' \in Nat
    BY <1>1, <1>2, CountWraps DEF AfterBlock
  <2>2. pc' \in { "done", "block" } /\ handle' \in BOOLEAN /\ result' \in Int
    BY <1>1, <1>2 DEF AfterBlock, Proceed, Close
  <2> QED
    BY <1>1, <2>1, <2>2, SettleTypes
<1>3. CASE AfterIdle
  <2>1. pc' \in { "done", "terminate" } /\ handle' \in BOOLEAN /\ result' \in Int
    BY <1>1, <1>3 DEF AfterIdle, Proceed, Close
  <2> QED
    BY <1>1, <1>3, <2>1, SettleTypes DEF AfterIdle
<1>4. CASE AfterManifest \/ AfterSettle
  <2>1. pc' = "done" /\ handle' \in BOOLEAN /\ result' \in Int
    <3>1. Close(ec)
      BY <1>4 DEF AfterManifest, AfterSettle
    <3>2. pc' = "done" /\ handle' = FALSE /\ (result' = ec \/ result' = total)
      BY <3>1 DEF Close
    <3>3. handle' \in BOOLEAN
      BY <3>2, Zenon
    <3> QED
      BY <1>1, <3>2, <3>3
  <2>2. count' = count /\ turn' = turn
    BY <1>4 DEF AfterManifest, AfterSettle
  <2> QED
    BY <1>1, <2>1, <2>2, SettleTypes
<1>5. CASE EndBlocks \/ EndUpload
  <2>1. /\ pc' \in { "idled", "settled" } /\ handle' = handle /\ result' = result
        /\ count' = count /\ turn' = turn
    BY <1>5 DEF EndBlocks, EndUpload
  <2> QED
    BY <1>1, <2>1, SettleTypes
<1> QED
  BY <1>2, <1>3, <1>4, <1>5 DEF Control

LEMMA CodeTypes ==
  ASSUME LoadTypes, NEW r \in CodeReplies, Open(r) \/ Terminate(r)
  PROVE  LoadTypes'
<1>1. /\ Running /\ r \in Int
      /\ UNCHANGED << op, expected, chunk, count, total, image, turn >>
      /\ count \in 0 .. U16 - 1 /\ turn \in Nat
  BY CodeReplyType DEF Open, Terminate, Running, LoadTypes
<1>2. /\ pc' \in { "done", "block", "manifested" }
      /\ handle' \in BOOLEAN /\ result' \in Int
  BY <1>1 DEF Open, Terminate, Quit, LoadTypes
<1> QED
  BY <1>1, <1>2, SettleTypes

LEMMA ReadBlockTypes ==
  ASSUME LoadTypes, NEW r \in TransferReplies(ReadLength), ReadBlock(r)
  PROVE  LoadTypes'
<1>1. /\ total \in Nat /\ expected \in Nat /\ chunk \in Nat /\ turn \in Nat
      /\ count \in 0 .. U16 - 1 /\ image \in Seq(Nat)
      /\ handle \in BOOLEAN /\ result \in Int
      /\ op = "upload_dfu" /\ UNCHANGED << op, expected, chunk, turn >>
  BY DEF ReadBlock, LoadTypes
<1>2. ReadLength \in Nat
  BY <1>1, Truncated DEF ReadLength, transfer_in
<1>3. r \in Int /\ (r >= 0 => r \in Nat)
  BY <1>2, DataReply
<1>4. CASE r < 0
  <2>1. /\ pc' = "done" /\ handle' = FALSE /\ result' = r
        /\ UNCHANGED << count, total, image >>
    BY <1>3, <1>4 DEF ReadBlock, Close
  <2> QED
    BY <1>1, <1>3, <2>1 DEF LoadTypes
<1>5. CASE r >= 0
  <2>1. /\ total' = total + r /\ image' = image \o Offsets(total, r)
        /\ UNCHANGED << handle, result >>
    BY <1>3, <1>5 DEF ReadBlock, Move
  <2>2. image' \in Seq(Nat) /\ total' \in Nat
    BY <1>1, <1>3, <1>5, <2>1, OffsetsAreNat
  <2>3. pc' \in { "block", "settled" } /\ count' \in 0 .. U16 - 1
    BY <1>1, <1>3, <1>5, CountWraps DEF ReadBlock
  <2> QED
    BY <1>1, <2>1, <2>2, <2>3 DEF LoadTypes
<1> QED
  BY <1>3, <1>4, <1>5

LEMMA SendBlockTypes ==
  ASSUME LoadTypes, NEW r \in TransferReplies(SendLength), SendBlock(r)
  PROVE  LoadTypes'
<1>1. /\ total \in Nat /\ expected \in Nat /\ chunk \in Nat /\ turn \in Nat
      /\ count \in 0 .. U16 - 1 /\ image \in Seq(Nat)
      /\ handle \in BOOLEAN /\ result \in Int /\ total < expected
      /\ op = "download_dfu" /\ chunk' = NextChunk
      /\ UNCHANGED << op, expected, count, turn >>
  BY DEF SendBlock, LoadTypes
<1>2. NextChunk \in Nat /\ NextChunk <= expected - total
  BY <1>1 DEF NextChunk
<1>3. SendLength \in Nat /\ SendLength <= NextChunk
  BY <1>2, Truncated DEF SendLength, transfer_out
<1>4. r \in Int /\ (r >= 0 => r \in Nat /\ r <= SendLength)
  BY <1>3, DataReply
<1>5. CASE r < 0
  <2>1. /\ pc' = "done" /\ handle' = FALSE /\ result' = total
        /\ UNCHANGED << total, image >>
    BY <1>4, <1>5 DEF SendBlock, Close, BootIoError_Success
  <2>2. ~ Running' /\ chunk' \in Nat /\ result' \in Int
    BY <1>1, <1>2, <2>1 DEF Running
  <2> QED
    BY <1>1, <2>1, <2>2 DEF LoadTypes
<1>6. CASE r >= 0
  <2>1. /\ total' = total + r /\ image' = image \o Offsets(NextChunk * turn, r)
        /\ pc' = "waited" /\ UNCHANGED << handle, result >>
    BY <1>4, <1>6 DEF SendBlock, Move, BufHead
  <2>2. NextChunk * turn \in Nat
    BY <1>1, <1>2
  <2>3. image' \in Seq(Nat)
    BY <1>1, <1>4, <1>6, <2>1, <2>2, OffsetsAreNat
  <2>4. total' \in Nat /\ total' <= expected
    BY <1>1, <1>2, <1>3, <1>4, <1>6, <2>1
  <2> QED
    BY <1>1, <1>2, <2>1, <2>3, <2>4 DEF LoadTypes
<1> QED
  BY <1>4, <1>5, <1>6

LEMMA LoadCallTypes ==
  ASSUME LoadTypes, LoadCall
  PROVE  LoadTypes'
<1>1. ASSUME NEW f \in { "upload_dfu", "download_dfu" }, RefuseCall(f)
      PROVE  LoadTypes'
  BY <1>1 DEF RefuseCall, Refuse, LoadTypes, Running, BootIoError_InvalidParam
<1>2. ASSUME NEW f \in { "upload_dfu", "download_dfu" }, NEW size \in Sizes,
             NEW c \in ChunkSizes, Call(f, size, c)
      PROVE  LoadTypes'
  <2>1. size \in Nat /\ c \in Nat /\ FirstBlock \in 0 .. U16 - 1
    BY LoadAssumption, U16Assumption DEF FirstBlock
  <2> QED
    BY <1>2, <2>1 DEF Call, Start, LoadTypes
<1> QED
  BY <1>1, <1>2 DEF LoadCall

LEMMA LoadTypesKept ==
  ASSUME LoadTypes, LoadInv, [Next]_vars
  PROVE  LoadTypes'
<1>1. CASE Callee \/ UNCHANGED vars
  BY <1>1 DEF Callee, vars, loadVars, LoadTypes, Running
<1> QED
  BY <1>1, LoadCallTypes, CodeTypes, ReadBlockTypes, SendBlockTypes, ControlTypes
     DEF Next, LoadStep, Data

(* What a step of the load function does to the waits: nothing, or enter.  *)
LEMMA WaitsKept ==
  ASSUME WaitSafe, ConstBuffer = "stored", [Next]_vars
  PROVE  WaitSafe'
<1>1. \/ UNCHANGED waitVars
      \/ \E f \in Waits : Enter(f)
      \/ WaitStep
  BY DEF Next, LoadCall, RefuseCall, Call, LoadStep, Open, Terminate, Data, SendBlock,
         ReadBlock, Control, AfterBlock, EndBlocks, AfterIdle, AfterManifest,
         EndUpload, AfterSettle, Callee, vars, Waits
<1> QED
  BY <1>1, EnterSafe, WaitStepSafe, WaitStutterSafe

(* The waits keep their promises where load_dfu.c calls them: no success   *)
(* without a whole reply and status Ok, none on an error state.            *)
THEOREM WaitsInLoad ==
  ASSUME ConstBuffer = "stored"
  PROVE  Spec => []WaitSafe
<1>1. Init => WaitSafe
  BY WaitInitSafe DEF Init
<1> QED
  BY <1>1, WaitsKept, PTL DEF Spec

(* Every variable of load_dfu.c and its waits keeps its type.              *)
THEOREM LoadTypeOK ==
  ASSUME ConstBuffer = "stored"
  PROVE  Spec => []TypeOK
<1>1. Init => LoadTypes
  <2> SUFFICES ASSUME Init PROVE LoadTypes
    OBVIOUS
  <2>1. LoadInit /\ turn = 0 /\ 2 \in 0 .. U16 - 1
    BY U16Assumption DEF Init
  <2>2. image \in Seq(Nat) /\ count \in 0 .. U16 - 1
    BY <2>1 DEF LoadInit
  <2>3. handle \in BOOLEAN
    BY <2>1, Zenon DEF LoadInit
  <2> QED
    BY <2>1, <2>2, <2>3 DEF LoadInit, LoadTypes, Running
<1>2. LoadTypes /\ LoadInv /\ [Next]_vars => LoadTypes'
  BY LoadTypesKept
<1>3. LoadTypes /\ WaitSafe => TypeOK
  BY DEF LoadTypes, TypeOK, WaitSafe, WaitInv
<1> QED
  BY <1>1, <1>2, <1>3, LoadInvariance, WaitsInLoad, PTL DEF Spec
=============================================================================
