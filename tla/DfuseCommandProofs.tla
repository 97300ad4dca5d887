------------------------- MODULE DfuseCommandProofs -------------------------
(***************************************************************************)
(* The safety properties of dfuse_command.c for every poll budget and      *)
(* every device, in the builds where get_status reads back what libusb     *)
(* stored.  The waits share the registers with send_command; their         *)
(* invariant holds whenever it is not send_command that uses them.         *)
(***************************************************************************)
EXTENDS DfuseCommand, DfuStatusProofs

(* send_command has made as many polls as timeout_count says, and a code   *)
(* that is no error and is slept over stands for a reply heard in full.    *)
SendInv ==
  /\ at \in { "ret", "command", "poll", "sleep" }
  /\ at = "command" => i = 0 /\ polls = 0
  /\ at = "poll" => polls = i /\ i < timeout_number
  /\ at = "sleep" => polls = i + 1 /\ i < timeout_number /\ (ec >= 0 => Decoded)
  /\ polls <= timeout_number
  /\ CommandSuccessIsHeard

CommandInv ==
  /\ CommandTypeOK
  /\ fn # "send_command" => WaitSafe
  /\ fn = "send_command" => SendInv

-----------------------------------------------------------------------------
LEMMA Budgets ==
  /\ timeout_number \in Nat /\ timeout_number > 0
  /\ max_wait_count \in Nat /\ timeout_number <= max_wait_count
BY CommandAssumption, WaitAssumption

LEMMA WaitTypesCommand ==
  ASSUME WaitTypeOK, command \in Commands
  PROVE  CommandTypeOK
BY DEF WaitTypeOK, CommandTypeOK

(* A step that leaves a running send_command to its next, typed step.      *)
LEMMA SendStepInv ==
  ASSUME CommandTypeOK', fn' = "send_command", SendInv'
  PROVE  CommandInv'
BY DEF CommandInv

LEMMA CommandInitInv == CommandInit => CommandInv
<1> SUFFICES ASSUME CommandInit PROVE CommandInv
  OBVIOUS
<1>1. WaitSafe /\ WaitTypeOK /\ fn = "none"
  BY WaitInitSafe DEF CommandInit, WaitInit, WaitSafe, WaitInv
<1>2. command \in Commands
  BY DEF CommandInit, dfuse_cmd_leave, Commands
<1> QED
  BY <1>1, <1>2, WaitTypesCommand DEF CommandInv

-----------------------------------------------------------------------------
(* A call may follow one of the other kind.                                *)
LEMMA EnterWaitInv ==
  ASSUME CommandInv, NEW f \in Waits, Enter(f), UNCHANGED command
  PROVE  CommandInv'
<1>1. status' \in DeviceDfuStatus /\ max_wait_count \in Nat /\ max_wait_count > 0
  BY WaitAssumption DEF Enter
<1>2. CommandTypeOK
  BY DEF CommandInv
<1>3. WaitInv'
  BY <1>1, <1>2 DEF CommandTypeOK, WaitInv, WaitTypeOK, Enter
<1>4. at' # "ret"
  BY DEF Enter
<1>5. WaitSafe'
  BY <1>3, <1>4
     DEF WaitSafe, SuccessIsHeard, ErrorStateIsFailure, EarlySuccessIsTarget,
         Returned
<1>6. fn' # "send_command"
  BY DEF Enter, Waits
<1>7. CommandTypeOK'
  BY <1>1, <1>2 DEF CommandTypeOK, Enter
<1> QED
  BY <1>5, <1>6, <1>7 DEF CommandInv

LEMMA EnterCommandInv ==
  ASSUME CommandInv, NEW c \in Commands, EnterCommand(c)
  PROVE  CommandInv'
<1>1. status' \in DeviceDfuStatus
  BY WaitAssumption DEF EnterCommand
<1>2. CommandTypeOK'
  BY <1>1, Budgets DEF CommandInv, CommandTypeOK, EnterCommand
<1>3. SendInv'
  BY Budgets DEF EnterCommand, SendInv, CommandSuccessIsHeard, CommandReturned
<1> QED
  BY <1>2, <1>3, SendStepInv DEF EnterCommand

-----------------------------------------------------------------------------
LEMMA SendCommandInv ==
  ASSUME CommandInv, NEW r \in TransferReplies(CommandLength(command)),
         SendCommand(r)
  PROVE  CommandInv'
<1>1. r \in Int
  BY ErrorType DEF TransferReplies, CommandLength
<1>2. fn = "send_command"
  BY DEF CommandInv, SendCommand, WaitSafe, WaitInv, WaitTypeOK
<1>3. CommandTypeOK /\ SendInv
  BY <1>2 DEF CommandInv
<1>4. CommandTypeOK'
  BY <1>1, <1>3 DEF CommandTypeOK, SendCommand, Return
<1>5. SendInv'
  BY <1>1, <1>3, Budgets
     DEF SendCommand, Return, SendInv, CommandSuccessIsHeard, CommandReturned
<1> QED
  BY <1>2, <1>4, <1>5, SendStepInv DEF SendCommand

(***************************************************************************)
(* The loop condition and the returns behind it, from a state whose        *)
(* counter is one behind its polls.                                        *)
(***************************************************************************)
LEMMA CommandLoopInv ==
  ASSUME CommandTypeOK, fn = "send_command", fn' = fn, command' = command,
         tolerant' = tolerant, nap' \in Nat,
         NEW code \in Int, NEW st \in DeviceDfuStatus,
         i < timeout_number, polls' = i + 1,
         status' = st, heard' \in transfer_status,
         code >= 0 => heard'.n = 6 /\ st = heard'.payload,
         CommandLoop(code, st)
  PROVE  CommandInv'
<1>1. i \in Nat
  BY Budgets DEF CommandTypeOK
<1>2. CASE st.state # "DownloadIdle" /\ i + 1 < timeout_number
  <2>1. i' = i + 1 /\ at' = "poll" /\ ec' = code
    BY <1>2 DEF CommandLoop
  <2>2. CommandTypeOK'
    BY <1>1, <1>2, <2>1, Budgets DEF CommandTypeOK
  <2>3. SendInv'
    BY <1>1, <1>2, <2>1, Budgets DEF SendInv, CommandSuccessIsHeard, CommandReturned
  <2> QED
    BY <2>2, <2>3, SendStepInv
<1>3. CASE ~ (st.state # "DownloadIdle" /\ i + 1 < timeout_number)
  <2>1. /\ i' \in {i, i + 1} /\ at' = "ret"
        /\ ec' = IF st.status # "Ok" THEN BootIoError_Transfer_Pipe ELSE code
    BY <1>3 DEF CommandLoop, Return
  <2>2. ec' \in Int /\ (ec' >= 0 => code >= 0 /\ st.status = "Ok")
    BY <2>1 DEF BootIoError_Transfer_Pipe
  <2>3. CommandTypeOK'
    BY <1>1, <2>1, <2>2, Budgets DEF CommandTypeOK
  <2>4. SendInv'
    BY <1>1, <2>1, <2>2, Budgets DEF SendInv, CommandSuccessIsHeard, CommandReturned
  <2> QED
    BY <2>3, <2>4, SendStepInv
<1> QED
  BY <1>2, <1>3

LEMMA PollCommandInv ==
  ASSUME CommandInv, ConstBuffer = "stored", NEW r \in transfer_status,
         PollCommand(r)
  PROVE  CommandInv'
<1> DEFINE code == StatusCode(r)
           pipe == code = BootIoError_Transfer_Pipe /\ i < timeout_number
           st   == IF r.n = 6 THEN Decode(r)
                   ELSE IF pipe THEN [status EXCEPT !.state = "DownloadBusy"]
                   ELSE status
<1>1. /\ at = "poll" /\ fn = "send_command"
      /\ fn' = fn /\ tolerant' = tolerant /\ command' = command
      /\ status' = st /\ heard' = r
      /\ polls' = IF polls <= max_wait_count THEN polls + 1 ELSE polls
      /\ nap' = IF code >= 0 THEN st.timeout ELSE IF pipe THEN 1 ELSE nap
  BY DEF PollCommand
<1>2. CommandTypeOK /\ SendInv
  BY <1>1 DEF CommandInv
<1>3. i \in Nat /\ i < timeout_number /\ polls = i
  BY <1>1, <1>2, Budgets DEF CommandTypeOK, SendInv
<1>4. code \in Int /\ (code >= 0 => r.n = 6) /\ r.payload \in DeviceDfuStatus
  BY ReplyType
<1>5. st \in DeviceDfuStatus
  <2>1. status \in DeviceDfuStatus
    BY <1>2 DEF CommandTypeOK
  <2>2. Decode(r) \in DeviceDfuStatus
    BY <1>4 DEF Decode
  <2>3. [status EXCEPT !.state = "DownloadBusy"] \in DeviceDfuStatus
    BY <2>1 DEF DeviceDfuStatus, DfuStates
  <2> QED
    BY <2>1, <2>2, <2>3
<1>6. code >= 0 => heard'.n = 6 /\ st = heard'.payload
  BY <1>1, <1>4 DEF Decode
<1>7. nap' \in Nat
  <2>1. st.timeout \in Nat /\ nap \in Nat
    BY <1>2, <1>5 DEF CommandTypeOK, DeviceDfuStatus
  <2> HIDE DEF code, pipe, st
  <2> QED
    BY <1>1, <2>1
<1>8. polls' = i + 1
  BY <1>1, <1>3, Budgets
<1>9. IF st.state = "DownloadBusy"
        THEN at' = "sleep" /\ ec' = code /\ UNCHANGED i
        ELSE CommandLoop(code, st)
  BY DEF PollCommand
<1> HIDE DEF code, pipe, st
<1>10. CASE st.state = "DownloadBusy"
  <2>1. at' = "sleep" /\ ec' = code /\ i' = i
    BY <1>9, <1>10
  <2>2. CommandTypeOK'
    BY <1>1, <1>2, <1>3, <1>4, <1>5, <1>7, <1>8, <2>1, Budgets DEF CommandTypeOK
  <2>3. SendInv'
    BY <1>1, <1>3, <1>6, <1>8, <2>1, Budgets
       DEF SendInv, Decoded, CommandSuccessIsHeard, CommandReturned
  <2> QED
    BY <1>1, <2>2, <2>3, SendStepInv
<1>11. CASE st.state # "DownloadBusy"
  BY <1>1, <1>2, <1>3, <1>4, <1>5, <1>6, <1>7, <1>8, <1>9, <1>11, CommandLoopInv
<1> QED
  BY <1>10, <1>11

LEMMA WakeUpCommandInv ==
  ASSUME CommandInv, WakeUpCommand
  PROVE  CommandInv'
<1>1. at = "sleep" /\ fn = "send_command" /\ CommandLoop(ec, status)
  BY DEF WakeUpCommand
<1>2. CommandTypeOK /\ SendInv
  BY <1>1 DEF CommandInv
<1>3. /\ ec \in Int /\ status \in DeviceDfuStatus /\ nap \in Nat
      /\ heard \in transfer_status
  BY <1>2 DEF CommandTypeOK
<1>4. i < timeout_number /\ polls = i + 1 /\ (ec >= 0 => Decoded)
  BY <1>1, <1>2 DEF SendInv
<1>5. /\ fn' = fn /\ command' = command /\ tolerant' = tolerant /\ nap' = nap
      /\ polls' = polls /\ status' = status /\ heard' = heard
  BY DEF WakeUpCommand
<1> QED
  BY <1>1, <1>2, <1>3, <1>4, <1>5, CommandLoopInv DEF Decoded

-----------------------------------------------------------------------------
(* send_command is never where a wait would take a step.                   *)
LEMMA WaitStepInv ==
  ASSUME CommandInv, ConstBuffer = "stored", WaitStep, UNCHANGED command
  PROVE  CommandInv'
<1>1. fn # "send_command"
  <2> SUFFICES ASSUME fn = "send_command" PROVE FALSE
    OBVIOUS
  <2>1. at \notin { "abort", "clear", "reset" }
    BY DEF CommandInv, SendInv
  <2>2. fn \notin Waits
    BY DEF Waits
  <2>3. ~ Poll
    BY DEF Poll, PollDownloadIdle, PollManifest, PollDfuIdle
  <2>4. ~ Request
    BY <2>1 DEF Request, Abort, ClearStatus, ResetDevice
  <2>5. ~ WakeUp
    BY <2>2 DEF WakeUp
  <2> QED
    BY <2>3, <2>4, <2>5 DEF WaitStep
<1>2. WaitSafe'
  BY <1>1, WaitStepSafe DEF CommandInv
<1>3. WaitTypeOK' /\ fn' # "send_command"
  BY <1>2 DEF WaitSafe, WaitInv, WaitTypeOK, Waits
<1>4. command' \in Commands
  BY DEF CommandInv, CommandTypeOK
<1>5. CommandTypeOK'
  BY <1>3, <1>4 DEF WaitTypeOK, CommandTypeOK
<1> QED
  BY <1>2, <1>3, <1>5 DEF CommandInv

LEMMA CommandStutterInv ==
  ASSUME CommandInv, UNCHANGED commandVars
  PROVE  CommandInv'
<1>1. UNCHANGED waitVars /\ command' = command
  BY DEF commandVars
<1>2. CommandTypeOK'
  BY <1>1 DEF CommandInv, CommandTypeOK, waitVars
<1>3. CASE fn # "send_command"
  <2>1. WaitSafe'
    BY <1>1, <1>3, WaitStutterSafe DEF CommandInv
  <2> QED
    BY <1>1, <1>2, <1>3, <2>1 DEF CommandInv, waitVars
<1>4. CASE fn = "send_command"
  <2>1. SendInv'
    BY <1>1, <1>4
       DEF CommandInv, SendInv, Decoded, CommandSuccessIsHeard, CommandReturned, waitVars
  <2> QED
    BY <1>1, <1>2, <1>4, <2>1 DEF CommandInv, waitVars
<1> QED
  BY <1>3, <1>4

(* The invariant holds of every behaviour of a build that stores: waits    *)
(* and commands in any order, over registers that keep what was there.     *)
THEOREM CommandInvariance ==
  ASSUME ConstBuffer = "stored"
  PROVE  CommandSpec => []CommandInv
<1>1. CommandInv /\ CommandCall => CommandInv'
  BY EnterCommandInv, EnterWaitInv DEF CommandCall
<1>2. CommandInv /\ CommandStep => CommandInv'
  BY SendCommandInv, PollCommandInv, WakeUpCommandInv, WaitStepInv DEF CommandStep
<1>3. CommandInv /\ [CommandNext]_commandVars => CommandInv'
  BY <1>1, <1>2, CommandStutterInv DEF CommandNext
<1> QED
  BY <1>3, CommandInitInv, PTL DEF CommandSpec

(* The registers keep their types through commands and waits, and the      *)
(* counters their budgets.                                                 *)
THEOREM CommandTypes ==
  ASSUME ConstBuffer = "stored"
  PROVE  CommandSpec => []CommandTypeOK
<1>1. CommandInv => CommandTypeOK
  BY DEF CommandInv
<1> QED
  BY <1>1, CommandInvariance, PTL

(* A command that succeeds was told so by a whole status with code Ok in   *)
(* its last poll, whatever the stack held before.                          *)
THEOREM CommandHeard ==
  ASSUME ConstBuffer = "stored"
  PROVE  CommandSpec => []CommandSuccessIsHeard
<1>1. CommandInv => CommandSuccessIsHeard
  BY DEF CommandInv, SendInv, CommandSuccessIsHeard, CommandReturned
<1> QED
  BY <1>1, CommandInvariance, PTL

(* A command costs at most timeout_number polls.                           *)
THEOREM CommandPolls ==
  ASSUME ConstBuffer = "stored"
  PROVE  CommandSpec => []CommandPollsBounded
<1>1. CommandInv => CommandPollsBounded
  BY DEF CommandInv, SendInv, CommandPollsBounded
<1> QED
  BY <1>1, CommandInvariance, PTL
=============================================================================
