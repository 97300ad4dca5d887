---------------------------- MODULE DfuseCommand ----------------------------
(***************************************************************************)
(* dfuse_command.c: the DfuSe commands, each a DNLOAD of block 0 that      *)
(* send_command follows with at most timeout_number status polls.          *)
(* send_command shares the registers of DfuStatus: i is its timeout_count, *)
(* nap its local `timeout`.                                                *)
(***************************************************************************)
EXTENDS DfuStatus

CONSTANTS
  timeout_number, (* status polls after a command: 2 in the program        *)
  Addresses       (* addresses the commands carry                          *)

ASSUME CommandAssumption ==
  /\ timeout_number \in Nat /\ timeout_number > 0
  /\ timeout_number <= max_wait_count
  /\ Addresses \subseteq Nat

VARIABLE
  command   (* the command bytes send_command was given                    *)

commandVars == << waitVars, command >>

(* MASS_ERASE is an ERASE_PAGE without an address: 0x41 alone.  NoAddress  *)
(* is the address of the one-byte commands.                                *)
NoAddress == -1

Commands ==
  [op: { "SetAddress", "ErasePage" }, address: Addresses]
    \cup [op: { "ErasePage", "Leave" }, address: {NoAddress}]

dfuse_cmd_set_address(a) == [op |-> "SetAddress", address |-> a]
dfuse_cmd_erase_page(a)  == [op |-> "ErasePage", address |-> a]
dfuse_cmd_mass_erase     == [op |-> "ErasePage", address |-> NoAddress]
dfuse_cmd_leave          == [op |-> "Leave", address |-> NoAddress]

CommandLength(c) == IF c.address = NoAddress THEN 1 ELSE 5

-----------------------------------------------------------------------------
EnterCommand(c) ==
  /\ fn' = "send_command" /\ at' = "command"
  /\ command' = c
  /\ i' = 0 /\ polls' = 0 /\ nap' = 10
  /\ status' \in StackGarbage
  /\ UNCHANGED << ec, tolerant, heard >>

SendCommand(r) ==
  /\ at = "command"
  /\ IF r < 0 THEN Return(r) ELSE at' = "poll" /\ ec' = r
  /\ UNCHANGED << fn, i, status, nap, tolerant, heard, polls, command >>

(* Slips the mutation runs put in the place of the definition below.       *)
CommandLoopTrustsStatus(code, st) ==
  IF st.state # "DownloadIdle" /\ i + 1 < timeout_number
    THEN i' = i + 1 /\ at' = "poll" /\ ec' = code
    ELSE /\ i' = IF st.state # "DownloadIdle" THEN i + 1 ELSE i
         /\ Return(BootIoError_Success)

CommandLoopNeverGivesUp(code, st) ==
  IF st.state # "DownloadIdle"
    THEN UNCHANGED i /\ at' = "poll" /\ ec' = code
    ELSE /\ i' = i
         /\ Return(IF st.status # "Ok" THEN BootIoError_Transfer_Pipe ELSE code)

(* `while (status.state != DownloadIdle && ++timeout_count < timeout_number)` *)
(* and the return statements behind it.                                    *)
CommandLoop(code, st) ==
  IF st.state # "DownloadIdle" /\ i + 1 < timeout_number
    THEN i' = i + 1 /\ at' = "poll" /\ ec' = code
    ELSE /\ i' = IF st.state # "DownloadIdle" THEN i + 1 ELSE i
         /\ Return(IF st.status # "Ok" THEN BootIoError_Transfer_Pipe ELSE code)

(* A failed poll leaves status as it was, uninitialised the first time; a  *)
(* pipe error overwrites the state, and only the state, with DownloadBusy. *)
PollCommand(r) ==
  LET code == StatusCode(r)
      pipe == code = BootIoError_Transfer_Pipe /\ i < timeout_number
      st   == IF r.n = 6 THEN Decode(r)
              ELSE IF pipe THEN [status EXCEPT !.state = "DownloadBusy"]
              ELSE status
  IN
  /\ at = "poll" /\ fn = "send_command"
  /\ status' = st /\ heard' = r
  /\ polls' = IF polls <= max_wait_count THEN polls + 1 ELSE polls
  /\ nap' = IF code >= 0 THEN st.timeout ELSE IF pipe THEN 1 ELSE nap
  /\ IF st.state = "DownloadBusy"
       THEN at' = "sleep" /\ ec' = code /\ UNCHANGED i
       ELSE CommandLoop(code, st)
  /\ UNCHANGED << fn, tolerant, command >>

WakeUpCommand ==
  /\ at = "sleep" /\ fn = "send_command"
  /\ CommandLoop(ec, status)
  /\ UNCHANGED << fn, status, nap, tolerant, heard, polls, command >>

-----------------------------------------------------------------------------
CommandStep ==
  \/ \E r \in TransferReplies(CommandLength(command)) : SendCommand(r)
  \/ \E r \in transfer_status : PollCommand(r)
  \/ WakeUpCommand
  \/ WaitStep /\ UNCHANGED command

CommandCall ==
  /\ at = "ret"
  /\ \/ \E c \in Commands : EnterCommand(c)
     \/ \E f \in Waits : Enter(f) /\ UNCHANGED command

CommandInit == WaitInit /\ command = dfuse_cmd_leave

CommandNext == CommandCall \/ CommandStep

CommandSpec == CommandInit /\ [][CommandNext]_commandVars

FairCommandSpec == CommandSpec /\ WF_commandVars(CommandStep)

-----------------------------------------------------------------------------
CommandTypeOK ==
  /\ fn \in Waits \cup { "none", "send_command" }
  /\ at \in { "ret", "abort", "poll", "clear", "reset", "sleep", "command" }
  /\ i \in 0 .. max_wait_count
  /\ ec \in Int
  /\ status \in DeviceDfuStatus
  /\ nap \in Nat
  /\ tolerant \in BOOLEAN
  /\ heard \in transfer_status
  /\ polls \in 0 .. max_wait_count
  /\ command \in Commands

CommandReturned == at = "ret" /\ fn = "send_command"

(* A command that reports success was answered: the last of its polls      *)
(* returned a whole status with code Ok, whatever the stack held before.   *)
CommandSuccessIsHeard ==
  CommandReturned /\ ec >= 0 => heard.n = 6 /\ heard.payload.status = "Ok"

(* A command costs at most timeout_number polls.                           *)
CommandPollsBounded == fn = "send_command" => polls <= timeout_number

(* Every command returns.                                                  *)
CommandReturns == (at # "ret") ~> (at = "ret")
=============================================================================
