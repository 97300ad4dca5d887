------------------------------ MODULE DfuTypes ------------------------------
(***************************************************************************)
(* The vocabulary the host library and the USB device share: error codes,  *)
(* the states and statuses of the DFU protocol, the requests the library   *)
(* puts on the control endpoint and what libusb answers.                   *)
(*                                                                         *)
(* A control transfer is synchronous: libusb_control_transfer blocks until *)
(* the device answered, stalled, vanished, or bootio_transfer_timeout ran  *)
(* out.  An action of a host module is therefore parameterised by the      *)
(* reply its transfer gets, and whoever composes it says which replies are *)
(* possible.                                                               *)
(***************************************************************************)
EXTENDS Integers

CONSTANTS
  U16,            (* number of values of a uint16_t: 65536 in the program  *)
  TransferErrors, (* negative libusb results a transfer may return         *)
  Readings,       (* decoded GETSTATUS payloads the device may send        *)
  ConstBuffer     (* what a build makes of the write into get_status's     *)
                  (* const buffer: "stored" or "folded" (see GetStatus)    *)

DfuStates == { "AppIdle", "AppDetach", "Idle", "DownloadSync",
               "DownloadBusy", "DownloadIdle", "ManifestSync", "Manifest",
               "ManifestWaitReset", "UploadIdle", "Error" }

(* The library compares a status with DfuStatus_Ok only, so the fifteen    *)
(* error statuses are one value.                                           *)
DfuStatuses == { "Ok", "Failed" }

DeviceDfuStatus == [status: DfuStatuses, timeout: Nat, state: DfuStates]

BootIoError_Success      == 0
BootIoError_InvalidParam == -98
BootIoError_Other        == -99
BootIoError_Configuration_DescriptorString == -204
BootIoError_Transfer_Pipe == -9

ASSUME U16Assumption == U16 \in Nat /\ U16 > 2
ASSUME TransferErrorsAssumption ==
  /\ TransferErrors \subseteq -99 .. -1
  /\ BootIoError_Transfer_Pipe \in TransferErrors
ASSUME ReadingsAssumption == Readings \subseteq DeviceDfuStatus
ASSUME ConstBufferAssumption == ConstBuffer \in { "stored", "folded" }

(***************************************************************************)
(* Requests, with the implicit conversions of transfer_in and transfer_out *)
(* to uint16_t: both the block number and the length are taken modulo U16. *)
(***************************************************************************)
transfer_out(transfer_count, chunk_size) ==
  [ command |-> "Download",
    value   |-> transfer_count % U16,
    length  |-> chunk_size % U16 ]

transfer_in(transfer_count, chunk_size) ==
  [ command |-> "Upload",
    value   |-> transfer_count % U16,
    length  |-> chunk_size % U16 ]

(* What a data transfer of length len may return: a byte count or an error. *)
TransferReplies(len) == 0 .. len \cup TransferErrors

(* A request without a data stage (ABORT, CLRSTATUS) or a libusb call that  *)
(* returns a code: zero or an error.                                        *)
CodeReplies == TransferReplies(0)

(***************************************************************************)
(* GETSTATUS returns a byte count n and, when all six bytes arrived, a     *)
(* payload.  NoReading stands for the payload of a reply that has none,    *)
(* and 0 and 5 for the lengths of a short one.                             *)
(***************************************************************************)
NoReading == [ status |-> "Ok", timeout |-> 0, state |-> "Error" ]

transfer_status ==
  [n: {6}, payload: Readings]
    \cup [n: { 0, 5 } \cup TransferErrors, payload: {NoReading}]
=============================================================================
