------------------------------ MODULE BootIo -------------------------------
(***************************************************************************)
(* main.c: the example program takes a DFU device, reads its memory into a *)
(* file, writes the file back to the device and resets it.  upload_dfuse   *)
(* and download_dfuse are what LoadDfuse shows of them: they return with   *)
(* the handle closed and null, and an upload gives a prefix of the buffer. *)
(***************************************************************************)
EXTENDS Configuration, DfuFile

VARIABLES
  main,   (* where main is, its device list and its index in it            *)
  confs,  (* the configurations it works on                                *)
  lost,   (* nodes of the lists confs no longer points to                  *)
  bytes,  (* bytes_count: what the upload returned                         *)
  handle  (* confs->device.device_handle: "unset" before it is used, "null"*)

mainVars == << main, confs, lost, bytes, handle >>
bootVars == << confVars, fileVars, mainVars >>

Running(pc) == main.pc = pc /\ alive
Goto(pc) == main' = [main EXCEPT !.pc = pc]

(* libusb_init fails: exit.                                                *)
InitFails ==
  /\ Running("init") /\ Goto("end")
  /\ UNCHANGED << confVars, fileVars, confs, lost, bytes, handle >>

libusb_init ==
  /\ Running("init") /\ Goto("devices")
  /\ UNCHANGED << confVars, fileVars, confs, lost, bytes, handle >>

SearchDevice ==
  /\ Running("devices") /\ main.i <= Len(main.devices)
  /\ find_configurations(main.devices[main.i])
  /\ Goto("found")
  /\ UNCHANGED << fileVars, confs, lost, bytes, handle >>

(* find_configurations runs.                                               *)
Find ==
  /\ Running("found")
  /\ FindStep
  /\ UNCHANGED << fileVars, mainVars >>

(* Slips the mutation runs put in the place of the definition below.       *)
FoundKeepsOld == IF list = << >> THEN confs ELSE list

(* confs is overwritten with what was found, null included.                *)
FoundConfigurations == list

TakeDevice ==
  /\ Running("found") /\ At("idle")
  /\ confs' = FoundConfigurations
  /\ lost' = lost + Len(confs)
  /\ IF list # << >> /\ list[1].dev.match
       THEN Goto("upload")
       ELSE main' = [main EXCEPT !.pc = "devices", !.i = @ + 1]
  /\ list' = << >>
  /\ UNCHANGED << find, held, heap, fileVars, bytes, handle >>

(* The list is at its end: the last device's configurations are used.      *)
LastDevice ==
  /\ Running("devices") /\ main.i > Len(main.devices)
  /\ Goto(IF confs = << >> THEN "end" ELSE "upload")
  /\ UNCHANGED << confVars, fileVars, confs, lost, bytes, handle >>

(* upload_dfuse does not open the device: main returns.                    *)
UploadRefused ==
  /\ Running("upload")
  /\ Goto("end")
  /\ UNCHANGED << confVars, fileVars, confs, lost, bytes, handle >>

UploadFails ==
  /\ Running("upload")
  /\ handle' = "null" /\ Goto("end")
  /\ UNCHANGED << confVars, fileVars, confs, lost, bytes >>

upload_dfuse(n) ==
  /\ Running("upload")
  /\ bytes' = n /\ handle' = "null" /\ Goto("path")
  /\ UNCHANGED << confVars, fileVars, confs, lost >>

SetPath ==
  /\ Running("path")
  /\ dfu_file_set_path /\ Goto("load")
  /\ UNCHANGED << confVars, confs, lost, bytes, handle >>

(* An upload that gave nothing loads nothing.                              *)
LoadUploaded ==
  /\ Running("load")
  /\ \/ bytes = 0 /\ LoadRefused
     \/ bytes > 0 /\ (\E c \in Contents : c.size = bytes /\ load_file(c))
     \/ bytes > 0 /\ LoadOutOfMemory
  /\ Goto("write")
  /\ UNCHANGED << confVars, confs, lost, bytes, handle >>

(* dfu_file_write: what it returns is printed, no more.  fopen of no path  *)
(* is undefined; the program may end.                                      *)
WriteFile ==
  /\ Running("write")
  /\ Goto("download")
  /\ alive' \in IF data # Null /\ ~ path THEN BOOLEAN ELSE {TRUE}
  /\ UNCHANGED << data, size, path, live, ec >>
  /\ UNCHANGED << confVars, confs, lost, bytes, handle >>

(* download_dfuse: its result is not looked at.  It refuses a file without *)
(* data, and may not get the device open.                                  *)
download_dfuse ==
  /\ Running("download")
  /\ Goto("reset")
  /\ handle' \in IF data = Null THEN {handle} ELSE {handle, "null"}
  /\ UNCHANGED << confVars, fileVars, confs, lost, bytes >>

(* The bit DfuFuncDtAttributes_ManifestTolerant of the attributes; a byte  *)
(* behind a descriptor that is too short may be anything.                  *)
ManifestTolerant(attributes) ==
  IF attributes = Garbage THEN BOOLEAN ELSE {(attributes \div 4) % 2 = 1}

Tolerance == ManifestTolerant(confs[1].func_dt.attributes)

(* libusb_reset_device dereferences the handle.                            *)
ResetDevice ==
  /\ Running("reset") /\ TRUE \in Tolerance
  /\ Goto("free") /\ alive' = (handle # "null")
  /\ UNCHANGED << data, size, path, live, ec >>
  /\ UNCHANGED << confVars, confs, lost, bytes, handle >>

NoReset ==
  /\ Running("reset") /\ FALSE \in Tolerance
  /\ Goto("free")
  /\ UNCHANGED << confVars, fileVars, confs, lost, bytes, handle >>

(* Slips the mutation runs put in the place of the definition below.       *)
FreeAllButLast(nodes) == nodes - (Len(confs) - 1)

(* free_device_tree frees the nodes, not what they point to.               *)
free_device_tree(nodes) == nodes - Len(confs)

FreeAll ==
  /\ Running("free")
  /\ dfu_file_free
  /\ heap' = [heap EXCEPT !.nodes = free_device_tree(heap.nodes)]
  /\ confs' = << >> /\ Goto("end")
  /\ UNCHANGED << find, list, held, lost, bytes, handle >>

MainStep ==
  \/ InitFails \/ libusb_init \/ SearchDevice \/ Find \/ TakeDevice \/ LastDevice
  \/ UploadRefused \/ UploadFails
  \/ (\E n \in {0} \cup { c.size : c \in Contents } : upload_dfuse(n))
  \/ SetPath \/ LoadUploaded \/ WriteFile \/ download_dfuse
  \/ ResetDevice \/ NoReset \/ FreeAll

BootInit ==
  /\ ConfigurationInit /\ FileInit
  /\ main \in [pc: {"init"}, devices: Devices, i: {1}]
  /\ confs = << >> /\ lost = 0 /\ bytes = 0 /\ handle = "unset"

BootSpec == BootInit /\ [][MainStep]_bootVars /\ WF_bootVars(MainStep)

-----------------------------------------------------------------------------
(* The program uploads from and downloads to the first device found that   *)
(* is the one it looks for, or else to the last device of the list, which  *)
(* is then any device with a DFU mode (main.c:138).                        *)
Chosen ==
  main.pc \in {"upload", "path", "load", "write", "download", "reset", "free"}

TargetIsMatchOrLast ==
  Chosen =>
    /\ confs # << >>
    /\ \/ main.i <= Len(main.devices) /\ confs[1].dev.match
       \/ /\ main.i > Len(main.devices) /\ ~ confs[1].dev.match
          /\ confs[1].dev = main.devices[Len(main.devices)]

(* Nodes are freed once or lost: those alive are in the list under way, in *)
(* confs, or in the lists confs was overwritten over; and what they point  *)
(* to, two names and a device referenced once for each, is alive as long   *)
(* as they are.  A program that frees its configurations frees its file.   *)
MemoryIsAccounted ==
  /\ heap.nodes = Len(list) + Len(confs) + lost
  /\ heap.nodes <= heap.refs /\ 2 * heap.nodes <= heap.names
  /\ main.pc = "end" /\ confs = << >> => live = 0

(* What is written back to the device is a prefix of what was read from    *)
(* it, short of it by nothing, by the suffix length the file itself claims *)
(* or, for a signed file that claims less than the smallest or more than   *)
(* its size, by the smallest.                                              *)
WriteBackIsPrefix ==
  main.pc \in {"write", "download"} /\ data # Null =>
    /\ data.size = bytes /\ 0 <= FirmwareSize
    /\ bytes - FirmwareSize \in {0, DfuSuffixSize, data.length}

(* The enumeration ends, whatever descriptors the devices give and         *)
(* whatever fails on the way: every run of it returns or crashes.  The     *)
(* walks over a list of descriptors advance by lengths the device chose.   *)
EnumerationEnds == find.pc = "config" ~> find.pc \in {"idle", "crashed"}

-----------------------------------------------------------------------------
(* What the comments say of a configuration and the code does not do.      *)

(* The descriptor fill_descriptor copied "into the provided structure"     *)
(* (configuration.c:31): its transfer size is that of bytes 5 and 6.       *)
IsComplete(func_dt) == func_dt.length >= 9 /\ Len(func_dt.sent) >= 9

IsCopied(func_dt) == func_dt.transfer_size = << func_dt.sent[6], func_dt.sent[7] >>

(* configuration.h:15: a configuration "encapsulates various attributes    *)
(* required to interact with a USB device".  The one main reconnects its   *)
(* device by (main.c:175) holds an open handle, for libusb_reset_device,   *)
(* and the functional descriptor the device declares.                      *)
ConfigurationIsOfDevice ==
  main.pc = "reset" /\ TRUE \in Tolerance =>
    LET func_dt == confs[1].func_dt
    IN  IsComplete(func_dt) => handle = "open" /\ IsCopied(func_dt)
=============================================================================
