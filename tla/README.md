# wor-bootio in TLA+

wor-bootio is a C library that reads and writes the firmware of USB devices
through the DFU protocol and ST's DfuSe extension of it, with an example
program. These modules model all of it that computes something: the status
polling, the DfuSe commands, the memory segments a DfuSe device declares, the
four load functions, a device for them to work on, firmware files, the search
for devices, and the example program over all that. The sources, headers and
tests of the repository are the reference; paths below are relative to its
root, the headers named without one are in `include/`, the sources in `src/`.

## The system

| Component | Files | State it keeps | Operations |
|---|---|---|---|
| DFU requests | `src/transfer.c` | `bootio_transfer_timeout` | `transfer_in`, `transfer_out`, `transfer_status`, `dfu_clear_status`, `dfu_abort`, `dfu_detach`, `set_device_timeout` |
| Status polling | `src/dfu_status.c` | locals of a call: loop counter, error code, `struct DeviceDfuStatus` | `get_status`, `wait_for_download_idle`, `wait_for_manifest`, `wait_for_dfu_idle`, `abort_and_wait_idle` |
| DfuSe commands | `src/dfuse_command.c` | the same | `dfuse_cmd_set_address`, `dfuse_cmd_erase_page`, `dfuse_cmd_mass_erase`, `dfuse_cmd_leave` |
| Memory segments | `src/memory_segment.c` | a list of segments, built for one call | `parse_memory_segments`, `find_segment_node`, `find_segment`, `free_memory_segment_list` |
| DFU load | `src/load_dfu.c` | `config->device_handle`; locals: byte and block counts, chunk size | `upload_dfu`, `download_dfu` |
| DfuSe load | `src/load_dfuse.c` | the same, buffer head, erase cursor | `upload_dfuse`, `download_dfuse`, `erase_pages` |
| Firmware file | `src/dfu_file.c` | `struct DfuFile` | `load_file`, `dfu_file_set_path`, `dfu_file_free` |
| CRC-32 | `src/crc32.c` | none | `get_crc32` |
| Enumeration | `src/configuration.c` | a list of configurations | `find_configurations`, `free_configuration`, `free_device_tree` |
| Example | `main.c` | locals of `main`: the configurations, the file, a byte count | enumerate, upload, write a file, load it, download, reset |
| Device | none: the partner of the library | DFU state, status, address pointer, job, flash | what the requests and the DfuSe commands ask of it |

The library has no threads and no callbacks. A load function opens the device,
calls the commands, the waits and the requests one after the other, and closes
it. Every request is one blocking `libusb_control_transfer`. The other actor is
the device: it answers, stalls, falls silent or disappears at each of them, may
move fewer bytes than asked for, and may report any state and status. The hard
behaviours are therefore those of a sequential program against an arbitrary
partner:

- *polling with a budget*: what a wait returns when the budget is spent, when a
  poll fails, when a reply is short, when the local status was never filled;
- *errors that must reach the caller*, through one variable `ec` that the next
  call overwrites, and *a handle that must be closed* on every path;
- *loops over blocks* whose count, chunk size, buffer position and block number
  must stay in step when a transfer falls short, when the last chunk is partial
  and when the 16-bit block number wraps;
- *loops that must end* although the device decides how far each turn gets;
- *segment arithmetic*, with bounds that are inclusive in one place and
  exclusive in another;
- *host and device in step*: jobs that outlast the polls, answers that are lost
  after the request was obeyed, a device that restarts between two requests;
- *lengths the other side wrote*: of a descriptor, of a suffix, of a list of
  descriptors, each added to or subtracted from a size here;
- *memory and references that must be given back*, once, when an allocation, a
  string or an open fails in the middle of a list.

What makes each component correct, in a sentence: a wait succeeds only on the
strength of what the device said; a command the same, within two polls; the
segment list is the one the descriptor declares and the lookup answers the
segment of the address; a load call closes what it opened, reports the first
error, moves each byte once and in order, returns the number of them, and
returns at all; what it says was programmed or read is what the device's memory
holds or held; what a download reads of a file is in the file's buffer and is
the file less its suffix; the enumeration lists the DFU mode settings of a
device in order, gives back every descriptor, and ends; the program writes to
the device it read from what it read from it.

## The modules

    DfuTypes            vocabulary: states, statuses, error codes, requests, replies
      DfuStatus         dfu_status.c
        DfuseCommand    dfuse_command.c
        Load            what the load functions share
          LoadDfu       load_dfu.c
          LoadDfuse     load_dfuse.c   (with DfuseCommand and MemorySegment)
      DfuDevice         the device's side of the protocol
        DfuseSystem     LoadDfuse and DfuDevice, request by request
    MemorySegment       memory_segment.c, pure operators
      SegmentQueries    descriptors grown field by field, and looked up
    FirmwareTransfer    the abstract specification of a download
    DfuFile             dfu_file.c and crc32.c
    Configuration       configuration.c
      BootIo            main.c, over Configuration and DfuFile
    MC*                 instances for TLC
    *Proofs             theorems about the module of that name and those below it:
                        DfuStatus, DfuseCommand, LoadDfu, LoadDfuse, DfuseSystem,
                        MemorySegment, SegmentQueries, BootIo

**DfuTypes.** A reply is a parameter of the action that waits for it. Data
transfers return a byte count up to the length or an error in `TransferErrors`;
GETSTATUS returns a length (0 and 5 stand for the short ones) and, when whole, a
payload from `Readings`. `transfer_in` and `transfer_out` truncate the length
and block number to 16 bits (`% U16`). All error statuses are one value,
`"Failed"`: the code compares with `DfuStatus_Ok` only.

**DfuStatus.** One call is a sequence of steps, each with one transfer or one
sleep; `at` says which comes next, `fn` which function runs, `ec` is its error
code and its result once `at = "ret"`. The three loops share `NextIteration`,
their common loop condition, and `Verdict`, their common return statement. Two
things the C leaves undefined are choices: an uninitialised
`struct DeviceDfuStatus` holds any value of `StackGarbage`, and the reply libusb
writes into `get_status`'s `const` buffer is read back or not (`ConstBuffer`,
`"stored"` or `"folded"`).

**DfuseCommand.** `send_command` uses the registers of DfuStatus (`i` is
`timeout_count`, `nap` its local `timeout`); the commands differ in what they
send.

**MemorySegment.** A descriptor is a record of its fields; `Unit`, the 32-bit
product and sum, the type mask and the order of the nodes are those of
`parse_memory_segments`. `find_segment_node` is the code's search, with the last
node not tested and the end taken as inside. Text that the `scanf` formats do
not match, and memory, are left out.

**Load, LoadDfu, LoadDfuse.** `pc` is where the load function is; while
`at # "ret"` the function it called runs (`Callee`). Each `After...` action is
the code between the return of a callee and the next call or transfer. `Close`
is the label `out`, `Proceed` the `if (ec < 0) goto out;` in front of it,
`Quit` the return statements that do not pass through it. History variables:
`image` is the sequence of buffer offsets moved, `errors` the steps of this call
that failed, `exact` whether no transfer was short, `erased` the pages erased.
The block number is kept modulo U16, the only way it is used. `download_dfu`
reads `chunk_size` as a `size_t`, the DfuSe functions as a `uint16_t`; hence
the assumption on `ChunkSizes` in LoadDfuse.

**FirmwareTransfer.** A call moves the image's bytes in order and either
returns its size, with all of them moved, or an error. LoadDfuse maps its state
to it with `Phase`, `Size`, `Moved` and `Outcome`.

**DfuDevice.** The library is written for a partner the repository does not
contain: the DFU 1.1 state machine with the DfuSe commands. Its requests are
operators over the answer `r` the host hears; each is obeyed and answered,
obeyed with the answer lost, or lost itself. A DNLOAD leaves a job which the
next GETSTATUS starts; every further one finds it busy (at most `MaxBusy` times),
done or failed. A request it cannot take in its state, or a block longer than its
`TransferSize`, it stalls, and goes to dfuERROR. `Crash` restarts it in the middle of anything; a page being erased or
written is then `Foreign`, and the host's handle reaches it no more. `flash` says
which byte of the image an address holds. A write replaces what was there,
erased or not: what a device makes of a write to a page that was not erased
differs between devices, so that erasing is checked apart
(`CountIsErasedAndWritten`). `prompt` remembers that since the call began nothing was
lost, late or failed.

**DfuseSystem.** LoadDfuse with its replies bound to those of DfuDevice: each
action is one of LoadDfuse together with what the request does to the device.
The caller asks for any chunk of `ChunkSizes`, as `main` passes 1024 whatever the
descriptor says, and the device takes block `n` for the address `n - 2` of its
transfer sizes behind its pointer. `SuccessIsProgrammed` and the other properties
of the run are about chunks of the transfer size; what becomes of shorter ones is
`v_CountIsErasedAndWritten`.

**DfuFile.** A content is what the parsers tell apart of a file: its size,
whether the signature is in place, the checksum and length its suffix holds,
whether it starts like a prefix and the size it claims there. A checksum is the
sequence of the bytes that went into it, so that the loop bounds of `get_crc32`
matter and its polynomial does not. When `load_file` gets no memory, the old buffer
is freed, the sizes are those of no file, and the program ends: `memcpy` writes
through the new, null pointer before it is tested. `Restart` starts it again.

**Configuration.** A device is the bytes libusb gives of its configurations and
alternate settings. The two nested loops over the interfaces of a configuration
are one walk over its alternate settings, which therefore has all those of an
interface before any of the next (`Grouped`); `OpenFails` skips to the next
interface as the `break` does. The walk of `fill_descriptor` over the bytes of a
list is one too, a step for every descriptor (`FillGoesOn`, `FillFinds`,
`FillFails`), with the length of the list cut to eight bits; `Copied` reads a descriptor through the layout the
compiler gives `struct DfuFunctionalDescriptor`, `Garbage` standing for what lies
behind a short one. A string request that fails leaves the buffer on the stack as
it was: a name of garbage, or a buffer without an end, over which the program
crashes (`NoName`). `heap` counts nodes, names and device references.

**BootIo.** `main` with a step per call. The enumeration runs step by step; the
load functions are what LoadDfuse shows of them, which is that they return with
the handle closed and null and that an upload gives a prefix of the buffer. A
call that does not open the device leaves the handle as it was. A program that
resets the device through a null handle, or opens a file without a path, may
end there.

## The runs

| Run | Shows | Bounds |
|---|---|---|
| `Commands` | waits and commands: no success on garbage, stale or partial replies; dfuERROR is a failure; an early success is the target state; poll budgets; every call returns | the program's own budgets, 10 and 2; all combinations of six states and two statuses; a pipe error and a timeout; empty and partial replies |
| `SegmentQueries` | list as declared, also where it wraps; lookup off by one byte at most | all descriptors of up to 2 regions of up to 2 segments out of 3 fields, at 0, in the middle and 2 KiB below the top of an address space of 8 KiB, where a segment of 3 KiB runs over it; probes on and next to every bound; 21,854 states |
| `LoadDfu` | errors lost only for a block; handle leaked only by the terminating transfer; blocks in order; uploads a prefix; calls return | images of 0, 3 and 5 bytes in chunks of 2 and 3 (none, whole and partial last chunks, and two whole ones before a partial one), 16-bit counters of 8 values, waits of 2 polls, at most `MaxTurns` = 2 turns before a block that moves nothing |
| `LoadDfuse` | handle balanced; errors lost only in two places; download complete; uploads a prefix; erases allowed; no data in command blocks; refinement; calls return | images of 0, 3 and 4 bytes in chunks of 2, 16-bit counters of 4 values so that block numbers wrap, three descriptors (unnamed, erasable, readable and mixed), addresses 0 and 4 |
| `DfuseSystem` | a count a download returns is programmed at its addresses, one an upload returns was read from them; a device that is in time is never asked what it must stall, and is served; one in dfuERROR ends the call with a failure | 20 bytes in pages of 4, blocks and chunks of 2, images of 4 and 5 bytes (whole and partial last block), two layouts, addresses 0 and 4, budgets of 2 polls, jobs that outlast them by `MaxBusy` = 1, calls one after another in whatever state the last one left the device; 309,442 states |
| `FirmwareFile` | a download stays inside the buffer; heap balanced; only a suffix of this file is cut; and of the length it claims | files of 1, 7, 8, 15, 16, 24 and 32 bytes: below, at and above a prefix, a suffix and both; lengths 15, 17 and 255 in the suffix; right and empty checksums; claims that fit and do not; memory that runs out; any sequence of calls; 562 states |
| `BootIo` | descriptors given back; the list in order; which device is used; nodes freed or lost, with names and references for each; what is written back; the enumeration ends | eight lists of up to two devices out of four, with descriptors in the configuration, in the setting, on request only, too short, behind one of length 0 and beyond byte 255; four files; every call that can fail does; 13,195 states |

Waits of two polls are enough in the load runs: a load function sees of a wait
its result only, and every result is reachable with two. `Commands` checks the
waits themselves with the real budget. In `DfuseSystem` two polls let a job end
at the last one, before it and after it. `SegmentQueries` turns deadlock checking
off because descriptors stop growing at the bounds, `BootIo` because the program
comes to its end; everywhere else a new call is always possible.

The runs take `ConstBuffer = "stored"`, what a C17 build was seen to do.

Fairness. `FairCommandSpec`, `FairSpec`, `FairSystemSpec` and `BootSpec` assume
weak fairness of the host's steps: its only thread keeps running, a sleep ends,
and every control transfer ends after `bootio_transfer_timeout`, 200 ms by
default. It is not assumed that the program calls anything, nor that the device
ever does what it should: no action of DfuDevice is fair. `LoadReturns` makes one
exception, for calls in which a transfer fell short: a device that acknowledges
blocks and takes nothing of them does keep both download loops going.
`PromptDeviceIsServed` makes the other, for calls in which the device was late.

### What the code does not do

Five runs end in a violation on purpose; each states what headers or comments
say and shows a behaviour of the code that differs. Three of them state what the
documentation promises of one call or structure in two places, and end in a state
in which neither holds.

| Run | Statement | What the code does |
|---|---|---|
| `v_DownloadIsInOrder` | load.h:40 | `download_dfu` takes a partial last chunk from the wrong offset |
| `v_EraseConcludes` | load.h:92 | with equal sectors the erase loop never ends |
| `v_CountIsErasedAndWritten` | load.h:92, load_dfuse.c:19 | an image within one segment erases nothing |
| | load.h:99, :102 | chunks shorter than the device's transfer size (main.c:172 passes 1024 to every device) leave gaps between the blocks, and the count is returned |
| `v_SuccessMeansCut` | crc32.h:14, dfu_file.c:82 | the checksum of a file is that of no bytes, a valid suffix is refused |
| | dfu_file.h:104 | `load_file` returns 0 when it has understood nothing of the file, and 1 when it has |
| `v_ConfigurationIsOfDevice` | configuration.c:31 | the descriptor lands on a padded structure, its last fields one byte off |
| | main.c:175, configuration.h:19 | the device is reset through the null the load functions left in `device_handle` |

In `v_CountIsErasedAndWritten` the image of four bytes goes in two chunks of 2 to a
device of transfer size 4: no page is erased, and the second chunk lies behind a gap.
In `v_SuccessMeansCut` a file with a valid suffix is refused by both parsers, and the
result is 0. In `v_ConfigurationIsOfDevice` the board of the trace declares a transfer
size of bytes 3 and 4, the configuration has 4 and 16, and the handle is null.
`v_EraseConcludes` runs under `FairSpec`, on a device that answers in order.

Other places where code and documentation differ are stated the way the code
has them, by the properties in brackets:

- a wait whose ten polls are spent succeeds in any state with status Ok, where
  dfu_status.h:100 and :116 name one state (`EarlySuccessIsTarget` holds before
  the budget is spent, `SuccessIsProgrammed` in spite of it);
- the segment lookup does not test the last node and takes an exclusive end as
  inside, where memory_segment.h:152 promises the segment of the address
  (`LookupIsOffByOneAtMost`);
- `download_dfu` leaves the handle open when the terminator fails (load.h:42;
  `HandleLeaksAtTerminator`) and succeeds after a failed block (load.h:52;
  `OnlyBlockErrorsAreDropped`);
- the last transfer of `upload_dfuse` is a whole chunk, so that more than
  `expected_size` bytes may be written (load.h:72; `UploadSuccessIsPrefix`);
- `main` prints that the copy of the firmware could not be written and downloads
  it all the same (main.c:163; in `WriteFile`, and no property asks for the copy);
- "Dealloc all resources" (main.c:184) leaves the names and device references of the
  configurations, and the lists `confs` was overwritten over (`MemoryIsAccounted`
  counts them, `free_device_tree` frees the nodes only);
- `upload_dfuse` takes a segment only if readable is its one access bit
  (load_dfuse.c:77; in `OpenUpload`), and the name of a setting whose string
  descriptor fails is whatever was on the stack (configuration.c:179; in `Name`).

## The proofs

Every invariant and action property of the runs that pass, and the refinement, is a theorem: TLAPS
proves it for every value of the constants, that is all image sizes, chunk sizes,
poll budgets, descriptors, devices, files, sets of replies and errors, under the
named assumptions of the modules (types of the constants, errors in -99 .. -1, the
DfuSe chunk size below U16) and, where a theorem names one, a hypothesis:

| Hypothesis | Says | Why the code meets it |
|---|---|---|
| `ConstBuffer = "stored"` | `get_status` reads back what libusb stored | what a build does that does not fold the `const` buffer; nothing else is known of a reply otherwise |
| `PollsSuffice` | the same, two polls or more behind a command, and no chunk that is empty or longer than the transfer size | `timeout_number` is 2 (dfuse_command.c); with 1 the job of a prompt device outlasts the command. Chunks are the caller's affair: a device with a transfer size below `main`'s 1024 stalls them |
| `BlocksSuffice` | the chunk is the transfer size, and no size needs more than U16 - 2 of them | not enforced: other chunks go to other addresses (`v_CountIsErasedAndWritten`); beyond that many, just under 64 MiB in the program's chunks of 1024, the 16-bit block number starts over and the data goes to the first addresses again |
| `AddressesSuffice` | `Addresses` holds 0 and the starts of the segments that may be erased | the program's addresses are all 32-bit numbers |

*DfuStatusProofs*: `SuccessIsHeard`, `ErrorStateIsFailure`,
`EarlySuccessIsTarget` and `WaitTypeOK`, in builds that read back the stored
reply (the theorems assume `ConstBuffer = "stored"`). The inductive invariant
`WaitInv` ties the number of polls to the loop counter at each place of the
loop, and says that between a poll and the loop condition a code that is no
error stands for a whole reply decoded into `status`; without it, a wait waking
from the sleep behind a pipe error could not be told from one that heard an
answer. `IterationSafe` carries the loop condition, once for the three loops.

*DfuseCommandProofs*: `CommandTypeOK`, `CommandSuccessIsHeard` and
`CommandPollsBounded`, in the same builds. Commands and waits share their
registers, so the invariant is a case split: `WaitInv` and what follows from it
while a wait has them, `SendInv` while `send_command` does. The first poll of
`send_command` reads an uninitialised status when it fails; `SendInv` says that a
code which is no error and is slept over stands for a reply heard in full, which
keeps the stack's content out of the result.

*LoadDfuProofs*: `OnlyBlockErrorsAreDropped`, `UploadSuccessIsPrefix`,
`BlocksAreInOrder`, `HandleLeaksAtTerminator` and, in builds that read back the
stored reply, `TypeOK`. `download_dfu` computes a buffer position from its turn
and the chunk of that turn; `Blocks` says that their product is what was sent so
far, as long as the chunk is the caller's. It stops being so when the last chunk
is shortened, and that a chunk of 2^16 or more cannot be shortened below it
(`Wide`: what a transfer cuts off a length is a multiple of 2^16, `CutOff`) is what
makes the property hold for every chunk size. `WaitsInLoad` carries the promises
of the waits over to the calls of load_dfu.c.

*LoadDfuseProofs*: `HandleIsBalanced`, `OnlyLateErrorsAreDropped`,
`DownloadSuccessIsComplete` and `UploadSuccessIsPrefix`, for any build. None of
them is inductive. `LoadInv` adds where each step belongs (`Places`: no way to
the end of a download but through `total = expected`), that buffer head, count
and image stay in step while a call runs (`Progress`), and that a running call
has seen no error it must report (`Faults`). `Codes` is what a callee can leave
in `ec`; that it stays closed under the waits and the commands is proved from
their definitions (`StepCode`). The way out of a call is proved once (`Leave`)
and so is the way on (`GoOn`, `ProceedInv`); the actions follow from them.

Further on in the same module: `DataAvoidsCommandBlocks`, from `Numbered`: while no
transfer is short, the 16-bit count is 2 more than the number of chunks moved,
and it cannot wrap as long as bytes of an image that fits are left
(`NextNumber`). `ErasesAreAllowed`, from `Placed`: the segment erase_pages found
contains the start address (`FindsHit`, the least hit of the search) and stays the
one whose type is tested and whose start the command in flight carries. `TypeOK`
needs all of these together with `CommandInv` of DfuseCommandProofs, which
`CommandsCarried` takes over: the caller enters a command or a wait only in a
state the callee's invariant allows, and touches its registers nowhere else.
`DownloadRefines` is that every behaviour of LoadDfuse is, through the mapping,
one of FirmwareTransfer. A block that moves nothing is a stutter, one that moves
something a `Deliver`; every way out with an error a `Fail`, and the one without a
`Succeed`.

*DfuseSystemProofs*: first that the composition implements LoadDfuse
(`SystemIsLoad`), so that each invariant of the load functions, and the refinement
(`SystemTransfers`), holds of it as well. Then the lemmas `...Effect`, one for
each request: what the device may have done when the host heard this or that
answer. On them rest four invariants, each inductive over the ones before:
`Rested`, that behind a completed `abort_and_wait_idle` the device holds no job;
`Whole`, that every block is one of the length asked for while bytes are left;
`Programmed`, that between two blocks the device is jammed (busy or in dfuERROR,
where it stalls the next request) or has written the first `total` bytes, and
during one holds the job that adds the next; `Fetched`, that an upload's pointer stays at the
start address. A wait that gives up with status Ok breaks none of them: the device
still holds its job, and stalls the next block. `SuccessIsProgrammed` and
`SuccessIsFetched` follow (`DownloadProgrammed`, `UploadFetched`).
`PromptDeviceNeverStalls` is `Prompt`: as long as nothing was lost or late, host
and device are in step (`InStep` has the device's states for every place of the
host), the device's job ending at the poll that ends the wait. `ErrorEndsTheCall` is
the other side: neither load function clears an error before its first request, so a
device left in dfuERROR, by this call or the one before, lets a call get to a failure
and no further. A request it stalls ends the call, except the terminating transfer,
whose result is overwritten; in front of that stands `abort_and_wait_idle`, and
`AbortClears` says that a device behind a granted abort is not in dfuERROR. Behind
the terminating transfer the wait does send a CLRSTATUS, and the property ends there.

*MemorySegmentProofs* and *SegmentQueriesProofs*: `ParsedList`, that a parsed
descriptor is a list of segments (which the proofs of LoadDfuse use),
`ListIsDeclared` and `LookupIsOffByOneAtMost`. The parser is two nested folds, the
declaration a sum and a concatenation, so these are inductions over data. The
library's induction theorems take a predicate and cannot be used here; instead
`Induction` is stated over a set, and proved from its least element. With it, the
recursive functions inside `FoldLeft`, `FlattenSeq` and `SumFunctionOnSet` are shown
to exist (`IterationExists`, `SumExists`), and the folds to step through the
prefixes of their sequences (`SegmentsTrace`, `RegionsTrace`, `FlattenTrace`,
`SumGrows`). `Renders` is then carried from prefix to prefix: node by node the list
has the declared place modulo 2^32, because a sum of remainders wraps like the sum
(`RemainderOfSum`), which is what `ListIsDeclared` says of lists that wrap and lists
that do not. Where 32 bits hold the places the two are equal, and the lookup answers
its least hit, which `Disjoint` compares with the declared one.

*BootIoProofs*: of the firmware file, `FileTypeOK`, `FirmwareIsInBuffer`, `HeapIsBalanced`
and `SuffixIsOwn`, for files of every size and content.
Together the invariants are inductive. `SuffixFits` is the lemma they rest on: the
parser leaves no suffix or one that fits the file, of a signed file and of the
length it claims, or the smallest where no suffix can have that length.

Of the program: `NoDescriptorIsHeld`, `TargetIsMatchOrLast`, `MemoryIsAccounted`,
`WriteBackIsPrefix` and `ListIsInOrder`, for every list of
devices and every set of files. `BootInv` adds to the first four what
`find_configurations` keeps (`FindInv`: a descriptor is held as long as the walks
over it last, and a node's names and reference are not given up before the node),
that all of `confs` comes from the device looked at last, and that what is loaded
is what was read; the file's invariant is taken over. `FillSteps` says once of all
the steps that look for a descriptor that they stay with their configuration and
list nothing. `ListIsInOrder` is inductive together with
`Behind`, that the whole list lies before the setting looked at now, and `NoGap`,
that it has all the DFU mode settings of this interface before that one. Both need
`Grouped`: when an open fails the walk leaves the interface, and must not come back
to it.

Only model-checked: liveness (`CommandReturns`, `LoadReturns`,
`PromptDeviceIsServed`, `EnumerationEnds`), which is out of the prover's reach.

## Not modelled

- Without a caller in the repository: `dfu_detach`, `dfu_file_read`,
  `free_configuration`. `set_device_timeout` changes only how long
  a transfer may block, `print_devices` only prints.
- The serial number's name and the numbers of bus, vendor and product in a
  configuration, and the fields of a suffix that nobody reads.
- `dfuse_file.c` is empty. `tests/unit/test_upload.c` runs no test.
- The text of a descriptor: what `sscanf` makes of one that does not match its
  formats, `scanf_idx` (memory_segment.c:38) included, which keeps its value from
  the segment before; and running out of memory while it is parsed.
- The contents of firmware and the polynomial of its checksum; wording and
  logging; sleeping takes no time.
- A `chunk_size` of 0 or, in the DFU functions, of 65536 and more: no run takes
  one, and the safety proofs about the load functions cover both.
- Counts of 2 GiB and more, which the load functions cast to `int` (load_dfu.c:53,
  :104, load_dfuse.c:123, :188): the cast is the identity below.
- `get_crc32` of no bytes, for which its `len - 1` wraps (crc32.c:80): its caller
  passes one.
- What `strcpy` writes behind a name when the buffer it copies has no end
  (configuration.c:209, :211), up to the crash.
- Null pointers are modelled as the refusal they cause, not as values; the
  arguments asserted to be non-null are taken to be so.
- What a device makes of a write to a page that was not erased: it is not in the
  repository. Of a block it makes what DFU and DfuSe say: one longer than its
  transfer size it stalls, a shorter one it writes at the address of its number.

## Plan

Done, in this order: DfuTypes and DfuStatus, with proofs; DfuseCommand;
MemorySegment; Load with LoadDfu; LoadDfuse, its abstract specification, its
proofs and the refinement; DfuDevice and DfuseSystem; DfuFile; Configuration;
BootIo; the proofs of the commands, of LoadDfu, of LoadDfuse, of DfuFile, of
BootIo, of DfuseSystem and of the segment list.

Left:

1. LoadDfu on a device, whose blocks are numbered from 2 as DfuSe's are.
2. What liveness rests on as safety: that a step of the host is always possible
   and that the loops' measures fall, for every value of the constants.
3. Descriptor text that does not match the formats, once it is settled what the
   parser should make of it.
