---------------------------- MODULE BootIoProofs ----------------------------
(***************************************************************************)
(* What load_file keeps of every file, and what the example program, which *)
(* loads one, keeps for every list of devices, every firmware and every    *)
(* refusal of libusb, malloc and the file system.                          *)
(***************************************************************************)
EXTENDS BootIo, WellFoundedInduction, TLAPS

-----------------------------------------------------------------------------
(***************************************************************************)
(* The firmware file, whatever it holds and whatever was loaded before it. *)
(***************************************************************************)
(* The suffix's parser leaves no suffix, or one of a file that is long     *)
(* enough for it, carries its signature and claims its length, or else the *)
(* smallest.                                                               *)
LEMMA SuffixFits ==
  ASSUME NEW c \in Contents
  PROVE  LET suffix == parse_dfu_suffix(c).suffix IN
         /\ suffix \in {0} \cup DfuSuffixSize .. 255
         /\ suffix <= c.size
         /\ suffix > 0 => Signed(c)
         /\ suffix > 0 =>
              suffix = IF DfuSuffixSize <= c.length /\ c.length <= c.size
                         THEN c.length ELSE DfuSuffixSize
<1>1. c.size \in Nat /\ c.size > 0 /\ c.length \in 0 .. 255 /\ c.signed \in BOOLEAN
  BY FileAssumption DEF Content
<1>2. CASE c.size < DfuSuffixSize
  BY <1>1, <1>2 DEF parse_dfu_suffix, DfuSuffixSize
<1>3. CASE c.size >= DfuSuffixSize /\ ~ c.signed
  BY <1>1, <1>3 DEF parse_dfu_suffix, DfuSuffixSize
<1>4. CASE c.size >= DfuSuffixSize /\ c.signed /\ c.crc # FileCrc(c.size)
  BY <1>1, <1>4 DEF parse_dfu_suffix, DfuSuffixSize
<1>5. CASE c.size >= DfuSuffixSize /\ c.signed /\ c.crc = FileCrc(c.size)
  <2>1. parse_dfu_suffix(c).suffix =
          IF DfuSuffixSize <= c.length /\ c.length <= c.size
            THEN c.length ELSE DfuSuffixSize
    BY <1>1, <1>5 DEF parse_dfu_suffix, DfuSuffixSize
  <2> QED
    BY <1>1, <1>5, <2>1 DEF DfuSuffixSize, Signed
<1> QED
  BY <1>1, <1>2, <1>3, <1>4, <1>5 DEF DfuSuffixSize

(* load_file's verdict is one of the two truth values.                     *)
LEMMA VerdictIsTruth ==
  ASSUME NEW c
  PROVE  Verdict(c) \in {0, 1}
BY DEF Verdict, Truth

(* The contents of no file are none of a file.                             *)
LEMMA NullIsNoFile == Null \notin Contents
BY FileAssumption DEF Null, Content

(* What every step keeps.  The sizes are those of the file in the buffer,  *)
(* which is what lets a reload forget the suffix before it.                *)
FileInv ==
  /\ FileTypeOK
  /\ FirmwareIsInBuffer
  /\ HeapIsBalanced
  /\ SuffixIsOwn

(* A structure that points to nothing, and an empty heap.                  *)
LEMMA NothingHeld ==
  ASSUME data = Null, path = FALSE, live = 0, size = NoSizes, ec \in Int,
         alive = TRUE
  PROVE  FileInv
<1>1. FileTypeOK
  <2>1. size \in [total: Nat, prefix: {0}, suffix: {0} \cup DfuSuffixSize .. 255]
    BY DEF NoSizes
  <2>2. path \in BOOLEAN /\ alive \in BOOLEAN
    OBVIOUS
  <2> QED
    BY <2>1, <2>2 DEF FileTypeOK
<1>2. HeapIsBalanced
  <2>1. Truth(data # Null) = 0 /\ Truth(path) = 0
    BY Zenon DEF Truth
  <2> QED
    BY <2>1 DEF HeapIsBalanced
<1> QED
  BY <1>1, <1>2 DEF FileInv, FirmwareIsInBuffer, SuffixIsOwn

LEMMA FileInitially == FileInit => FileInv
<1>1. 0 \in Int
  OBVIOUS
<1> QED
  BY <1>1, NothingHeld, Zenon DEF FileInit

LEMMA LoadKeeps ==
  ASSUME FileInv, NEW c \in Contents, load_file(c)
  PROVE  FileInv'
<1> DEFINE suffix == parse_dfu_suffix(c).suffix
<1>1. /\ suffix \in {0} \cup DfuSuffixSize .. 255
      /\ suffix <= c.size
      /\ suffix > 0 => Signed(c)
      /\ suffix > 0 =>
           suffix = IF DfuSuffixSize <= c.length /\ c.length <= c.size
                      THEN c.length ELSE DfuSuffixSize
  BY SuffixFits
<1>2. c.size \in Nat
  BY FileAssumption DEF Content
<1>3. data' = c /\ size' = [total |-> c.size, prefix |-> 0, suffix |-> suffix]
  BY DEF load_file, LoadedSizes
<1> HIDE DEF suffix
<1>4. live' = Truth(path) + 1 /\ path' = path /\ alive' = alive
  BY DEF load_file, OldFreed, FileInv, HeapIsBalanced, FileTypeOK, Truth
<1>5. FileTypeOK'
  <2>1. ec' \in Int
    BY VerdictIsTruth DEF load_file
  <2> QED
    BY <1>1, <1>2, <1>3, <1>4, <2>1
      DEF FileInv, FileTypeOK, DfuSuffixSize, Truth
<1>6. FirmwareIsInBuffer'
  BY <1>1, <1>2, <1>3 DEF FirmwareIsInBuffer, FirmwareSize, DfuSuffixSize
<1>7. HeapIsBalanced'
  BY <1>3, <1>4, NullIsNoFile DEF HeapIsBalanced, Truth
<1>8. SuffixIsOwn'
  BY <1>1, <1>3 DEF SuffixIsOwn
<1> QED
  BY <1>5, <1>6, <1>7, <1>8 DEF FileInv

LEMMA OtherKeeps ==
  ASSUME FileInv,
         \/ LoadRefused \/ LoadOutOfMemory \/ dfu_file_free
         \/ dfu_file_set_path \/ Restart \/ UNCHANGED fileVars
  PROVE  FileInv'
<1> USE DEF FileInv, FileTypeOK, FirmwareIsInBuffer, FirmwareSize,
            HeapIsBalanced, SuffixIsOwn, Truth
<1>1. CASE LoadRefused
  BY <1>1 DEF LoadRefused, BootIoError_InvalidParam
<1>2. CASE LoadOutOfMemory
  <2>1. data' = Null /\ size' = NoSizes /\ live' = live - Truth(data # Null)
        /\ alive' = FALSE /\ UNCHANGED << path, ec >>
    BY <1>2 DEF LoadOutOfMemory, OldFreed
  <2>2. Truth(data' # Null) = 0
    BY <2>1, Zenon DEF Truth
  <2>3. HeapIsBalanced' /\ live' \in Nat
    BY <2>1, <2>2
  <2>4. size' \in [total: Nat, prefix: {0}, suffix: {0} \cup DfuSuffixSize .. 255]
    BY <2>1 DEF NoSizes
  <2> QED
    BY <2>1, <2>3, <2>4
<1>3. CASE dfu_file_free
  <2>1. data' = Null /\ path' = FALSE /\ live' = 0
    BY <1>3 DEF dfu_file_free
  <2>2. Truth(data' # Null) = 0 /\ Truth(path') = 0
    BY <2>1, Zenon DEF Truth
  <2>3. HeapIsBalanced'
    BY <2>1, <2>2
  <2>4. path' \in BOOLEAN /\ alive' = alive /\ size' = size /\ ec' = ec
    BY <1>3, <2>1, Zenon DEF dfu_file_free
  <2>5. FileTypeOK'
    BY <2>1, <2>4
  <2> QED
    BY <2>1, <2>3, <2>5
<1>4. CASE dfu_file_set_path
  BY <1>4 DEF dfu_file_set_path
<1>5. CASE Restart
  <2>1. Truth(data' # Null) = 0 /\ Truth(path') = 0
    BY <1>5, Zenon DEF Restart, Truth
  <2>2. HeapIsBalanced'
    BY <1>5, <2>1 DEF Restart
  <2>3. size' \in [total: Nat, prefix: {0}, suffix: {0} \cup DfuSuffixSize .. 255]
    BY <1>5 DEF Restart, NoSizes
  <2>4. path' \in BOOLEAN /\ alive' \in BOOLEAN
    BY <1>5 DEF Restart
  <2>5. FileTypeOK'
    BY <1>5, <2>3, <2>4 DEF Restart
  <2> QED
    BY <1>5, <2>2, <2>5 DEF Restart
<1>6. CASE UNCHANGED fileVars
  BY <1>6 DEF fileVars
<1> QED
  BY <1>1, <1>2, <1>3, <1>4, <1>5, <1>6

(* The invariant of the firmware file, for every set of contents.          *)
THEOREM FileInvariance == FileSpec => []FileInv
<1>1. FileInv /\ [FileNext]_fileVars => FileInv'
  <2> SUFFICES ASSUME FileInv, [FileNext]_fileVars PROVE FileInv'
    OBVIOUS
  <2>1. CASE \E c \in Contents : load_file(c)
    BY <2>1, LoadKeeps
  <2>2. CASE \/ LoadRefused \/ LoadOutOfMemory \/ dfu_file_free
             \/ dfu_file_set_path \/ Restart \/ UNCHANGED fileVars
    BY <2>2, OtherKeeps
  <2> QED
    BY <2>1, <2>2 DEF FileNext
<1> QED
  BY FileInitially, <1>1, PTL DEF FileSpec

(* A download of any file that was loaded reads within its buffer.         *)
THEOREM FirmwareInBuffer == FileSpec => []FirmwareIsInBuffer
BY FileInvariance, PTL DEF FileInv

(* No order of the calls leaks a block or frees one twice.                 *)
THEOREM HeapBalance == FileSpec => []HeapIsBalanced
BY FileInvariance, PTL DEF FileInv

(* The structure's fields keep their types, the suffix its least length.   *)
THEOREM FileTypes == FileSpec => []FileTypeOK
BY FileInvariance, PTL DEF FileInv

(* What is cut off a file is its own suffix: that of a signed file, of the *)
(* length it claims, or the smallest when no suffix can have that length.  *)
THEOREM SuffixOwn == FileSpec => []SuffixIsOwn
BY FileInvariance, PTL DEF FileInv

-----------------------------------------------------------------------------
(***************************************************************************)
(* The example program.                                                    *)
(***************************************************************************)
(* What the lists hold does not matter here, only that they are sequences. *)
IsSeq(s) == \E S : s \in Seq(S)

LEMMA EmptyIsSeq == IsSeq(<< >>)
<1>1. << >> \in Seq({})
  OBVIOUS
<1> QED
  BY <1>1 DEF IsSeq

LEMMA AppendIsSeq ==
  ASSUME NEW s, IsSeq(s), NEW e
  PROVE  /\ IsSeq(Append(s, e)) /\ Len(Append(s, e)) = Len(s) + 1
         /\ Append(s, e)[1] = IF s = << >> THEN e ELSE s[1]
<1>1. PICK S : s \in Seq(S)
  BY DEF IsSeq
<1>2. s \in Seq(S \cup {e})
  BY <1>1
<1>3. /\ Append(s, e) \in Seq(S \cup {e}) /\ Len(Append(s, e)) = Len(s) + 1
      /\ Append(s, e)[1] = IF Len(s) = 0 THEN e ELSE s[1]
  BY <1>2
<1>4. Len(s) = 0 <=> s = << >>
  BY <1>1
<1> QED
  BY <1>3, <1>4 DEF IsSeq

LEMMA LenOfSeq ==
  ASSUME NEW s, IsSeq(s)
  PROVE  Len(s) \in Nat /\ (Len(s) = 0 <=> s = << >>)
BY DEF IsSeq

-----------------------------------------------------------------------------
(* find_configurations: a config descriptor is held exactly while the      *)
(* walks over it last, or the program ended in one; a node's names and its *)
(* reference are not given up before the node.                             *)
FindPlaces == {"idle", "config", "fill", "search", "ask", "list", "crashed"}

FindInv ==
  /\ { "pc", "dev", "cfg", "alt" } \subseteq DOMAIN find
  /\ find.pc \in FindPlaces
  /\ held = IF find.pc \in {"idle", "config"} THEN 0 ELSE 1
  /\ heap \in [nodes: Int, names: Int, refs: Int]
  /\ heap.nodes <= heap.refs /\ 2 * heap.nodes <= heap.names
  /\ IsSeq(list)

(* The steps that look for the descriptor of a configuration: they stay    *)
(* with it and list nothing.                                               *)
FillStep ==
  \/ SearchAlternate \/ FillGoesOn \/ FillFinds \/ FillFails
  \/ \E answered \in BOOLEAN : AskDevice(answered)

LEMMA FillSteps ==
  ASSUME { "pc", "dev", "cfg", "alt" } \subseteq DOMAIN find, FillStep
  PROVE  /\ find.pc \in {"fill", "search", "ask"}
         /\ UNCHANGED << list, held, heap >>
         /\ DOMAIN find' = DOMAIN find
         /\ find'.dev = find.dev /\ find'.cfg = find.cfg
         /\ \/ /\ find'.pc \in {"fill", "search", "ask"}
               /\ find'.alt \in {find.alt, find.alt + 1}
            \/ (find'.pc = "list" /\ find'.alt = 1)
<1>1. CASE SearchAlternate
  BY <1>1 DEF SearchAlternate, At, Advance
<1>2. CASE FillGoesOn
  BY <1>2 DEF FillGoesOn, At
<1>3. CASE FillFinds
  BY <1>3 DEF FillFinds, At, DfuFound
<1>4. CASE FillFails
  BY <1>4 DEF FillFails, At
<1>5. CASE \E answered \in BOOLEAN : AskDevice(answered)
  BY <1>5 DEF AskDevice, At, DfuFound
<1> QED
  BY <1>1, <1>2, <1>3, <1>4, <1>5 DEF FillStep

(* The list grows by nodes of the device in hand, or is given up; the heap *)
(* follows it.                                                             *)
LEMMA FindStepKeeps ==
  ASSUME FindInv, FindStep
  PROVE  /\ FindInv'
         /\ find'.dev = find.dev
         /\ heap'.nodes - Len(list') = heap.nodes - Len(list)
         /\ list' # << >> => \/ list # << >> /\ list'[1] = list[1]
                             \/ list'[1].dev = find.dev
<1> USE DEF FindInv, FindPlaces
<1>0. Len(list) \in Nat /\ Len(<< >>) = 0 /\ IsSeq(<< >>)
  BY LenOfSeq, EmptyIsSeq
<1>1. CASE SkipConfiguration
  BY <1>0, <1>1 DEF SkipConfiguration, At
<1>2. CASE TakeConfiguration
  BY <1>0, <1>2 DEF TakeConfiguration, At
<1>3. CASE FillStep
  BY <1>0, <1>3, FillSteps
<1>4. CASE PassAlternate
  BY <1>0, <1>4 DEF PassAlternate, Advance, At
<1>5. CASE OpenFails
  <2>1. PICK k : find' = [find EXCEPT !.alt = k]
    BY <1>5 DEF OpenFails
  <2> QED
    BY <1>0, <1>5, <2>1 DEF OpenFails, Listed, At
<1>6. CASE \E result \in {-1, 0, 1} : AppendNode(result)
  <2>1. PICK n : list' = Append(list, n) /\ n.dev = find.dev
    BY <1>6 DEF AppendNode
  <2>2. /\ find' = Advance /\ held' = held /\ Listed
        /\ heap' = [nodes |-> heap.nodes + 1, names |-> heap.names + 2,
                    refs |-> heap.refs + 1]
    BY <1>6 DEF AppendNode
  <2>3. /\ IsSeq(list') /\ Len(list') = Len(list) + 1
        /\ list'[1] = IF list = << >> THEN n ELSE list[1]
    BY <2>1, AppendIsSeq
  <2>4. /\ heap' \in [nodes: Int, names: Int, refs: Int]
        /\ heap'.nodes = heap.nodes + 1
        /\ heap'.nodes <= heap'.refs /\ 2 * heap'.nodes <= heap'.names
    BY <2>2
  <2>5. find'.pc = find.pc /\ find'.dev = find.dev /\ DOMAIN find' = DOMAIN find
    BY <2>2 DEF Advance
  <2>6. find.pc = "list"
    BY <2>2 DEF Listed, At
  <2>7. heap'.nodes - Len(list') = heap.nodes - Len(list)
    BY <1>0, <2>3, <2>4
  <2> QED
    BY <2>1, <2>2, <2>3, <2>4, <2>5, <2>6, <2>7
<1>7. CASE NoNode
  <2>1. /\ find.pc = "list" /\ find' = [find EXCEPT !.pc = "idle"]
        /\ list' = << >> /\ held' = held - 1
        /\ heap' = [heap EXCEPT !.nodes = @ - Len(list)]
    BY <1>7 DEF NoNode, Listed, At
  <2>2. /\ heap' \in [nodes: Int, names: Int, refs: Int]
        /\ heap'.nodes = heap.nodes - Len(list)
        /\ heap'.names = heap.names /\ heap'.refs = heap.refs
    BY <1>0, <2>1
  <2>3. heap'.nodes <= heap'.refs /\ 2 * heap'.nodes <= heap'.names
    BY <1>0, <2>2
  <2> QED
    BY <1>0, <2>1, <2>2, <2>3
<1>8. CASE NoName
  BY <1>0, <1>8 DEF NoName, Listed, At
<1>9. CASE EndConfiguration
  BY <1>0, <1>9 DEF EndConfiguration, At
<1>10. CASE ReturnList
  BY <1>0, <1>10 DEF ReturnList, At
<1> QED
  BY <1>1, <1>2, <1>3, <1>4, <1>5, <1>6, <1>7, <1>8, <1>9, <1>10
    DEF FindStep, FillStep

-----------------------------------------------------------------------------
(* main.                                                                   *)
Places ==
  { "init", "devices", "found", "upload", "path", "load", "write", "download",
    "reset", "free", "end" }

MainShape ==
  /\ main \in [pc: Places, devices: Seq(Device), i: Nat \ {0}]
  /\ lost \in Int /\ bytes \in Int
  /\ IsSeq(confs)

(* Which device confs is of, at every turn of the search.                  *)
TargetInv ==
  /\ main.pc = "init" => confs = << >> /\ main.i = 1
  /\ main.pc = "devices" =>
       /\ main.i <= Len(main.devices) + 1
       /\ confs # << >> =>
            /\ main.i > 1 /\ confs[1].dev = main.devices[main.i - 1]
            /\ ~ confs[1].dev.match
  /\ main.pc = "found" =>
       /\ main.i <= Len(main.devices)
       /\ find.dev = main.devices[main.i]
       /\ list # << >> => list[1].dev = find.dev
  /\ TargetIsMatchOrLast

(* Whose the nodes are, and that the file is empty until it is loaded.     *)
MemoryInv ==
  /\ main.pc # "found" => list = << >>
  /\ MemoryIsAccounted
  /\ main.pc \in { "init", "devices", "found", "upload" } => live = 0
  /\ main.pc \in { "init", "devices", "found", "upload", "path", "load" } =>
       data = Null

UploadedInv ==
  main.pc \in { "write", "download" } /\ data # Null => data.size = bytes

BootInv ==
  FileInv /\ FindInv /\ MainShape /\ TargetInv /\ MemoryInv /\ UploadedInv

LEMMA BootInitially == BootInit => BootInv
<1> SUFFICES ASSUME BootInit PROVE BootInv
  OBVIOUS
<1>1. FileInv /\ data = Null /\ live = 0
  BY FileInitially DEF BootInit, FileInit
<1>2. FindInv /\ list = << >> /\ heap.nodes = 0 /\ heap.names = 0 /\ heap.refs = 0
  BY EmptyIsSeq DEF BootInit, ConfigurationInit, FindInv, FindPlaces
<1>3. main \in [pc: {"init"}, devices: Devices, i: {1}] /\ confs = << >>
      /\ lost = 0 /\ bytes = 0
  BY DEF BootInit
<1>4. MainShape /\ main.pc = "init" /\ main.i = 1
  BY <1>3, EmptyIsSeq, ConfigurationAssumption DEF MainShape, Places
<1>5. TargetInv
  BY <1>3, <1>4 DEF TargetInv, TargetIsMatchOrLast, Chosen
<1>6. MemoryInv
  BY <1>1, <1>2, <1>3, <1>4 DEF MemoryInv, MemoryIsAccounted
<1> QED
  BY <1>1, <1>2, <1>4, <1>5, <1>6 DEF BootInv, UploadedInv
-----------------------------------------------------------------------------
(* A step of main's own: find_configurations and its heap stand still.     *)
LEMMA FileStands ==
  ASSUME FileInv, alive' \in BOOLEAN, UNCHANGED << data, size, path, live, ec >>
  PROVE  FileInv'
BY DEF FileInv, FileTypeOK, FirmwareIsInBuffer, FirmwareSize, HeapIsBalanced,
       SuffixIsOwn

LEMMA SearchKeeps ==
  ASSUME BootInv,
         \/ InitFails \/ libusb_init \/ SearchDevice \/ Find \/ TakeDevice
         \/ LastDevice
  PROVE  BootInv'
<1> USE DEF BootInv, MainShape, Places
<1>0. FileInv' /\ UNCHANGED << data, live, bytes >>
  <2>1. UNCHANGED fileVars
    BY DEF InitFails, libusb_init, SearchDevice, Find, TakeDevice, LastDevice, mainVars
  <2>2. UNCHANGED bytes
    BY DEF InitFails, libusb_init, SearchDevice, Find, TakeDevice, LastDevice, mainVars
  <2> QED
    BY <2>1, <2>2, OtherKeeps DEF fileVars
<1>1. CASE InitFails
  <2>1. main.pc = "init" /\ main' = [main EXCEPT !.pc = "end"]
        /\ UNCHANGED << find, list, held, heap, confs, lost >>
    BY <1>1 DEF InitFails, Running, Goto, confVars
  <2> QED
    BY <1>0, <2>1 DEF FindInv, TargetInv, TargetIsMatchOrLast, Chosen, MemoryInv,
                      MemoryIsAccounted, UploadedInv
<1>2. CASE libusb_init
  <2>1. main.pc = "init" /\ main' = [main EXCEPT !.pc = "devices"]
        /\ UNCHANGED << find, list, held, heap, confs, lost >>
    BY <1>2 DEF libusb_init, Running, Goto, confVars
  <2>2. Len(main.devices) \in Nat
    OBVIOUS
  <2> QED
    BY <1>0, <2>1, <2>2 DEF FindInv, TargetInv, TargetIsMatchOrLast, Chosen, MemoryInv,
                      MemoryIsAccounted, UploadedInv
<1>3. CASE SearchDevice
  <2>1. /\ main.pc = "devices" /\ main.i <= Len(main.devices)
        /\ main' = [main EXCEPT !.pc = "found"]
        /\ UNCHANGED << confs, lost, held, heap >>
    BY <1>3 DEF SearchDevice, Running, Goto, find_configurations
  <2>2. /\ find'.pc = "config" /\ find'.dev = main.devices[main.i]
        /\ {"pc", "dev", "cfg", "alt"} \subseteq DOMAIN find' /\ find.pc = "idle"
        /\ list' = << >>
    BY <1>3 DEF SearchDevice, find_configurations, At
  <2>3. list = << >>
    BY <2>1 DEF MemoryInv
  <2>4. FindInv'
    BY <2>1, <2>2, EmptyIsSeq DEF FindInv, FindPlaces
  <2>5. MemoryInv'
    BY <1>0, <2>1, <2>2, <2>3 DEF MemoryInv, MemoryIsAccounted
  <2>6. TargetInv'
    BY <2>1, <2>2 DEF TargetInv, TargetIsMatchOrLast, Chosen
  <2> QED
    BY <1>0, <2>1, <2>4, <2>5, <2>6 DEF UploadedInv
<1>4. CASE Find
  <2>1. main.pc = "found" /\ FindStep /\ UNCHANGED << main, confs, lost >>
    BY <1>4 DEF Find, Running, mainVars
  <2>2. /\ FindInv' /\ find'.dev = find.dev
        /\ heap'.nodes - Len(list') = heap.nodes - Len(list)
        /\ list' # << >> => \/ list # << >> /\ list'[1] = list[1]
                            \/ list'[1].dev = find.dev
    BY <2>1, FindStepKeeps
  <2>3. Len(list) \in Nat /\ Len(list') \in Nat /\ Len(confs) \in Nat
    BY <2>2, LenOfSeq DEF FindInv
  <2>4. /\ heap'.nodes \in Int /\ heap.nodes \in Int
        /\ heap'.nodes <= heap'.refs /\ 2 * heap'.nodes <= heap'.names
    BY <2>2 DEF FindInv
  <2>5. MemoryInv'
    <3>1. heap'.nodes = Len(list') + Len(confs') + lost'
      BY <2>1, <2>2, <2>3, <2>4 DEF MemoryInv, MemoryIsAccounted
    <3>2. main.pc = "found" /\ main' = main /\ data' = data /\ live' = live
      BY <1>0, <2>1
    <3> QED
      BY <2>4, <3>1, <3>2 DEF MemoryInv, MemoryIsAccounted
  <2>6. TargetInv'
    BY <2>1, <2>2 DEF TargetInv, TargetIsMatchOrLast, Chosen
  <2> QED
    BY <1>0, <2>1, <2>2, <2>5, <2>6 DEF UploadedInv
<1>5. CASE TakeDevice
  <2>1. /\ main.pc = "found" /\ confs' = list /\ lost' = lost + Len(confs)
        /\ list' = << >> /\ UNCHANGED << find, held, heap >>
    BY <1>5 DEF TakeDevice, Running, FoundConfigurations
  <2>2. main' = IF list # << >> /\ list[1].dev.match
                  THEN [main EXCEPT !.pc = "upload"]
                  ELSE [main EXCEPT !.pc = "devices", !.i = @ + 1]
    BY <1>5 DEF TakeDevice, Goto
  <2>3. Len(list) \in Nat /\ Len(confs) \in Nat /\ Len(<< >>) = 0
    BY LenOfSeq DEF FindInv
  <2>4. FindInv'
    BY <2>1, EmptyIsSeq DEF FindInv
  <2>5. MainShape'
    <3>1. IsSeq(confs')
      BY <2>1 DEF FindInv
    <3>2. lost' \in Int /\ bytes' \in Int
      BY <1>0, <2>1, <2>3
    <3>3. [main EXCEPT !.pc = "upload"] \in [pc: Places, devices: Seq(Device), i: Nat \ {0}]
      OBVIOUS
    <3>4. [main EXCEPT !.pc = "devices", !.i = @ + 1]
            \in [pc: Places, devices: Seq(Device), i: Nat \ {0}]
      <4>1. main \in [pc: Places, devices: Seq(Device), i: Nat \ {0}]
            /\ main.i + 1 \in Nat \ {0}
        OBVIOUS
      <4> QED
        BY ONLY <4>1 DEF Places
    <3> QED
      BY <2>2, <3>1, <3>2, <3>3, <3>4
  <2>6. main'.pc \in {"upload", "devices"}
    BY <2>2
  <2>7. MemoryInv'
    BY <1>0, <2>1, <2>3, <2>6 DEF MemoryInv, MemoryIsAccounted, FindInv
  <2>8. TargetInv'
    <3>1. CASE list # << >> /\ list[1].dev.match
      BY <2>1, <2>2, <3>1 DEF TargetInv, TargetIsMatchOrLast, Chosen
    <3>2. CASE ~ (list # << >> /\ list[1].dev.match)
      <4>1. main'.pc = "devices" /\ main'.i = main.i + 1
            /\ main'.devices = main.devices
        BY <2>2, <3>2
      <4>2. Len(main.devices) \in Nat
        OBVIOUS
      <4> QED
        BY <2>1, <3>2, <4>1, <4>2 DEF TargetInv, TargetIsMatchOrLast, Chosen
    <3> QED
      BY <3>1, <3>2
  <2> QED
    BY <1>0, <2>4, <2>5, <2>6, <2>7, <2>8 DEF UploadedInv
<1>6. CASE LastDevice
  <2>1. /\ main.pc = "devices" /\ main.i > Len(main.devices)
        /\ main' = [main EXCEPT !.pc = IF confs = << >> THEN "end" ELSE "upload"]
        /\ UNCHANGED << find, list, held, heap, confs, lost >>
    BY <1>6 DEF LastDevice, Running, Goto, confVars
  <2>2. /\ main'.pc = IF confs = << >> THEN "end" ELSE "upload"
        /\ main'.i = main.i /\ main'.devices = main.devices
    BY <2>1
  <2>3. Len(main.devices) \in Nat
    OBVIOUS
  <2>4. FindInv' /\ MainShape'
    BY <1>0, <2>1, <2>2 DEF FindInv
  <2>5. TargetInv'
    BY <2>1, <2>2, <2>3 DEF TargetInv, TargetIsMatchOrLast, Chosen
  <2>6. MemoryInv'
    BY <1>0, <2>1, <2>2 DEF MemoryInv, MemoryIsAccounted
  <2> QED
    BY <1>0, <2>2, <2>4, <2>5, <2>6 DEF UploadedInv
<1> QED
  BY <1>1, <1>2, <1>3, <1>4, <1>5, <1>6
(* The steps between the search and the end leave the lists alone, but for *)
(* the last, which frees the one in hand.                                  *)
LEMMA WorkKeeps ==
  ASSUME BootInv,
         \/ UploadRefused \/ UploadFails
         \/ \E n \in {0} \cup { c.size : c \in Contents } : upload_dfuse(n)
         \/ SetPath \/ LoadUploaded \/ WriteFile \/ download_dfuse
         \/ ResetDevice \/ NoReset
  PROVE  BootInv'
<1> USE DEF BootInv, MainShape, Places, TargetInv, TargetIsMatchOrLast, Chosen,
            MemoryInv, MemoryIsAccounted, UploadedInv
<1>1. UNCHANGED << find, list, held, heap, confs, lost >>
  BY DEF UploadRefused, UploadFails, upload_dfuse, SetPath, LoadUploaded, WriteFile,
         download_dfuse, ResetDevice, NoReset, confVars
<1>2. FindInv'
  BY <1>1 DEF FindInv
<1>3. confs # << >> \/ ~ Chosen
  OBVIOUS
<1>4. CASE UploadRefused
  <2>1. main.pc = "upload" /\ main' = [main EXCEPT !.pc = "end"]
        /\ UNCHANGED << data, live, bytes >> /\ UNCHANGED fileVars
    BY <1>4 DEF UploadRefused, Running, Goto, fileVars
  <2> QED
    BY <1>1, <1>2, <1>3, <2>1, OtherKeeps
<1>5. CASE UploadFails
  <2>1. main.pc = "upload" /\ main' = [main EXCEPT !.pc = "end"]
        /\ UNCHANGED << data, live, bytes >> /\ UNCHANGED fileVars
    BY <1>5 DEF UploadFails, Running, Goto, fileVars
  <2> QED
    BY <1>1, <1>2, <1>3, <2>1, OtherKeeps
<1>6. CASE \E n \in {0} \cup { c.size : c \in Contents } : upload_dfuse(n)
  <2>1. main.pc = "upload" /\ main' = [main EXCEPT !.pc = "path"]
        /\ UNCHANGED << data, live >> /\ UNCHANGED fileVars
    BY <1>6 DEF upload_dfuse, Running, Goto, fileVars
  <2>2. bytes' \in Int
    BY <1>6, FileAssumption DEF upload_dfuse, Content
  <2> QED
    BY <1>1, <1>2, <1>3, <2>1, <2>2, OtherKeeps
<1>7. CASE SetPath
  <2>1. main.pc = "path" /\ main' = [main EXCEPT !.pc = "load"]
        /\ UNCHANGED << data, bytes >> /\ dfu_file_set_path
    BY <1>7 DEF SetPath, Running, Goto, dfu_file_set_path
  <2> QED
    BY <1>1, <1>2, <1>3, <2>1, OtherKeeps
<1>8. CASE LoadUploaded
  <2>1. main.pc = "load" /\ main' = [main EXCEPT !.pc = "write"]
        /\ UNCHANGED bytes
    BY <1>8 DEF LoadUploaded, Running, Goto
  <2>2. FileInv' /\ (data' # Null => data'.size = bytes)
    <3>1. CASE LoadRefused \/ LoadOutOfMemory
      BY <2>1, <3>1, OtherKeeps DEF LoadRefused, LoadOutOfMemory
    <3>2. CASE \E c \in Contents : c.size = bytes /\ load_file(c)
      BY <3>2, LoadKeeps DEF load_file
    <3> QED
      BY <1>8, <3>1, <3>2 DEF LoadUploaded
  <2> QED
    BY <1>1, <1>2, <1>3, <2>1, <2>2
<1>9. CASE WriteFile
  <2>1. main.pc = "write" /\ main' = [main EXCEPT !.pc = "download"]
        /\ UNCHANGED << data, size, path, live, ec, bytes >>
    BY <1>9 DEF WriteFile, Running, Goto
  <2>2. alive' \in BOOLEAN
    BY <1>9, Zenon DEF WriteFile
  <2> QED
    BY <1>1, <1>2, <1>3, <2>1, <2>2, FileStands
<1>10. CASE download_dfuse
  <2>1. main.pc = "download" /\ main' = [main EXCEPT !.pc = "reset"]
        /\ UNCHANGED << data, live, bytes >> /\ UNCHANGED fileVars
    BY <1>10 DEF download_dfuse, Running, Goto, fileVars
  <2> QED
    BY <1>1, <1>2, <1>3, <2>1, OtherKeeps
<1>11. CASE ResetDevice
  <2>1. main.pc = "reset" /\ main' = [main EXCEPT !.pc = "free"]
        /\ UNCHANGED << data, size, path, live, ec, bytes >>
    BY <1>11 DEF ResetDevice, Running, Goto
  <2>2. alive' \in BOOLEAN
    BY <1>11, Zenon DEF ResetDevice
  <2> QED
    BY <1>1, <1>2, <1>3, <2>1, <2>2, FileStands
<1>12. CASE NoReset
  <2>1. main.pc = "reset" /\ main' = [main EXCEPT !.pc = "free"]
        /\ UNCHANGED << data, live, bytes >> /\ UNCHANGED fileVars
    BY <1>12 DEF NoReset, Running, Goto, fileVars
  <2> QED
    BY <1>1, <1>2, <1>3, <2>1, OtherKeeps
<1> QED
  BY <1>4, <1>5, <1>6, <1>7, <1>8, <1>9, <1>10, <1>11, <1>12

LEMMA FreeKeeps ==
  ASSUME BootInv, FreeAll
  PROVE  BootInv'
<1>1. /\ main.pc = "free" /\ main' = [main EXCEPT !.pc = "end"]
      /\ heap' = [heap EXCEPT !.nodes = heap.nodes - Len(confs)]
      /\ confs' = << >> /\ dfu_file_free
      /\ UNCHANGED << find, list, held, lost, bytes, handle >>
  BY DEF FreeAll, Running, Goto, free_device_tree
<1>2. FileInv'
  BY <1>1, OtherKeeps DEF BootInv
<1>3. data' = Null /\ live' = 0
  BY <1>1 DEF dfu_file_free, BootInv, FileInv, HeapIsBalanced, FileTypeOK, Truth
<1>4. Len(confs) \in Nat /\ Len(<< >>) = 0 /\ IsSeq(<< >>)
  BY LenOfSeq, EmptyIsSeq DEF BootInv, MainShape
<1>5. /\ heap' \in [nodes: Int, names: Int, refs: Int]
      /\ heap'.nodes = heap.nodes - Len(confs)
      /\ heap'.nodes <= heap'.refs /\ 2 * heap'.nodes <= heap'.names
  <2>1. heap \in [nodes: Int, names: Int, refs: Int]
        /\ heap.nodes <= heap.refs /\ 2 * heap.nodes <= heap.names
    BY DEF BootInv, FindInv
  <2>2. /\ heap' \in [nodes: Int, names: Int, refs: Int]
        /\ heap'.nodes = heap.nodes - Len(confs)
        /\ heap'.names = heap.names /\ heap'.refs = heap.refs
    BY <1>1, <1>4, <2>1
  <2> QED
    BY <1>4, <2>1, <2>2
<1>6. FindInv'
  BY <1>1, <1>5 DEF BootInv, FindInv
<1>7. list = << >> /\ heap.nodes = Len(list) + Len(confs) + lost /\ lost \in Int
      /\ heap.nodes \in Int
  BY <1>1 DEF BootInv, MemoryInv, MemoryIsAccounted, MainShape, FindInv
<1>8. MemoryInv'
  BY <1>1, <1>3, <1>4, <1>5, <1>7 DEF BootInv, MainShape, MemoryInv, MemoryIsAccounted
<1>9. MainShape' /\ main'.pc = "end"
  BY <1>1, <1>4 DEF BootInv, MainShape, Places
<1> QED
  BY <1>1, <1>2, <1>6, <1>8, <1>9
    DEF BootInv, TargetInv, TargetIsMatchOrLast, Chosen, UploadedInv

(* The inductive invariant of the example program.                         *)
THEOREM BootInvariance == BootSpec => []BootInv
<1>1. BootInv /\ [MainStep]_bootVars => BootInv'
  <2> SUFFICES ASSUME BootInv, [MainStep]_bootVars PROVE BootInv'
    OBVIOUS
  <2>1. CASE UNCHANGED bootVars
    <3>1. UNCHANGED fileVars /\ UNCHANGED << find, list, held, heap >>
          /\ UNCHANGED << main, confs, lost, bytes, handle >>
          /\ UNCHANGED << data, live >>
      BY <2>1 DEF bootVars, confVars, mainVars, fileVars
    <3>2. FileInv'
      BY <3>1, OtherKeeps DEF BootInv
    <3> QED
      BY <3>1, <3>2 DEF BootInv, FindInv, MainShape, TargetInv, TargetIsMatchOrLast,
                        Chosen, MemoryInv, MemoryIsAccounted, UploadedInv
  <2> QED
    BY <2>1, SearchKeeps, WorkKeeps, FreeKeeps DEF MainStep
<1> QED
  BY BootInitially, <1>1, PTL DEF BootSpec

(* find_configurations gives every config descriptor back, once.           *)
THEOREM DescriptorsGivenBack == BootSpec => []NoDescriptorIsHeld
<1>1. BootInv => NoDescriptorIsHeld
  BY DEF BootInv, FindInv, FindPlaces, NoDescriptorIsHeld
<1> QED
  BY BootInvariance, <1>1, PTL

(* The device worked on is the one looked for, or the last of the list.    *)
THEOREM TargetMatchesOrLast == BootSpec => []TargetIsMatchOrLast
<1>1. BootInv => TargetIsMatchOrLast
  BY DEF BootInv, TargetInv
<1> QED
  BY BootInvariance, <1>1, PTL

(* Every node is freed once, or lost when confs is overwritten.            *)
THEOREM MemoryAccounted == BootSpec => []MemoryIsAccounted
<1>1. BootInv => MemoryIsAccounted
  BY DEF BootInv, MemoryInv
<1> QED
  BY BootInvariance, <1>1, PTL

(* What is written back is what was read, less at most a suffix.           *)
THEOREM WriteBackPrefix == BootSpec => []WriteBackIsPrefix
<1>1. BootInv => WriteBackIsPrefix
  <2> SUFFICES ASSUME BootInv, main.pc \in {"write", "download"}, data # Null
               PROVE  /\ data.size = bytes /\ 0 <= FirmwareSize
                      /\ bytes - FirmwareSize \in {0, DfuSuffixSize, data.length}
    BY DEF WriteBackIsPrefix
  <2>1. data.size = bytes /\ bytes \in Int
    BY DEF BootInv, UploadedInv, MainShape
  <2>2. /\ size \in [total: Nat, prefix: {0}, suffix: {0} \cup DfuSuffixSize .. 255]
        /\ size.total = data.size /\ 0 <= FirmwareSize
        /\ size.suffix > 0 => size.suffix \in {DfuSuffixSize, data.length}
    BY DEF BootInv, FileInv, FileTypeOK, FirmwareIsInBuffer, SuffixIsOwn
  <2> QED
    BY <2>1, <2>2 DEF FirmwareSize, DfuSuffixSize
<1> QED
  BY BootInvariance, <1>1, PTL

-----------------------------------------------------------------------------
(***************************************************************************)
(* The order of the list.  The walk is ahead of every node listed          *)
(* (Behind), and what it passed of the interface it is in is listed, as    *)
(* far as that is in DFU mode (NoGap): when the device does not open, the  *)
(* walk leaves the interface and, Grouped, does not come back to it.       *)
(***************************************************************************)
Behind(node) ==
  /\ node.dev = find.dev /\ node.cfg \in Nat /\ node.alt \in Nat
  /\ find.pc \in {"config", "fill", "search", "ask"} => node.cfg < find.cfg
  /\ find.pc = "list" =>
       \/ node.cfg < find.cfg
       \/ (node.cfg = find.cfg /\ node.alt < find.alt)

NoGap ==
  find.pc = "list" /\ find.alt <= Len(Alts) =>
    \A k \in 1 .. find.alt - 1 :
      Alts[k].intf = Alt.intf /\ DfuMode(Alts[k]) =>
        \E m \in 1 .. Len(list) : list[m].cfg = find.cfg /\ list[m].alt = k

ListInv ==
  /\ { "pc", "dev", "cfg", "alt" } \subseteq DOMAIN find
  /\ find.cfg \in Nat \ {0} /\ find.alt \in Nat
  /\ find.pc = "list" => find.alt # 0
  /\ find.pc # "idle" => find.dev \in Device
  /\ find.pc \in {"fill", "search", "ask", "list"} => find.cfg <= Len(find.dev.configs)
  /\ \A n \in 1 .. Len(list) : Behind(list[n])
  /\ NoGap
  /\ ListIsInOrder

LEMMA Least ==
  ASSUME NEW T, T \subseteq Nat, T # {}
  PROVE  \E k \in T : \A h \in T : k <= h
<1> DEFINE R == OpToRel(<, Nat)
<1>1. \E k \in T : \A h \in T : << h, k >> \notin R
  BY NatLessThanWellFounded, WFMin
<1>2. ASSUME NEW k \in T, NEW h \in T, << h, k >> \notin R
      PROVE  k <= h
  BY <1>2 DEF OpToRel
<1> QED
  BY <1>1, <1>2

(* The end of an interface.                                                *)
LEMMA InterfaceEnds ==
  ASSUME NEW alts \in Seq(Alternate), NEW a \in 1 .. Len(alts)
  PROVE  \E k \in a + 1 .. Len(alts) + 1 :
           /\ \A j \in a + 1 .. k - 1 : alts[j].intf = alts[a].intf
           /\ k <= Len(alts) => alts[k].intf # alts[a].intf
<1> DEFINE T == { k \in a + 1 .. Len(alts) : alts[k].intf # alts[a].intf }
<1>1. CASE T = {}
  <2>1. Len(alts) + 1 \in a + 1 .. Len(alts) + 1 /\ ~ (Len(alts) + 1 <= Len(alts))
    OBVIOUS
  <2>2. \A j \in a + 1 .. (Len(alts) + 1) - 1 : alts[j].intf = alts[a].intf
    BY <1>1
  <2> QED
    BY <2>1, <2>2
<1>2. CASE T # {}
  <2> T \subseteq Nat
    OBVIOUS
  <2>1. PICK k \in T : \A h \in T : k <= h
    <3> HIDE DEF T
    <3> QED
      BY <1>2, Least
  <2>2. \A j \in a + 1 .. k - 1 : alts[j].intf = alts[a].intf
    BY <2>1
  <2> QED
    BY <2>1, <2>2
<1> QED
  BY <1>1, <1>2

LEMMA AltsOfConf ==
  ASSUME ListInv, find.pc = "list"
  PROVE  Alts \in Seq(Alternate) /\ Grouped(Alts)
<1>1. find.dev.configs \in Seq(Config) /\ find.cfg \in 1 .. Len(find.dev.configs)
  BY DEF ListInv, Device
<1>2. Conf \in Config
  BY <1>1 DEF Conf
<1> QED
  BY <1>2 DEF Alts, Config

LEMMA AppendAll ==
  ASSUME NEW s, IsSeq(s), NEW e
  PROVE  /\ Len(Append(s, e)) = Len(s) + 1 /\ Append(s, e)[Len(s) + 1] = e
         /\ \A n \in 1 .. Len(s) : Append(s, e)[n] = s[n]
<1>1. PICK S : s \in Seq(S)
  BY DEF IsSeq
<1>2. s \in Seq(S \cup {e})
  BY <1>1
<1> QED
  BY <1>2

(* A step of the walk that lists nothing.                                  *)
LEMMA WalkKeeps ==
  ASSUME ListInv, UNCHANGED list, DOMAIN find' = DOMAIN find,
         find'.dev = find.dev, find'.cfg \in Nat \ {0}, find'.alt \in Nat,
         find'.pc = "list" => find'.alt # 0,
         find'.pc # "idle" => find.pc # "idle",
         find'.pc \in {"fill", "search", "ask", "list"} =>
           find'.cfg <= Len(find.dev.configs),
         \A n \in 1 .. Len(list) : Behind(list[n])', NoGap'
  PROVE  ListInv'
BY DEF ListInv, ListIsInOrder

LEMMA TakeKeepsOrder ==
  ASSUME ListInv, SkipConfiguration \/ TakeConfiguration \/ EndConfiguration
                    \/ ReturnList
  PROVE  ListInv'
<1>1. /\ find.pc \in {"config", "search", "list"} /\ UNCHANGED list
      /\ find.cfg \in Nat \ {0} /\ find.alt \in Nat
  BY DEF SkipConfiguration, TakeConfiguration, EndConfiguration, ReturnList, At, ListInv
<1>2. /\ DOMAIN find' = DOMAIN find /\ find'.dev = find.dev
      /\ \/ (find'.pc = "config" /\ find'.cfg = find.cfg + 1 /\ find'.alt = find.alt)
         \/ (find'.pc = "idle" /\ find'.cfg = find.cfg /\ find'.alt = find.alt)
         \/ /\ find'.pc = "fill" /\ find'.alt = 0
            /\ find'.cfg = find.cfg /\ find.pc = "config"
            /\ find.cfg <= Len(find.dev.configs)
  BY DEF SkipConfiguration, TakeConfiguration, EndConfiguration, ReturnList, At, ListInv
<1>3. NoGap'
  BY <1>2 DEF NoGap
<1>4. ASSUME NEW n \in 1 .. Len(list) PROVE Behind(list[n])'
  BY <1>1, <1>2 DEF ListInv, Behind
<1> QED
  BY <1>1, <1>2, <1>3, <1>4, WalkKeeps

LEMMA FillKeepsOrder ==
  ASSUME ListInv, FillStep
  PROVE  ListInv'
<1>1. /\ find.pc \in {"fill", "search", "ask"} /\ UNCHANGED list
      /\ DOMAIN find' = DOMAIN find
      /\ find'.dev = find.dev /\ find'.cfg = find.cfg
      /\ \/ /\ find'.pc \in {"fill", "search", "ask"}
            /\ find'.alt \in {find.alt, find.alt + 1}
         \/ (find'.pc = "list" /\ find'.alt = 1)
  BY FillSteps DEF ListInv
<1>2. /\ find.cfg \in Nat \ {0} /\ find.alt \in Nat
      /\ find.cfg <= Len(find.dev.configs)
  BY <1>1 DEF ListInv
<1>3. find'.alt \in Nat
  BY <1>1, <1>2
<1>4. NoGap'
  BY <1>1 DEF NoGap
<1>5. ASSUME NEW n \in 1 .. Len(list) PROVE Behind(list[n])'
  BY <1>1 DEF ListInv, Behind
<1> QED
  BY <1>1, <1>2, <1>3, <1>4, <1>5, WalkKeeps

LEMMA PassKeepsOrder ==
  ASSUME ListInv, PassAlternate
  PROVE  ListInv'
<1>1. /\ find.pc = "list" /\ find.alt <= Len(Alts) /\ ~ DfuMode(Alt)
      /\ find' = Advance /\ UNCHANGED list
  BY DEF PassAlternate, At, DfuMode
<1>2. /\ find.cfg \in Nat \ {0} /\ find.alt \in Nat \ {0}
      /\ find.cfg <= Len(find.dev.configs)
  BY <1>1 DEF ListInv
<1>3. /\ DOMAIN find' = DOMAIN find /\ find'.dev = find.dev /\ find'.cfg = find.cfg
      /\ find'.pc = "list" /\ find'.alt = find.alt + 1
  BY <1>1 DEF Advance, ListInv
<1>4. NoGap'
  <2> SUFFICES ASSUME find.alt + 1 <= Len(Alts), NEW k \in 1 .. find.alt,
                      Alts[k].intf = Alts[find.alt + 1].intf, DfuMode(Alts[k])
               PROVE  \E m \in 1 .. Len(list) :
                        list[m].cfg = find.cfg /\ list[m].alt = k
    <3>1. Alts' = Alts /\ Alt' = Alts[find.alt + 1]
      BY <1>3 DEF Alts, Alt, Conf
    <3>2. (find.alt + 1) - 1 = find.alt
      BY <1>2
    <3> QED
      BY <1>1, <1>3, <3>1, <3>2 DEF NoGap
  <2>1. k < find.alt
    BY <1>1, <1>2 DEF Alt
  <2>2. Alts[find.alt].intf = Alts[k].intf
    BY <1>1, <1>2, <2>1, AltsOfConf DEF Grouped
  <2> QED
    BY <1>1, <1>2, <2>1, <2>2 DEF ListInv, NoGap, Alt
<1>5. ASSUME NEW n \in 1 .. Len(list) PROVE Behind(list[n])'
  BY <1>1, <1>2, <1>3 DEF ListInv, Behind
<1> QED
  BY <1>1, <1>2, <1>3, <1>4, <1>5, WalkKeeps

(* The interface left has no alternate setting behind the one the walk     *)
(* goes on with, so that nothing it left out is missed.                    *)
LEMMA OpenFailsKeepsOrder ==
  ASSUME ListInv, OpenFails
  PROVE  ListInv'
<1>1. find.pc = "list" /\ find.alt <= Len(Alts) /\ UNCHANGED list
  BY DEF OpenFails, Listed, At
<1>2. /\ find.cfg \in Nat \ {0} /\ find.alt \in Nat \ {0}
      /\ find.cfg <= Len(find.dev.configs)
  BY <1>1 DEF ListInv
<1>3. Alts \in Seq(Alternate) /\ Grouped(Alts)
  BY <1>1, AltsOfConf
<1>4. PICK k \in find.alt + 1 .. Len(Alts) + 1 :
        /\ find' = [find EXCEPT !.alt = k]
        /\ \A j \in find.alt + 1 .. k - 1 : Alts[j].intf = Alt.intf
        /\ k <= Len(Alts) => Alts[k].intf # Alt.intf
  <2>1. \E k \in find.alt + 1 .. Len(Alts) + 1 :
          /\ \A j \in find.alt + 1 .. k - 1 : Alts[j].intf = Alt.intf
          /\ k <= Len(Alts) => Alts[k].intf # Alt.intf
    <3>1. find.alt \in 1 .. Len(Alts)
      BY <1>1, <1>2, <1>3
    <3> QED
      BY <1>3, <3>1, InterfaceEnds DEF Alt
  <2> QED
    BY <2>1 DEF OpenFails
<1>5. /\ DOMAIN find' = DOMAIN find /\ find'.dev = find.dev /\ find'.cfg = find.cfg
      /\ find'.pc = "list" /\ find'.alt = k
  BY <1>1, <1>4 DEF ListInv
<1>6. NoGap'
  <2> SUFFICES ASSUME k <= Len(Alts), NEW j \in 1 .. k - 1, Alts[j].intf = Alts[k].intf
               PROVE  FALSE
    BY <1>5 DEF NoGap, Alts, Alt, Conf
  <2>1. CASE j <= find.alt
    <3>1. k \in 1 .. Len(Alts) /\ find.alt \in j .. k
      BY <1>1, <1>2, <1>3, <2>1
    <3>2. j \in 1 .. Len(Alts)
      BY <1>3, <3>1
    <3>3. Alts[find.alt].intf = Alts[k].intf
      BY <1>3, <3>1, <3>2 DEF Grouped
    <3> QED
      BY <1>4, <3>3 DEF Alt
  <2>2. CASE j > find.alt
    BY <1>2, <1>4, <2>2
  <2> QED
    BY <1>2, <2>1, <2>2
<1>7. find'.alt \in Nat \ {0} /\ find.alt <= find'.alt
  BY <1>2, <1>3, <1>5
<1>8. ASSUME NEW n \in 1 .. Len(list) PROVE Behind(list[n])'
  BY <1>1, <1>2, <1>5, <1>7 DEF ListInv, Behind
<1>9. \A n \in 1 .. Len(list) : Behind(list[n])'
  BY <1>8
<1> QED
  BY <1>1, <1>2, <1>5, <1>6, <1>7, <1>9, WalkKeeps

LEMMA OrderOfPrefix ==
  ASSUME NEW s, NEW t, NEW n \in Nat \ {0}, \A m \in 1 .. n : t[m] = s[m],
         InOrder(s, n)
  PROVE  InOrder(t, n)
<1>1. /\ t[n] = s[n] /\ (n > 1 => t[n - 1] = s[n - 1])
      /\ \A m \in 1 .. n - 1 : t[m] = s[m]
  OBVIOUS
<1> QED
  BY <1>1, ZenonT(40) DEF InOrder

(* The node listed is the next in the order, and no gap is left before it. *)
LEMMA AppendKeepsOrder ==
  ASSUME ListInv, IsSeq(list), NEW result \in {-1, 0, 1}, AppendNode(result)
  PROVE  ListInv'
<1>1. /\ find.pc = "list" /\ find.alt <= Len(Alts) /\ DfuMode(Alt)
      /\ find' = Advance
  BY DEF AppendNode, Listed, At, DfuMode
<1>2. /\ find.cfg \in Nat \ {0} /\ find.alt \in Nat \ {0}
      /\ find.cfg <= Len(find.dev.configs)
  BY <1>1 DEF ListInv
<1>3. /\ DOMAIN find' = DOMAIN find /\ find'.dev = find.dev /\ find'.cfg = find.cfg
      /\ find'.pc = "list" /\ find'.alt = find.alt + 1
  BY <1>1 DEF Advance, ListInv
<1>4. PICK node : /\ list' = Append(list, node) /\ node.dev = find.dev
                  /\ node.cfg = find.cfg /\ node.alt = find.alt
  BY DEF AppendNode
<1>5. /\ Len(list) \in Nat /\ Len(list') = Len(list) + 1 /\ list'[Len(list) + 1] = node
      /\ \A n \in 1 .. Len(list) : list'[n] = list[n]
  BY <1>4, AppendAll, LenOfSeq
<1>6. ASSUME NEW n \in 1 .. Len(list') PROVE Behind(list[n])'
  <2>1. CASE n \in 1 .. Len(list)
    <3>1. Behind(list[n]) /\ list'[n] = list[n]
      BY <1>5, <2>1 DEF ListInv
    <3> QED
      BY <1>1, <1>2, <1>3, <3>1 DEF Behind
  <2>2. CASE n = Len(list) + 1
    BY <1>2, <1>3, <1>4, <1>5, <2>2 DEF Behind
  <2> QED
    BY <1>5, <2>1, <2>2
<1>7. NoGap'
  <2>1. Alts' = Alts /\ Alt' = Alts[find.alt + 1] /\ (find.alt + 1) - 1 = find.alt
    BY <1>2, <1>3 DEF Alts, Alt, Conf
  <2> SUFFICES ASSUME find.alt + 1 <= Len(Alts), NEW k \in 1 .. find.alt,
                      Alts[k].intf = Alts[find.alt + 1].intf, DfuMode(Alts[k])
               PROVE  \E m \in 1 .. Len(list') :
                        list'[m].cfg = find.cfg /\ list'[m].alt = k
    BY <1>3, <2>1 DEF NoGap
  <2>2. CASE k = find.alt
    BY <1>4, <1>5, <2>2
  <2>3. CASE k < find.alt
    <3>1. Alts[find.alt].intf = Alts[k].intf
      <4>1. Alts \in Seq(Alternate) /\ Grouped(Alts)
        BY <1>1, AltsOfConf
      <4>2. /\ k \in DOMAIN Alts /\ find.alt \in DOMAIN Alts
            /\ find.alt + 1 \in DOMAIN Alts /\ find.alt < find.alt + 1
        BY <1>1, <1>2, <4>1
      <4> QED
        BY <2>3, <4>1, <4>2 DEF Grouped
    <3>2. PICK m \in 1 .. Len(list) : list[m].cfg = find.cfg /\ list[m].alt = k
      <4>1. k \in 1 .. find.alt - 1 /\ Alts[k].intf = Alt.intf
        BY <1>2, <2>3, <3>1 DEF Alt
      <4> QED
        BY <1>1, <4>1 DEF ListInv, NoGap
    <3> QED
      BY <1>5, <3>2
  <2>4. k = find.alt \/ k < find.alt
    BY <1>2
  <2> QED
    BY <2>2, <2>3, <2>4
<1>8. ListIsInOrder'
  <2> SUFFICES ASSUME NEW n \in 1 .. Len(list') PROVE InOrder(list', n)
    BY DEF ListIsInOrder
  <2>1. CASE n \in 1 .. Len(list)
    <3>1. InOrder(list, n)
      BY <2>1 DEF ListInv, ListIsInOrder
    <3>2. \A m \in 1 .. n : list'[m] = list[m]
      BY <1>5, <2>1
    <3> QED
      BY <2>1, <3>1, <3>2, OrderOfPrefix
  <2>2. CASE n = Len(list) + 1
    <3>1. list'[n].dev.configs[list'[n].cfg].alts = Alts /\ Alts[list'[n].alt] = Alt
      BY <1>4, <1>5, <2>2 DEF Alts, Alt, Conf
    <3>2. list'[n].cfg = find.cfg /\ list'[n].alt = find.alt /\ n - 1 = Len(list)
      BY <1>4, <1>5, <2>2
    <3>3. n > 1 => Behind(list[n - 1]) /\ list'[n - 1] = list[n - 1]
      BY <1>5, <2>2 DEF ListInv
    <3>4. n > 1 => \/ list'[n - 1].cfg < find.cfg
                   \/ (list'[n - 1].cfg = find.cfg /\ list'[n - 1].alt < find.alt)
      BY <1>1, <3>3 DEF Behind
    <3>5. ASSUME NEW k \in 1 .. find.alt - 1, Alts[k].intf = Alt.intf, DfuMode(Alts[k])
          PROVE  \E m \in 1 .. n - 1 : list'[m].cfg = find.cfg /\ list'[m].alt = k
      <4>1. PICK m \in 1 .. Len(list) : list[m].cfg = find.cfg /\ list[m].alt = k
        BY <1>1, <3>5 DEF ListInv, NoGap
      <4> QED
        BY <1>5, <3>2, <4>1
    <3> QED
      BY <1>1, <3>1, <3>2, <3>4, <3>5 DEF InOrder
  <2> QED
    BY <1>5, <2>1, <2>2
<1>9. /\ find.dev \in Device /\ { "pc", "dev", "cfg", "alt" } \subseteq DOMAIN find'
      /\ find'.cfg \in Nat \ {0} /\ find'.alt \in Nat \ {0}
      /\ find'.cfg <= Len(find'.dev.configs)
  BY <1>1, <1>2, <1>3 DEF ListInv
<1> QED
  BY <1>3, <1>6, <1>7, <1>8, <1>9 DEF ListInv

LEMMA FindKeepsOrder ==
  ASSUME ListInv, IsSeq(list), FindStep
  PROVE  ListInv'
<1>1. CASE NoNode
  <2>1. /\ find' = [find EXCEPT !.pc = "idle"] /\ list' = << >> /\ Len(<< >>) = 0
    BY <1>1 DEF NoNode
  <2> QED
    BY <2>1 DEF ListInv, NoGap, ListIsInOrder
<1>2. CASE NoName
  <2>1. /\ find' = [find EXCEPT !.pc = "crashed"] /\ UNCHANGED list /\ find.pc = "list"
    BY <1>2 DEF NoName, Listed, At
  <2>2. /\ DOMAIN find' = DOMAIN find /\ find'.dev = find.dev /\ find'.cfg = find.cfg
        /\ find'.alt = find.alt /\ find'.pc = "crashed"
    BY <2>1 DEF ListInv
  <2>3. \A n \in 1 .. Len(list) : Behind(list[n])'
    BY <2>1, <2>2 DEF ListInv, Behind
  <2>4. NoGap'
    BY <2>2 DEF NoGap
  <2> QED
    BY <2>1, <2>2, <2>3, <2>4, WalkKeeps DEF ListInv
<1> QED
  BY <1>1, <1>2, TakeKeepsOrder, FillKeepsOrder, PassKeepsOrder, OpenFailsKeepsOrder,
     AppendKeepsOrder DEF FindStep, FillStep

LEMMA MainKeepsOrder ==
  ASSUME BootInv, ListInv, [MainStep]_bootVars
  PROVE  ListInv'
<1>1. CASE Find
  BY <1>1, FindKeepsOrder DEF Find, BootInv, FindInv
<1>2. CASE SearchDevice
  <2>1. /\ main.i \in 1 .. Len(main.devices) /\ main.devices \in Seq(Device)
    BY <1>2 DEF SearchDevice, BootInv, MainShape
  <2>2. /\ find'.pc = "config" /\ find'.dev = main.devices[main.i]
        /\ find'.cfg = 1 /\ find'.alt = 0
        /\ { "pc", "dev", "cfg", "alt" } \subseteq DOMAIN find'
        /\ list' = << >> /\ Len(<< >>) = 0
    BY <1>2 DEF SearchDevice, find_configurations
  <2> QED
    BY <2>1, <2>2 DEF ListInv, NoGap, ListIsInOrder
<1>3. CASE TakeDevice
  <2>1. find' = find /\ list' = << >> /\ find.pc = "idle" /\ Len(<< >>) = 0
    BY <1>3 DEF TakeDevice, At
  <2> QED
    BY <2>1, SMTT(30) DEF ListInv, NoGap, ListIsInOrder
<1>4. CASE UNCHANGED << find, list >>
  BY <1>4, ZenonT(40) DEF ListInv, NoGap, ListIsInOrder, Behind, Alts, Alt, Conf
<1>5. \/ Find \/ SearchDevice \/ TakeDevice \/ UNCHANGED << find, list >>
  BY DEF MainStep, InitFails, libusb_init, LastDevice, UploadRefused, UploadFails,
         upload_dfuse, SetPath, LoadUploaded, WriteFile, download_dfuse, ResetDevice,
         NoReset, FreeAll, bootVars, confVars
<1> QED
  BY <1>1, <1>2, <1>3, <1>4, <1>5

LEMMA OrderInitially == BootInit => ListInv
<1> SUFFICES ASSUME BootInit PROVE ListInv
  OBVIOUS
<1>1. /\ find = [pc |-> "idle", dev |-> NoDevice, cfg |-> 1, alt |-> 0,
                 idx |-> 0, func_dt |-> NoDescriptor]
      /\ list = << >> /\ Len(<< >>) = 0
  BY DEF BootInit, ConfigurationInit
<1> QED
  BY <1>1 DEF ListInv, NoGap, ListIsInOrder

(* The list has the alternate settings in DFU mode in the order of the     *)
(* device's, each once, and of an interface the first ones without a gap,  *)
(* whichever opens and allocations fail in find_configurations.            *)
THEOREM ListInOrder == BootSpec => []ListIsInOrder
<1>1. BootInv /\ ListInv /\ [MainStep]_bootVars => ListInv'
  BY MainKeepsOrder
<1>2. ListInv => ListIsInOrder
  BY DEF ListInv
<1> QED
  BY <1>1, <1>2, OrderInitially, BootInvariance, PTL DEF BootSpec
=============================================================================
