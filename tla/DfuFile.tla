------------------------------ MODULE DfuFile ------------------------------
(***************************************************************************)
(* dfu_file.c and crc32.c: a firmware file in memory, the suffix at its    *)
(* end and the prefix at its start.  A file's content is what the parsers  *)
(* tell apart of it; a checksum is the sequence of bytes that went into    *)
(* it, so that two are equal when they cover the same bytes.               *)
(***************************************************************************)
EXTENDS Integers, Sequences, SequencesExt

CONSTANTS
  U32,      (* number of values of a uint32_t                              *)
  Contents  (* the contents of the files loaded                            *)

DfuSuffixSize == 16
DfuPrefixSize == 8

(* signed: the signature is in its place; crc, length: these fields of the *)
(* suffix; marked: bytes 0 and 1 are those of a prefix; claim: bytes 4-7.  *)
Content ==
  [ size: Nat, signed: BOOLEAN, crc: Seq(Nat), length: 0 .. 255,
    marked: BOOLEAN, claim: 0 .. U32 - 1 ]

(* The contents behind a null pointer.                                     *)
Null == [ size |-> 0, signed |-> FALSE, crc |-> << >>, length |-> 0,
          marked |-> FALSE, claim |-> 0 ]

ASSUME FileAssumption ==
  /\ U32 \in Nat /\ U32 > 255
  /\ Contents \subseteq { c \in Content : c.size > 0 }

VARIABLES
  data,   (* file->data, Null when there is none                          *)
  size,   (* file->size                                                   *)
  path,   (* whether file->path is set                                    *)
  live,   (* blocks of the heap the file's functions have not freed       *)
  ec,     (* what load_file returned last                                 *)
  alive   (* whether the program runs: a write through null ends it       *)

fileVars == << data, size, path, live, ec, alive >>

BootIoError_Success == 0
BootIoError_InvalidParam == -98
BootIoError_Other == -99
BootIoError_File == -100

NoSizes == [total |-> 0, prefix |-> 0, suffix |-> 0]

-----------------------------------------------------------------------------
(* crc32.c: `for (int i = 0; i < len - 1; i++)`, for a len of 1 or more, as *)
(* parse_dfu_suffix passes it: with 0 the size_t would wrap.               *)
crc32_byte(accum, byte) == Append(accum, byte)

get_crc32(crc, buf, len) ==
  FoldLeft(crc32_byte, crc, [i \in 1 .. len - 1 |-> buf + i - 1])

(* The checksum a suffix should hold: of all the bytes in front of it.     *)
Summed(n) == [i \in 1 .. n - 4 |-> i - 1]

(* parse_dfu_suffix passes the bytes one at a time.                        *)
FileCrc(n) ==
  FoldLeft(LAMBDA crc, i : get_crc32(crc, i, 1), << >>, Summed(n))

(* Slips the mutation runs put in the place of the definition below.       *)
SuffixLengthUnchecked(c) ==
  CASE c.size < DfuSuffixSize      -> [ec |-> BootIoError_InvalidParam, suffix |-> 0]
    [] ~ c.signed \/ c.crc # FileCrc(c.size) -> [ec |-> BootIoError_File, suffix |-> 0]
    [] OTHER                       -> [ec |-> BootIoError_Success, suffix |-> c.length]

SuffixSignatureUnchecked(c) ==
  IF c.size < DfuSuffixSize THEN [ec |-> BootIoError_InvalidParam, suffix |-> 0]
  ELSE IF c.crc # FileCrc(c.size) THEN [ec |-> BootIoError_File, suffix |-> 0]
  ELSE IF DfuSuffixSize <= c.length /\ c.length <= c.size
    THEN [ec |-> BootIoError_Success, suffix |-> c.length]
    ELSE [ec |-> BootIoError_File, suffix |-> DfuSuffixSize]

(* parse_dfu_suffix, of a file whose sizes load_file has reset.  The three *)
(* BootIoError_File_ codes are one.  A bad length counts as the least one. *)
parse_dfu_suffix(c) ==
  CASE c.size < DfuSuffixSize      -> [ec |-> BootIoError_InvalidParam, suffix |-> 0]
    [] c.size >= DfuSuffixSize /\ ~ c.signed ->
         [ec |-> BootIoError_File, suffix |-> 0]
    [] c.size >= DfuSuffixSize /\ c.signed /\ c.crc # FileCrc(c.size) ->
         [ec |-> BootIoError_File, suffix |-> 0]
    [] OTHER ->
         IF DfuSuffixSize <= c.length /\ c.length <= c.size
           THEN [ec |-> BootIoError_Success, suffix |-> c.length]
           ELSE [ec |-> BootIoError_File, suffix |-> DfuSuffixSize]

(* parse_dfu_prefix: the size it compares with is a uint32_t, and 0 stands *)
(* for the field of a file that has no prefix.                             *)
parse_dfu_prefix(c, suffix) ==
  IF c.size < DfuPrefixSize THEN BootIoError_InvalidParam
  ELSE IF (c.size - suffix - DfuPrefixSize) % U32 = IF c.marked THEN c.claim ELSE 0
    THEN BootIoError_Success
    ELSE BootIoError_File

Truth(b) == IF b THEN 1 ELSE 0

(* parse_raw_data: the results are compared with 0 before they are used.   *)
Verdict(c) ==
  LET ec_suffix == Truth(parse_dfu_suffix(c).ec = 0)
      ec_prefix == Truth(parse_dfu_prefix(c, parse_dfu_suffix(c).suffix) = 0)
  IN  IF ec_suffix = 0 THEN ec_prefix ELSE ec_suffix

-----------------------------------------------------------------------------
LoadRefused ==
  /\ alive
  /\ ec' = BootIoError_InvalidParam
  /\ UNCHANGED << data, size, path, live, alive >>

(* Slips the mutation runs put in the place of the definition below.       *)
LoadKeepsSuffix(c) ==
  [ total |-> c.size, prefix |-> 0,
    suffix |-> IF parse_dfu_suffix(c).suffix > 0 THEN parse_dfu_suffix(c).suffix
               ELSE size.suffix ]

(* The sizes load_file leaves: reset, then set by the suffix's parser.     *)
LoadedSizes(c) ==
  [total |-> c.size, prefix |-> 0, suffix |-> parse_dfu_suffix(c).suffix]

(* Slips the mutation runs put in the place of the definition below.       *)
FreeForgetsOld == live

(* dfu_file_fill frees the old buffer before it asks for a new one.        *)
OldFreed == live - Truth(data # Null)

load_file(c) ==
  /\ alive
  /\ data' = c /\ size' = LoadedSizes(c) /\ live' = OldFreed + 1
  /\ ec' = Verdict(c)
  /\ UNCHANGED << path, alive >>

(* Slips the mutation runs put in the place of the definition below.       *)
OutOfMemoryKeepsPointer ==
  /\ alive
  /\ size' = NoSizes /\ live' = OldFreed
  /\ alive' = FALSE
  /\ UNCHANGED << data, path, ec >>

(* malloc gives no buffer: memcpy writes through null before the test, the *)
(* sizes reset and the old buffer freed.                                   *)
LoadOutOfMemory ==
  /\ alive
  /\ data' = Null /\ size' = NoSizes /\ live' = OldFreed
  /\ alive' = FALSE
  /\ UNCHANGED << path, ec >>

dfu_file_free ==
  /\ alive
  /\ live' = live - Truth(data # Null) - Truth(path)
  /\ data' = Null /\ path' = FALSE
  /\ UNCHANGED << size, ec, alive >>

(* strdup may fail.                                                        *)
dfu_file_set_path ==
  /\ alive
  /\ path' \in BOOLEAN
  /\ live' = live - Truth(path) + Truth(path')
  /\ UNCHANGED << data, size, ec, alive >>

FileInit ==
  /\ data = Null /\ size = NoSizes /\ path = FALSE
  /\ live = 0 /\ ec = 0 /\ alive = TRUE

(* A program that crashed is started again.                                *)
Restart ==
  /\ ~ alive
  /\ data' = Null /\ size' = NoSizes /\ path' = FALSE
  /\ live' = 0 /\ ec' = 0 /\ alive' = TRUE

FileNext ==
  \/ LoadRefused \/ (\E c \in Contents : load_file(c)) \/ LoadOutOfMemory
  \/ dfu_file_free \/ dfu_file_set_path \/ Restart

FileSpec == FileInit /\ [][FileNext]_fileVars

-----------------------------------------------------------------------------
(* The structure's fields and the heap are within their types; a suffix    *)
(* has at least the length of the smallest (dfu_file.c:128).               *)
FileTypeOK ==
  /\ data \in Contents \cup {Null}
  /\ size \in [total: Nat, prefix: {0}, suffix: {0} \cup DfuSuffixSize .. 255]
  /\ path \in BOOLEAN /\ alive \in BOOLEAN
  /\ live \in Nat /\ ec \in Int

(* What download_dfuse sends of the file: load_dfuse.c:138 and :145.       *)
FirmwareSize == size.total - size.suffix - size.prefix

(* The bytes a download reads lie inside the buffer, and their number, a   *)
(* difference of unsigned sizes, does not wrap: whatever was loaded before *)
(* and whatever the file says of its own suffix.                           *)
FirmwareIsInBuffer ==
  data # Null =>
    /\ size.total = data.size
    /\ 0 <= FirmwareSize /\ size.prefix + FirmwareSize <= data.size

(* Nothing is leaked or freed twice, over reloads and in any order of the  *)
(* calls: the live blocks are those the structure points to.               *)
HeapIsBalanced == live = Truth(data # Null) + Truth(path)

Signed(c) == c.size >= DfuSuffixSize /\ c.signed

(* The suffix cut off is the loaded file's own, whatever was loaded before *)
(* it: of a file that carries the signature, and of the length it claims,  *)
(* or of the smallest length there is when it claims less than that or     *)
(* more than its size (dfu_file.c:128).                                    *)
SuffixIsOwn ==
  data # Null /\ size.suffix > 0 =>
    /\ Signed(data)
    /\ size.suffix = IF DfuSuffixSize <= data.length /\ data.length <= data.size
                       THEN data.length ELSE DfuSuffixSize

-----------------------------------------------------------------------------
(* What the headers say of these functions and the code does not do.       *)

Valid(c) ==
  /\ Signed(c) /\ c.crc = Summed(c.size)
  /\ DfuSuffixSize <= c.length /\ c.length <= c.size

(* dfu_file.h:104, load_file "returns BootIoError_Success (0) on success", *)
(* and crc32.h:14, get_crc32 "iterates through the buffer": behind a load  *)
(* that returns 0, the valid suffix of the file has been recognised, and   *)
(* cut.                                                                    *)
SuccessMeansCut ==
  data # Null /\ Valid(data) /\ ec = BootIoError_Success =>
    size.suffix = data.length
=============================================================================
