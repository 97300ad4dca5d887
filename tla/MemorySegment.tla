--------------------------- MODULE MemorySegment ---------------------------
(***************************************************************************)
(* memory_segment.c: the list of memory segments a DfuSe device describes  *)
(* in the name of its alternate setting, for example                       *)
(*     @Internal Flash /0x08000000/1*001Ka,2*001Kg                         *)
(* A descriptor is its fields; text the scanf formats do not match is out  *)
(* of the model.  A node of the linked list is its index, NULL is 0.       *)
(***************************************************************************)
EXTENDS Integers, Sequences, SequencesExt

CONSTANT U32   (* number of values of a uint32_t: 2^32 in the program      *)

ASSUME U32Assumption == U32 \in Nat /\ U32 > 0

(* The type character, and the three access bits `& 0b111` keeps of it.    *)
Letter == [a |-> 97, b |-> 98, c |-> 99, d |-> 100, e |-> 101, f |-> 102, g |-> 103]

MemorySegmentType_Readable == 1
MemorySegmentType_Erasable == 2
MemorySegmentType_Writable == 4

Unit == [B |-> 1, K |-> 1024, M |-> 1024 * 1024]

SegmentFields ==
  [page_count: Nat, page_size: Nat, unit: DOMAIN Unit, type: 97 .. 103]

RegionFields == [address: 0 .. U32 - 1, segments: Seq(SegmentFields)]

(* named: the descriptor starts with an @ and a name.                      *)
Descriptor == [named: BOOLEAN, regions: Seq(RegionFields)]

PageSize(s) == (s.page_size * Unit[s.unit]) % U32

SegmentSize(s) == s.page_count * PageSize(s)

(* struct MemorySegment, without the links.                                *)
Segment ==
  [start: 0 .. U32 - 1, end: 0 .. U32 - 1, page_size: 0 .. U32 - 1, type: 0 .. 7]

(* Slips the mutation runs put in the place of the definition below.       *)
MemorySegmentStopsAtTop(address, s) ==
  LET end == address + SegmentSize(s) IN
  [ start |-> address, end |-> IF end < U32 THEN end ELSE U32 - 1,
    page_size |-> PageSize(s), type |-> s.type % 8 ]

MemorySegmentAt(address, s) ==
  [ start     |-> address,
    end       |-> (address + SegmentSize(s)) % U32,
    page_size |-> PageSize(s),
    type      |-> s.type % 8 ]

(* Slips the mutation runs put in the place of the definition below.       *)
ParseSegmentKeepsAddress(scan, s) ==
  [ address_start |-> scan.address_start,
    list |-> Append(scan.list, MemorySegmentAt(scan.address_start, s)) ]

(* One turn of the inner loop: append a node, move on to the next address. *)
ParseSegment(scan, s) ==
  LET segment == MemorySegmentAt(scan.address_start, s)
  IN  [address_start |-> segment.end, list |-> Append(scan.list, segment)]

ParseRegion(list, region) ==
  FoldLeft(ParseSegment, [address_start |-> region.address, list |-> list],
           region.segments).list

(* Whether the call succeeds, and the list it then returns.                *)
CanParse(descriptor) == descriptor.named

parse_memory_segments(descriptor) ==
  FoldLeft(ParseRegion, << >>, descriptor.regions)

(* Slips the mutation runs put in the place of the definition below.       *)
HitsAnyStart(list, address) ==
  { k \in 1 .. Len(list) - 1 : address <= list[k].end }

(* The nodes the search stops at: it ends before it tests the last node.   *)
Hits(list, address) ==
  { k \in 1 .. Len(list) - 1 :
      address >= list[k].start /\ address <= list[k].end }

find_segment_node(list, address) ==
  LET hits == Hits(list, address % U32)
  IN  IF hits = {} THEN 0 ELSE CHOOSE k \in hits : \A h \in hits : k <= h

next(list, node) == IF node < Len(list) THEN node + 1 ELSE 0
=============================================================================
