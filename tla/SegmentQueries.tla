--------------------------- MODULE SegmentQueries ---------------------------
(***************************************************************************)
(* Descriptors grown field by field, each with an address to look up: what *)
(* parse_memory_segments and find_segment_node answer, against what the    *)
(* descriptor declares.                                                    *)
(***************************************************************************)
EXTENDS MemorySegment

CONSTANTS
  RegionAddresses, (* region addresses a descriptor may name               *)
  Fields,          (* segment fields a descriptor may contain              *)
  Probes,          (* addresses to look up                                 *)
  MaxRegions,      (* bound: regions of one descriptor                     *)
  MaxSegments      (* bound: segments of one region                        *)

ASSUME QueryAssumption ==
  /\ RegionAddresses \subseteq 0 .. U32 - 1
  /\ Probes \subseteq 0 .. U32 - 1
  /\ Fields \subseteq SegmentFields

VARIABLES descriptor, address

queryVars == << descriptor, address >>

list  == parse_memory_segments(descriptor)
found == find_segment_node(list, address)

QueryInit ==
  /\ descriptor = [named |-> TRUE, regions |-> << >>]
  /\ address \in Probes

AddRegion(a) ==
  /\ Len(descriptor.regions) < MaxRegions
  /\ descriptor' = [descriptor EXCEPT !.regions =
                      Append(@, [address |-> a, segments |-> << >>])]
  /\ UNCHANGED address

AddSegment(s) ==
  LET r == Len(descriptor.regions) IN
  /\ r > 0
  /\ Len(descriptor.regions[r].segments) < MaxSegments
  /\ descriptor' = [descriptor EXCEPT !.regions[r].segments = Append(@, s)]
  /\ UNCHANGED address

QueryNext ==
  \/ \E a \in RegionAddresses : AddRegion(a)
  \/ \E s \in Fields : AddSegment(s)

QuerySpec == QueryInit /\ [][QueryNext]_queryVars

-----------------------------------------------------------------------------
(* The k-th segment of region r begins where the ones before it end.       *)
Base(r, k) ==
  r.address
    + SumFunctionOnSet([j \in DOMAIN r.segments |-> SegmentSize(r.segments[j])],
                       1 .. k - 1)

RegionSegments(r) ==
  [ k \in DOMAIN r.segments |->
      [ start  |-> Base(r, k),
        end    |-> Base(r, k) + SegmentSize(r.segments[k]),
        access |-> r.segments[k].type - 96 ] ]

DeclaredSegments ==
  FlattenSeq([ r \in DOMAIN descriptor.regions |->
                 RegionSegments(descriptor.regions[r]) ])

Fits == \A k \in DOMAIN DeclaredSegments : DeclaredSegments[k].end < U32

Holds(segment, a) == segment.start <= a /\ a < segment.end

(* The parsed list is the declared one: same segments in the same order,   *)
(* each with its access bits and the place 32 bits hold of it.  A segment  *)
(* that runs over the top of the address space wraps, and the ones behind  *)
(* it in the region go on from where it wrapped to.                        *)
ListIsDeclared ==
  /\ Len(list) = Len(DeclaredSegments)
  /\ \A k \in DOMAIN list :
       /\ list[k].start = DeclaredSegments[k].start % U32
       /\ list[k].end = DeclaredSegments[k].end % U32
       /\ list[k].type = DeclaredSegments[k].access

Disjoint ==
  \A j, k \in DOMAIN DeclaredSegments :
    j < k => \/ DeclaredSegments[j].end <= DeclaredSegments[k].start
             \/ DeclaredSegments[k].end <= DeclaredSegments[j].start

(* The lookup is wrong by one byte at most: for an address some node but   *)
(* the last declares it answers that node, or one that ends at the address,*)
(* and it never answers a node the address is neither in nor at the end of.*)
LookupIsOffByOneAtMost ==
  Fits /\ Disjoint =>
    /\ found # 0 =>
         \/ Holds(DeclaredSegments[found], address)
         \/ address = DeclaredSegments[found].end
    /\ \A k \in 1 .. Len(list) - 1 :
         Holds(DeclaredSegments[k], address) =>
           found = k \/ (found # 0 /\ DeclaredSegments[found].end = address)

=============================================================================
