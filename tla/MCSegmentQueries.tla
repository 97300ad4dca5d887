-------------------------- MODULE MCSegmentQueries --------------------------
(* Descriptors of up to two regions in an address space of 8 KiB; the probes *)
(* are on, next to and between the segment bounds.                         *)
EXTENDS SegmentQueries

(* From the last one, three kilobytes run over the top and wrap.           *)
MCRegionAddresses == { 0, 4096, 6144 }

MCProbes == { 0, 1, 511, 512, 513, 1535, 1536, 3072, 4095, 4096, 4608, 5120, 7168, 8191 }

MCFields ==
  { [page_count |-> 2, page_size |-> 256, unit |-> "B", type |-> Letter.a],
    [page_count |-> 1, page_size |-> 1, unit |-> "K", type |-> Letter.g],
    [page_count |-> 3, page_size |-> 1, unit |-> "K", type |-> Letter.d] }
=============================================================================
