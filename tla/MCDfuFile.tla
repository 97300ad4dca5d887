----------------------------- MODULE MCDfuFile -----------------------------
(* Files shorter than a prefix, than a suffix and than both, and longer;   *)
(* checksums of no byte and of the file; lengths below, at and above what  *)
(* a suffix may have; claims that fit with and without a suffix.           *)
EXTENDS DfuFile

Files(sizes, signs, lengths) ==
  UNION { [ size: {n}, signed: signs, crc: { << >>, Summed(n) },
            length: lengths, marked: BOOLEAN, claim: { 0, 8 } ]
          : n \in sizes }

MCContents ==
  Files({ 1, 7, 8, 15 }, { TRUE }, { 255 })
    \cup Files({ 16, 24, 32 }, BOOLEAN, { 15, 17 })
=============================================================================
