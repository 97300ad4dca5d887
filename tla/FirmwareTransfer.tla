-------------------------- MODULE FirmwareTransfer --------------------------
(***************************************************************************)
(* What load.h promises of a download, and nothing of how it is done: the  *)
(* bytes of the image move in order, a call that succeeds has moved all of *)
(* them and returns their number, a call that fails returns an error.      *)
(***************************************************************************)
EXTENDS Integers, Sequences

CONSTANTS
  Images,   (* sizes of a firmware image                                   *)
  Failures  (* error codes                                                 *)

VARIABLES
  phase,    (* "idle", "moving" while a call runs, "returned"              *)
  size,     (* of the image of the call that runs or returned              *)
  moved,    (* the offsets of the bytes moved, in order                    *)
  outcome   (* what the call returned                                      *)

transferVars == << phase, size, moved, outcome >>

Bytes(first, n) == [k \in 1 .. n |-> first + k - 1]

Init ==
  /\ phase = "idle" /\ size = 0 /\ moved = << >> /\ outcome = 0

Begin ==
  /\ phase # "moving"
  /\ phase' = "moving" /\ size' \in Images
  /\ moved' = << >> /\ outcome' = 0

Deliver ==
  /\ phase = "moving"
  /\ \E n \in 1 .. size - Len(moved) :
       moved' = moved \o Bytes(Len(moved), n)
  /\ UNCHANGED << phase, size, outcome >>

(* The device has the image; the call goes on to finish the session.       *)
Succeed ==
  /\ phase = "moving" /\ Len(moved) = size
  /\ phase' = "returned" /\ outcome' = size
  /\ UNCHANGED << size, moved >>

Fail ==
  /\ phase = "moving"
  /\ phase' = "returned" /\ outcome' \in Failures
  /\ UNCHANGED << size, moved >>

(* A call of something else takes the session over.                        *)
Forget ==
  /\ phase # "moving"
  /\ phase' = "idle" /\ size' = 0 /\ moved' = << >> /\ outcome' = 0

Next == Begin \/ Deliver \/ Succeed \/ Fail \/ Forget

Spec == Init /\ [][Next]_transferVars
=============================================================================
