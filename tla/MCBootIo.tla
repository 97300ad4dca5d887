------------------------------ MODULE MCBootIo -----------------------------
(* Devices with a descriptor in the configuration, in an alternate setting *)
(* behind another one, only on request, too short, behind one of no length *)
(* and beyond what a byte counts; with the interfaces a loop leaves early. *)
EXTENDS BootIo

Dfu(attributes) == << 9, 33, attributes, 1, 2, 3, 4, 16, 1 >>
Old == << 7, 33, 4, 1, 2, 3, 4 >>
Other == << 2, 5 >>
Long == << 250, 5 >> \o [i \in 1 .. 248 |-> 0]

A(intf, dfu, protocol, extra, named) ==
  [intf |-> intf, dfu |-> dfu, protocol |-> protocol, extra |-> extra, named |-> named]

D(match, answer, configs) == [match |-> match, answer |-> answer, configs |-> configs]

C(extra, alts) == [extra |-> extra, alts |-> alts]

Board ==
  D(TRUE, << >>, << C(Dfu(4), << A(1, TRUE, 2, << >>, TRUE), A(1, TRUE, 2, << >>, FALSE),
                                A(2, FALSE, 2, << >>, TRUE), A(2, TRUE, 2, << >>, TRUE) >>) >>)

Plain == D(FALSE, Dfu(0), << C(<< >>, << A(1, TRUE, 1, << >>, TRUE), A(1, TRUE, 2, << >>, TRUE) >>),
                            C(<< 0, 33 >>, << A(1, TRUE, 2, Other \o Old, FALSE) >>) >>)

Short == D(TRUE, << 9, 33 >>, << C(Long \o Dfu(4), << A(1, TRUE, 2, Long \o << 2, 33 >>, TRUE) >>) >>)

Mouse == D(FALSE, << >>, << C(Other \o << 0, 5 >>, << A(1, FALSE, 1, << >>, TRUE) >>) >>)

MCDevices ==
  { << >>, << Board >>, << Plain >>, << Short >>, << Mouse, Board >>, << Plain, Board >>,
    << Plain, Mouse >>, << Mouse, Plain >> }

File(n, signed, length) ==
  [size |-> n, signed |-> signed, crc |-> << >>, length |-> length, marked |-> FALSE, claim |-> 0]

MCContents == { File(7, FALSE, 0), File(32, TRUE, 17), File(32, TRUE, 255), File(32, FALSE, 20) }
=============================================================================
