--------------------------- MODULE Configuration ---------------------------
(***************************************************************************)
(* configuration.c: find_configurations lists the alternate settings of a  *)
(* device that are in DFU mode.  A device is the sequence of what libusb   *)
(* gives of its configurations; the two loops over a configuration's       *)
(* interfaces and their alternate settings are one walk over all of them.  *)
(***************************************************************************)
EXTENDS Integers, Sequences, SequencesExt

CONSTANTS
  Devices  (* sequences of devices, as libusb_get_device_list gives them   *)

DtType_Dfu == 33

(* dfu: class 0xfe and subclass 1; extra: the bytes of the descriptors     *)
(* libusb does not know; named: iInterface is not 0.                       *)
Alternate ==
  [ intf: Nat, dfu: BOOLEAN, protocol: {1, 2}, extra: Seq(0 .. 255),
    named: BOOLEAN ]

(* The loops take one interface after the other, so the walk has all the   *)
(* alternate settings of an interface before any of the next.              *)
Grouped(alts) ==
  \A i, j, k \in DOMAIN alts :
    i < j /\ j < k /\ alts[i].intf = alts[k].intf => alts[j].intf = alts[k].intf

Config ==
  { conf \in [extra: Seq(0 .. 255), alts: Seq(Alternate)] : Grouped(conf.alts) }

(* match: vendor and product are those main looks for; answer: the DFU     *)
(* descriptor the device gives when it is asked for it.                    *)
Device ==
  [match: BOOLEAN, answer: Seq(0 .. 255), configs: Seq(Config)]

ASSUME ConfigurationAssumption == Devices \subseteq Seq(Device)

VARIABLES
  find,  (* find_configurations: where it is, its device and its indices,  *)
         (* alt 0 while the configuration's own descriptors are walked     *)
  list,  (* conf_node_root and the nodes behind it                         *)
  held,  (* config descriptors libusb gave and has not got back            *)
  heap   (* nodes and names allocated and not freed, references to devices *)

confVars == << find, list, held, heap >>

-----------------------------------------------------------------------------
(* A byte behind the descriptors the copy of a short one reads.            *)
Garbage == -1

Byte(bytes, i) == IF i < Len(bytes) THEN bytes[i + 1] ELSE Garbage

(* The fields of struct DfuFunctionalDescriptor after a copy of its ten    *)
(* bytes: the compiler puts one between attributes and detach_timeout.     *)
(* sent is the descriptor itself, as the device laid it out.               *)
Copied(bytes, at) ==
  [ length |-> Byte(bytes, at), attributes |-> Byte(bytes, at + 2),
    detach_timeout |-> << Byte(bytes, at + 4), Byte(bytes, at + 5) >>,
    transfer_size |-> << Byte(bytes, at + 6), Byte(bytes, at + 7) >>,
    version |-> << Byte(bytes, at + 8), Byte(bytes, at + 9) >>,
    sent |-> SubSeq(bytes, at + 1, Len(bytes)) ]

NoDescriptor == Copied(<< >>, 0)

(* What is put right of a descriptor of an older version (dfu_found).      *)
Repaired(func_dt) ==
  CASE func_dt.length = 7 -> [func_dt EXCEPT !.version = << 0, 1 >>]
    [] func_dt.length < 9 /\ func_dt.length # 7 ->
         [func_dt EXCEPT !.version = << 0, 1 >>, !.transfer_size = << 0, 0 >>]
    [] OTHER -> func_dt

-----------------------------------------------------------------------------
NoDevice == [match |-> FALSE, answer |-> << >>, configs |-> << >>]

Conf == find.dev.configs[find.cfg]
Alts == Conf.alts
Alt == Alts[find.alt]
At(pc) == find.pc = pc

Advance == [find EXCEPT !.alt = @ + 1]

(* dfu_found: the second walk over the interfaces begins.                  *)
DfuFound(func_dt) ==
  [find EXCEPT !.pc = "list", !.alt = 1, !.func_dt = Repaired(func_dt)]

(* What fill_descriptor is called with.                                    *)
Extra == IF find.alt = 0 THEN Conf.extra ELSE Alt.extra

find_configurations(dev) ==
  /\ At("idle")
  /\ find' = [pc |-> "config", dev |-> dev, cfg |-> 1, alt |-> 0, idx |-> 0,
              func_dt |-> NoDescriptor]
  /\ list' = << >>
  /\ UNCHANGED << held, heap >>

(* libusb_get_config_descriptor fails.                                     *)
SkipConfiguration ==
  /\ At("config") /\ find.cfg <= Len(find.dev.configs)
  /\ find' = [find EXCEPT !.cfg = @ + 1]
  /\ UNCHANGED << list, held, heap >>

TakeConfiguration ==
  /\ At("config") /\ find.cfg <= Len(find.dev.configs)
  /\ held' = held + 1
  /\ find' = [find EXCEPT !.pc = "fill", !.alt = 0, !.idx = 0]
  /\ UNCHANGED << list, heap >>

(* The first walk over the interfaces.                                     *)
SearchAlternate ==
  /\ At("search") /\ find.alt <= Len(Alts)
  /\ find' = IF Alt.dfu THEN [find EXCEPT !.pc = "fill", !.idx = 0] ELSE Advance
  /\ UNCHANGED << list, held, heap >>

(* Slips the mutation runs put in the place of the definition below.       *)
FillEndsAtLength == find.idx + 1 >= Len(Extra) % 256

(* fill_descriptor's loop: at the end of the list, whose length is a       *)
(* uint8_t, and in front of a descriptor of no length, it is over.         *)
FillEnds ==
  find.idx + 1 < Len(Extra) % 256 => Extra[find.idx + 1] = 0

FillGoesOn ==
  /\ At("fill") /\ ~ FillEnds /\ Extra[find.idx + 2] # DtType_Dfu
  /\ find' = [find EXCEPT !.idx = @ + Extra[find.idx + 1]]
  /\ UNCHANGED << list, held, heap >>

FillFinds ==
  /\ At("fill") /\ ~ FillEnds /\ Extra[find.idx + 2] = DtType_Dfu
  /\ find' = DfuFound(Copied(Extra, find.idx))
  /\ UNCHANGED << list, held, heap >>

FillFails ==
  /\ At("fill") /\ FillEnds
  /\ find' = IF find.alt = 0 THEN [find EXCEPT !.pc = "search", !.alt = 1]
                             ELSE [find EXCEPT !.pc = "ask"]
  /\ UNCHANGED << list, held, heap >>

(* The device is asked for its descriptor; answered is FALSE when          *)
(* libusb_open or libusb_get_descriptor fails.                             *)
AskDevice(answered) ==
  /\ At("ask")
  /\ find' = IF answered /\ find.dev.answer # << >>
               THEN DfuFound(Copied(find.dev.answer, 0))
               ELSE [find EXCEPT !.pc = "search", !.alt = @ + 1]
  /\ UNCHANGED << list, held, heap >>

(* Slips the mutation runs put in the place of the definition below.       *)
PassForgetsIndex ==
  /\ At("list") /\ find.alt <= Len(Alts)
  /\ ~ (Alt.dfu /\ Alt.protocol = 2)
  /\ UNCHANGED confVars

PassAlternate ==
  /\ At("list") /\ find.alt <= Len(Alts)
  /\ ~ (Alt.dfu /\ Alt.protocol = 2)
  /\ find' = Advance
  /\ UNCHANGED << list, held, heap >>

Listed == At("list") /\ find.alt <= Len(Alts) /\ Alt.dfu /\ Alt.protocol = 2

(* Slips the mutation runs put in the place of the definition below.       *)
OpenFailsGoesOn ==
  /\ Listed
  /\ find' = Advance
  /\ UNCHANGED << list, held, heap >>

(* libusb_open fails: the rest of the interface is left out.               *)
OpenFails ==
  /\ Listed
  /\ find' = [find EXCEPT !.alt =
       CHOOSE k \in find.alt + 1 .. Len(Alts) + 1 :
         /\ \A j \in find.alt + 1 .. k - 1 : Alts[j].intf = Alt.intf
         /\ k <= Len(Alts) => Alts[k].intf # Alt.intf]
  /\ UNCHANGED << list, held, heap >>

(* What the buffer on the stack holds after a string was asked for: if the *)
(* request failed, what it held before, perhaps without an end (NoName).   *)
Name(named, result) ==
  CASE ~ named \/ result = 0 -> "unknown"
    [] named /\ result > 0   -> "name"
    [] OTHER                 -> "garbage"

(* Slips the mutation runs put in the place of the definition below.       *)
AppendUnreferenced(result) ==
  /\ Listed
  /\ list' = Append(list, [ dev |-> find.dev, cfg |-> find.cfg,
                            alt |-> find.alt, func_dt |-> find.func_dt,
                            alt_name |-> Name(Alt.named, result) ])
  /\ heap' = [heap EXCEPT !.nodes = @ + 1, !.names = @ + 2]
  /\ find' = Advance
  /\ UNCHANGED held

(* strcpy copies the buffers; the node is appended to the list.            *)
AppendNode(result) ==
  /\ Listed
  /\ list' = Append(list, [ dev |-> find.dev, cfg |-> find.cfg,
                            alt |-> find.alt, func_dt |-> find.func_dt,
                            alt_name |-> Name(Alt.named, result) ])
  /\ heap' = [nodes |-> heap.nodes + 1, names |-> heap.names + 2,
              refs |-> heap.refs + 1]
  /\ find' = Advance
  /\ UNCHANGED held

(* Slips the mutation runs put in the place of the definition below.       *)
NoNodeKeepsDescriptor ==
  /\ Listed
  /\ heap' = [heap EXCEPT !.nodes = @ - Len(list)]
  /\ list' = << >> /\ find' = [find EXCEPT !.pc = "idle"]
  /\ UNCHANGED held

(* malloc gives no node: the list so far is freed, and null returned.      *)
NoNode ==
  /\ Listed
  /\ heap' = [heap EXCEPT !.nodes = @ - Len(list)]
  /\ list' = << >> /\ held' = held - 1
  /\ find' = [find EXCEPT !.pc = "idle"]

(* calloc gives no name, or the buffer copied into it has no end: strcpy   *)
(* writes through null, or on behind the name.                             *)
NoName ==
  /\ Listed
  /\ find' = [find EXCEPT !.pc = "crashed"]
  /\ UNCHANGED << list, held, heap >>

EndConfiguration ==
  /\ (At("search") \/ At("list")) /\ find.alt > Len(Alts)
  /\ held' = held - 1
  /\ find' = [find EXCEPT !.pc = "config", !.cfg = @ + 1]
  /\ UNCHANGED << list, heap >>

ReturnList ==
  /\ At("config") /\ find.cfg > Len(find.dev.configs)
  /\ find' = [find EXCEPT !.pc = "idle"]
  /\ UNCHANGED << list, held, heap >>

FindStep ==
  \/ SkipConfiguration \/ TakeConfiguration
  \/ SearchAlternate \/ FillGoesOn \/ FillFinds \/ FillFails
  \/ (\E answered \in BOOLEAN : AskDevice(answered))
  \/ PassAlternate \/ OpenFails
  \/ (\E result \in {-1, 0, 1} : AppendNode(result))
  \/ NoNode \/ NoName \/ EndConfiguration \/ ReturnList

ConfigurationInit ==
  /\ find = [pc |-> "idle", dev |-> NoDevice, cfg |-> 1, alt |-> 0, idx |-> 0,
             func_dt |-> NoDescriptor]
  /\ list = << >> /\ held = 0
  /\ heap = [nodes |-> 0, names |-> 0, refs |-> 0]

-----------------------------------------------------------------------------
(* Whatever libusb or malloc refused on the way, find_configurations       *)
(* returns with every config descriptor given back, once.                  *)
NoDescriptorIsHeld ==
  /\ held \in {0, 1}
  /\ find.pc \in {"idle", "config"} => held = 0

DfuMode(alt) == alt.dfu /\ alt.protocol = 2

InOrder(s, n) ==
  LET node == s[n]
      alts == node.dev.configs[node.cfg].alts
  IN  /\ DfuMode(alts[node.alt])
      /\ n > 1 => \/ s[n - 1].cfg < node.cfg
                  \/ (s[n - 1].cfg = node.cfg /\ s[n - 1].alt < node.alt)
      /\ \A k \in 1 .. node.alt - 1 :
           alts[k].intf = alts[node.alt].intf /\ DfuMode(alts[k]) =>
             \E m \in 1 .. n - 1 : s[m].cfg = node.cfg /\ s[m].alt = k

(* Of the alternate settings in DFU mode of a configuration, an interface  *)
(* contributes the first ones and leaves no gap: when a device does not    *)
(* open, only the rest of that interface is missing (configuration.c:173). *)
ListIsInOrder == \A n \in 1 .. Len(list) : InOrder(list, n)

=============================================================================
