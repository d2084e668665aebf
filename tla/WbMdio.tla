------------------------------- MODULE WbMdio -------------------------------
(***************************************************************************)
(* wb_mdio: the station a bus master drives through registers.  The bus    *)
(* moves between the edges of MDC; the divider decides how often, so here  *)
(* it moves any number of times.  The bits change on falling edges; a read *)
(* takes its bit at the end of the low period, just before MDC rises.      *)
(***************************************************************************)
EXTENDS MdioFrame

VARIABLE wb

NewStation ==
  [phyad |-> {}, regad |-> {}, is_read |-> FALSE, wdata |-> {},
   rdata |-> {}, rvalid |-> FALSE, shifter |-> <<>>, bits_left |-> 0,
   active |-> FALSE, armed |-> FALSE, o |-> 1, oe |-> FALSE]

busy == wb.active \/ wb.armed

\* REG_CTRL with the start bit: what is in flight is not started again, but
\* the address and the direction are overwritten all the same.
WriteCtrl(phyad, regad, is_read) ==
  [wb EXCEPT !.phyad = phyad, !.regad = regad, !.is_read = is_read,
             !.armed = @ \/ ~busy, !.rvalid = @ /\ busy]

WriteWdata(v) == [wb EXCEPT !.wdata = v]

frame == Ones(PreambleBits) \o <<0, 1>>
         \o (IF wb.is_read THEN <<1, 0>> ELSE <<0, 1>>)
         \o Bits(wb.phyad, AddrBits) \o Bits(wb.regad, AddrBits)
         \o <<1, 0>> \o Bits(wb.wdata, DataBits)

in_data == wb.bits_left <= DataBits

\* (Mutant: the station holds the wire into the turnaround.)
in_taLate == wb.bits_left > DataBits /\ wb.bits_left < DataBits + TA_BITS

in_ta == wb.bits_left > DataBits /\ wb.bits_left <= DataBits + TA_BITS

\* A falling edge: the first bit of a request that waited, or the next bit.
OnFalling ==
  IF wb.armed
  THEN [wb EXCEPT !.o = Head(frame), !.shifter = Tail(frame),
                  !.bits_left = FRAME_BITS, !.active = TRUE, !.armed = FALSE,
                  !.oe = TRUE]
  ELSE IF wb.active
  THEN [wb EXCEPT !.o = Head(wb.shifter), !.shifter = Tail(wb.shifter),
                  !.oe = ~(wb.is_read /\ (in_ta \/ in_data))]
  ELSE wb

\* The end of the low period, with `bit' on the wire.
Sampled(bit) ==
  IF wb.active /\ wb.is_read /\ in_data
  THEN ShiftIn(wb.rdata, bit, DataBits) ELSE wb.rdata

\* A rising edge: the last one ends the frame and lets go of the wire.
OnRising(bit) ==
  IF ~wb.active THEN wb
  ELSE IF wb.bits_left = 1
  THEN [wb EXCEPT !.rdata = Sampled(bit), !.bits_left = 0, !.active = FALSE,
                  !.oe = FALSE, !.o = 1, !.rvalid = wb.is_read]
  ELSE [wb EXCEPT !.rdata = Sampled(bit), !.bits_left = @ - 1]
=============================================================================
