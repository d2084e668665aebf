------------------------------ MODULE MdioPhy ------------------------------
(***************************************************************************)
(* The PHY's end of MDIO, as the test bench's mdio_phy plays it: it follows *)
(* the frame one rising edge of MDC at a time, takes writes, and answers   *)
(* reads with the zero it owes on the turnaround and the data after it.    *)
(* What it drives changes just after a rising edge and lasts to the next.  *)
(***************************************************************************)
EXTENDS MdioFrame

CONSTANT ResetReads

ASSUME PhyAssumption == ResetReads \in Nat

VARIABLE phy

NewPhy(regs, addr) ==
  [addr |-> addr, st |-> "Preamble", count |-> 0, op |-> {}, phyad |-> {}, regad |-> {},
   data |-> {}, out |-> {}, outBit |-> 0, driving |-> FALSE, forUs |-> FALSE,
   regs |-> regs, resetSeen |-> 0]

\* The bit the PHY puts on the wire when it drives: a zero, then its data.
OutBit(p) == IF p.outBit \in p.out THEN 1 ELSE 0

\* The answer to a read is taken when its address is complete.  The reset bit
\* clears itself once it has been read often enough.
Latched(p, regad) ==
  LET value == p.regs[regad]
      resetting == regad = MII_BMCR /\ BMCR_RESET \subseteq value
      over == resetting /\ p.resetSeen >= ResetReads
  IN  [p EXCEPT !.out = value,
                !.regs[regad] = IF over THEN value \ BMCR_RESET ELSE value,
                !.resetSeen = IF resetting /\ ~over THEN @ + 1 ELSE @]

Taken(p, value) ==
  [p EXCEPT !.regs[p.regad] = value,
            !.resetSeen = IF p.regad = MII_BMCR /\ BMCR_RESET \subseteq value THEN 0 ELSE @]

Reading(p) == p.forUs /\ p.op = OP_READ
Writing(p) == p.forUs /\ p.op = OP_WRITE
Goes(p, st) == [p EXCEPT !.st = st, !.count = 0]
Counted(p) == [p EXCEPT !.count = @ + 1]

InPreamble(p, bit) == IF bit = 1 THEN p ELSE [p EXCEPT !.st = "St1"]
InSt1(p, bit) ==
  [Goes(p, IF bit = 1 THEN "Op" ELSE "Preamble") EXCEPT !.op = {}]
InOp(p, bit) ==
  LET q == [p EXCEPT !.op = ShiftIn(@, bit, 2)]
  IN  IF p.count + 1 < 2 THEN Counted(q) ELSE [Goes(q, "PhyAd") EXCEPT !.phyad = {}]
InPhyAd(p, bit) ==
  LET q == [p EXCEPT !.phyad = ShiftIn(@, bit, AddrBits)]
  IN  IF p.count + 1 < AddrBits THEN Counted(q)
      ELSE [Goes(q, "RegAd") EXCEPT !.regad = {}]
InRegAd(p, bit) ==
  LET q == [p EXCEPT !.regad = ShiftIn(@, bit, AddrBits)]
      us == [Goes(q, "Ta") EXCEPT !.forUs = q.phyad = p.addr]
  IN  IF p.count + 1 < AddrBits THEN Counted(q)
      ELSE IF Reading(us) THEN Latched(us, us.regad) ELSE us

\* (Mutant: the zero is held for both bit times of the turnaround.)
InTaLate(p, bit) ==
  IF p.count + 1 < TA_BITS THEN Counted(p)
  ELSE [Goes(p, "Data") EXCEPT !.data = {}, !.driving = Reading(p),
                               !.outBit = IF Reading(p) THEN DataBits ELSE @]

InTa(p, bit) ==
  IF p.count + 1 < TA_BITS
  THEN [Counted(p) EXCEPT !.driving = @ \/ Reading(p),
                          !.outBit = IF Reading(p) THEN DataBits ELSE @]
  ELSE [Goes(p, "Data") EXCEPT !.data = {}]
InData(p, bit) ==
  LET q == [p EXCEPT !.data = IF p.op = OP_WRITE THEN ShiftIn(@, bit, DataBits) ELSE @]
  IN  IF p.count + 1 < DataBits THEN Counted(q)
      ELSE Goes(IF Writing(q) THEN Taken(q, q.data) ELSE q, "Preamble")

\* A rising edge of MDC with `bit' on the wire.
on_rising(q, bit) ==
  LET p == [q EXCEPT !.outBit = IF q.driving /\ @ > 0 THEN @ - 1 ELSE @]
  IN  CASE p.st = "Preamble" -> InPreamble(p, bit)
        [] p.st = "St1"      -> InSt1(p, bit)
        [] p.st = "Op"       -> InOp(p, bit)
        [] p.st = "PhyAd"    -> InPhyAd(p, bit)
        [] p.st = "RegAd"    -> InRegAd(p, bit)
        [] p.st = "Ta"       -> InTa(p, bit)
        [] p.st = "Data"     -> InData(p, bit)

\* The wire is let go on the falling edge after the last data bit.
on_falling(p) ==
  [p EXCEPT !.driving = @ /\ p.st # "Preamble"]
=============================================================================
