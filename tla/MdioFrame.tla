----------------------------- MODULE MdioFrame -----------------------------
(***************************************************************************)
(* The clause 22 frame: a preamble of ones, the 01 start delimiter, the    *)
(* opcode, the PHY's and the register's address, two bit times of          *)
(* turnaround, the data.  A word is the set of the bits set in it, bit 0   *)
(* its least significant; it is sent most significant bit first.           *)
(***************************************************************************)
EXTENDS Integers, Sequences, SequencesExt

CONSTANTS PreambleBits, AddrBits, DataBits,
          MII_BMCR, MII_ADVERTISE, MII_CTRL1000

ASSUME FrameAssumption ==
  /\ PreambleBits \in Nat /\ AddrBits \in Nat \ {0} /\ DataBits \in Nat \ {0}
  /\ {MII_BMCR, MII_ADVERTISE, MII_CTRL1000} \subseteq SUBSET (0..(AddrBits - 1))

BITS == {0, 1}
OP_READ == {1}
OP_WRITE == {0}
TA_BITS == 2
FRAME_BITS == PreambleBits + 4 + 2 * AddrBits + TA_BITS + DataBits
BMCR_RESET == {DataBits - 1}

AllOnes == 0..(DataBits - 1)
Registers == SUBSET (0..(AddrBits - 1))
Values == SUBSET AllOnes

Bits(v, n) == [i \in 1..n |-> IF n - i \in v THEN 1 ELSE 0]
Ones(n) == [i \in 1..n |-> 1]
ShiftIn(v, bit, n) == {i \in 0..(n - 1) : IF i = 0 THEN bit = 1 ELSE i - 1 \in v}

\* A request: the operation, whom it is for, and what a write writes.
Requests == [op : {OP_READ, OP_WRITE}, phyad : Registers, regad : Registers,
             value : Values]
NoRequest == [op |-> {}, phyad |-> {}, regad |-> {}, value |-> {}]
=============================================================================
