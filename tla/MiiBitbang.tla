----------------------------- MODULE MiiBitbang -----------------------------
(***************************************************************************)
(* NetBSD's bit-banging station, wired to the same PHY.  A call is a       *)
(* script of register accesses; each one is a write of the three output    *)
(* pins and, after some of them, a read of the wire.                       *)
(***************************************************************************)
EXTENDS MdioFrame

\* WRITE(...): the clock, the bit, who drives; and what READ is for after it.
Pins(mdc, mdo, host, look) == [mdc |-> mdc, mdo |-> mdo, host |-> host, look |-> look]

\* A bit, then the clock up and down.
Clocked(mdo, host) == <<Pins(1, mdo, host, "no"), Pins(0, mdo, host, "no")>>

\* (Mutant: one clock too few.)
mii_bitbang_syncShort ==
  <<Pins(0, 1, TRUE, "no")>> \o FlattenSeq([i \in 1..(PreambleBits - 1) |-> Clocked(1, TRUE)])

mii_bitbang_sync ==
  <<Pins(0, 1, TRUE, "no")>> \o FlattenSeq([i \in 1..PreambleBits |-> Clocked(1, TRUE)])

mii_bitbang_sendbits(data, nbits) ==
  <<Pins(0, 0, TRUE, "no")>> \o
  FlattenSeq([i \in 1..nbits |->
                <<Pins(0, Bits(data, nbits)[i], TRUE, "no")>>
                  \o Clocked(Bits(data, nbits)[i], TRUE)])

Header(op, phy, reg) ==
  mii_bitbang_sync \o mii_bitbang_sendbits({0}, 2) \o mii_bitbang_sendbits(op, 2)
    \o mii_bitbang_sendbits(phy, AddrBits) \o mii_bitbang_sendbits(reg, AddrBits)

\* Let go, clock the turnaround, look for the PHY's zero, clock again, then
\* read each bit before the clock that ends it.
ReadTail ==
  <<Pins(0, 0, FALSE, "no"), Pins(1, 0, FALSE, "no"), Pins(0, 0, FALSE, "err")>>
  \o <<Pins(1, 0, FALSE, "no"), Pins(0, 0, FALSE, "bit")>>
  \o FlattenSeq([i \in 1..DataBits |->
       <<Pins(1, 0, FALSE, "no"), Pins(0, 0, FALSE, IF i < DataBits THEN "bit" ELSE "no")>>])
  \o <<Pins(0, 0, TRUE, "no")>>

mii_bitbang_readreg(phy, reg) == Header(OP_READ, phy, reg) \o ReadTail

mii_bitbang_writereg(phy, reg, val) ==
  Header(OP_WRITE, phy, reg) \o mii_bitbang_sendbits({1}, TA_BITS)
    \o mii_bitbang_sendbits(val, DataBits) \o <<Pins(0, 0, TRUE, "no")>>

Script(req) ==
  IF req.op = OP_READ THEN mii_bitbang_readreg(req.phyad, req.regad)
  ELSE mii_bitbang_writereg(req.phyad, req.regad, req.value)
=============================================================================
