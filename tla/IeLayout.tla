------------------------------ MODULE IeLayout ------------------------------
(***************************************************************************)
(* Where the NetBSD drivers put things in the memory they share with the   *)
(* chip.  A front-end places the pointers the chip starts from and leaves  *)
(* the rest as a buffer area; i82586_setup_bufs cuts that up.  Addresses   *)
(* are offsets from the start of the memory; g is the geometry of a board: *)
(*   g.msize          bytes of memory                                      *)
(*   g.scp, g.scb     where the SCP and the SCB lie (the ISCP lies at 0)   *)
(*   g.area, g.size   the buffer area                                      *)
(*   g.base           the chip's address of offset 0                       *)
(*   g.bias           what the board's write24 adds to an offset           *)
(***************************************************************************)
EXTENDS Integers

IE_SCP_ADDR == 16777204   \* 0xfffff4
IE_SCP_SZ == 12
IE_ISCP_SZ == 8
IE_SCB_SZ == 16
IE_CMD_NOP_SZ == 6
IE_CMD_XMIT_SZ == 16
IE_XBD_SZ == 8
IE_RFRAME_SZ == 24
IE_RBD_SZ == 12
IE_TBUF_SIZE == 1518
IE_RBUF_SIZE == 256
B_PER_F == 3
NTXBUF == 2

Space16 == 65536      \* what a 16-bit offset reaches
Space24 == 16777216   \* what a 24-bit address reaches
-----------------------------------------------------------------------------
\* The front-ends.

\* An ISA board: its memory is the top of the chip's address space.
IsaGeometry(msize) ==
  [msize |-> msize, scp |-> msize + IE_SCP_ADDR - Space24, scb |-> IE_ISCP_SZ,
   area |-> IE_ISCP_SZ + IE_SCB_SZ,
   size |-> msize - IE_ISCP_SZ - IE_SCB_SZ - IE_SCP_SZ,
   base |-> Space24 - msize, bias |-> Space24 - msize]

\* The Sun-2's own interface: main memory at iebase, its first page double
\* mapped to the top of the space, where the chip looks for the SCP.  write24
\* adds nothing.
ObioGeometry(page, iebase) ==
  [msize |-> Space16, scp |-> IE_SCP_ADDR % page, scb |-> IE_ISCP_SZ,
   area |-> page, size |-> Space16 - page, base |-> iebase, bias |-> 0]
-----------------------------------------------------------------------------
\* i82586_setup_bufs.

Align(ptr) == 4 * ((ptr + 3) \div 4)
nop_cmds(g) == Align(g.area)
xmit_cmds(g) == nop_cmds(g) + NTXBUF * IE_CMD_NOP_SZ
xbds(g) == xmit_cmds(g) + NTXBUF * IE_CMD_XMIT_SZ
xbufs(g) == xbds(g) + NTXBUF * IE_XBD_SZ

\* (Mutant: the transmit buffers have no room for the checksum.)
RxAreaShort(g) == Align(xbufs(g) + NTXBUF * (IE_TBUF_SIZE - 4))

RxArea(g) == Align(xbufs(g) + NTXBUF * IE_TBUF_SIZE)

\* What a receive frame takes, with the buffers it is given.
FrameSize == IE_RFRAME_SZ + (IE_RBD_SZ + IE_RBUF_SIZE) * B_PER_F
nframes(g) == (g.size - (RxArea(g) - g.area)) \div FrameSize
nrxbuf(g) == nframes(g) * B_PER_F
rframes(g) == RxArea(g)
rbds(g) == rframes(g) + nframes(g) * IE_RFRAME_SZ
rbufs(g) == rbds(g) + nrxbuf(g) * IE_RBD_SZ

\* The pieces, in the order they are cut.
Place(g) == <<nop_cmds(g), xmit_cmds(g), xbds(g), xbufs(g),
              rframes(g), rbds(g), rbufs(g)>>
Extent(g) == <<NTXBUF * IE_CMD_NOP_SZ, NTXBUF * IE_CMD_XMIT_SZ,
               NTXBUF * IE_XBD_SZ, NTXBUF * IE_TBUF_SIZE,
               nframes(g) * IE_RFRAME_SZ, nrxbuf(g) * IE_RBD_SZ,
               nrxbuf(g) * IE_RBUF_SIZE>>
After(g, i) == Place(g)[i] + Extent(g)[i]
Pieces == 1..7
Control == {1, 2, 3, 5, 6}   \* the pieces the chip reaches by 16-bit offsets
-----------------------------------------------------------------------------
\* The chip's side.

\* Where the chip finds what a 16-bit offset, or an address the driver wrote
\* with write24, points to.
ByOffset(g, p) == (g.base + (p % Space16)) % Space24
ByAddress(g, p) == (p + g.bias) % Space24

\* What the driver means by offset p.
Meant(g, p) == g.base + p
-----------------------------------------------------------------------------
\* Every piece lies in the buffer area, and ends before the next begins.
InOrder(g) ==
  /\ g.area <= Place(g)[1] /\ After(g, 7) <= g.area + g.size
  /\ \A i, j \in Pieces : i < j => After(g, i) <= Place(g)[j]

\* The pointers the chip starts from are outside the buffer area.
PointersApart(g) ==
  /\ IE_ISCP_SZ <= g.scb
  /\ g.scb + IE_SCB_SZ <= g.area
  /\ \/ g.area + g.size <= g.scp
     \/ g.scb + IE_SCB_SZ <= g.scp /\ g.scp + IE_SCP_SZ <= g.area
  /\ g.scp + IE_SCP_SZ <= g.msize /\ g.area + g.size <= g.msize

\* write24 is only asked for addresses it can write in one access.
Aligned24(g) ==
  /\ \A i \in 0..(NTXBUF - 1) : (xbds(g) + i * IE_XBD_SZ + 4) % 4 = 0
  /\ \A n \in 0..(nrxbuf(g) - 1) : (rbds(g) + n * IE_RBD_SZ + 4) % 4 = 0

\* The chip finds the control blocks where the driver put them.
OffsetsReach(g) ==
  \A i \in Control : \A p \in {Place(g)[i], After(g, i) - 1} :
    ByOffset(g, p) = Meant(g, p)

\* It finds the buffers there too.
BuffersReached(g) ==
  \A i \in {4, 7} : \A p \in {Place(g)[i], After(g, i) - 1} :
    ByAddress(g, p) = Meant(g, p)

LayoutSound(g) ==
  /\ nframes(g) > 0
  /\ InOrder(g) /\ PointersApart(g) /\ Aligned24(g) /\ OffsetsReach(g)
=============================================================================
