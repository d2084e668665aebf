---------------------------- MODULE LayoutProof ----------------------------
(***************************************************************************)
(* The layout for every board: whatever the size of the memory, the pieces *)
(* i82586_setup_bufs cuts lie one after another inside the buffer area,    *)
(* where the chip finds them.  And autoconfiguration, whatever is plugged  *)
(* in: who gets which card, and what is left held.                         *)
(***************************************************************************)
EXTENDS Autoconf, TLAPS

\* A geometry with a buffer area that starts on a word.
Geometry(g) ==
  /\ g.area \in Nat /\ g.size \in Nat /\ g.base \in Nat /\ g.bias \in Nat
  /\ g.scp \in Nat /\ g.scb \in Nat /\ g.msize \in Nat

LEMMA Sizes ==
  /\ IE_SCP_ADDR = 16777204 /\ IE_SCP_SZ = 12 /\ IE_ISCP_SZ = 8
  /\ IE_SCB_SZ = 16 /\ IE_CMD_NOP_SZ = 6 /\ IE_CMD_XMIT_SZ = 16
  /\ IE_XBD_SZ = 8 /\ IE_RFRAME_SZ = 24 /\ IE_RBD_SZ = 12
  /\ IE_TBUF_SIZE = 1518 /\ IE_RBUF_SIZE = 256 /\ B_PER_F = 3 /\ NTXBUF = 2
  /\ Space16 = 65536 /\ Space24 = 16777216
BY DEF IE_SCP_ADDR, IE_SCP_SZ, IE_ISCP_SZ, IE_SCB_SZ, IE_CMD_NOP_SZ,
       IE_CMD_XMIT_SZ, IE_XBD_SZ, IE_RFRAME_SZ, IE_RBD_SZ, IE_TBUF_SIZE,
       IE_RBUF_SIZE, B_PER_F, NTXBUF, Space16, Space24

\* Rounding up to a word.
LEMMA AlignUp ==
  ASSUME NEW p \in Nat
  PROVE  /\ Align(p) \in Nat /\ p <= Align(p) /\ Align(p) <= p + 3
         /\ Align(p) % 4 = 0
BY DEF Align

\* Where the transmit side's pieces lie.
LEMMA TransmitSide ==
  ASSUME NEW g, Geometry(g)
  PROVE  /\ nop_cmds(g) \in Nat /\ g.area <= nop_cmds(g)
         /\ nop_cmds(g) <= g.area + 3 /\ nop_cmds(g) % 4 = 0
         /\ xmit_cmds(g) = nop_cmds(g) + 12
         /\ xbds(g) = nop_cmds(g) + 44
         /\ xbufs(g) = nop_cmds(g) + 60
         /\ RxArea(g) = nop_cmds(g) + 3096
<1>1. /\ nop_cmds(g) \in Nat /\ g.area <= nop_cmds(g)
      /\ nop_cmds(g) <= g.area + 3 /\ nop_cmds(g) % 4 = 0
  BY AlignUp DEF Geometry, nop_cmds
<1>2. /\ xmit_cmds(g) = nop_cmds(g) + 12
      /\ xbds(g) = nop_cmds(g) + 44
      /\ xbufs(g) = nop_cmds(g) + 60
  BY <1>1, Sizes DEF xmit_cmds, xbds, xbufs
<1>3. RxArea(g) = nop_cmds(g) + 3096
  BY <1>1, <1>2, Sizes DEF RxArea, Align
<1> QED BY <1>1, <1>2, <1>3

\* The receive side takes 828 bytes a frame of what is left.
LEMMA ReceiveSide ==
  ASSUME NEW g, Geometry(g), nframes(g) > 0
  PROVE  /\ nframes(g) \in Nat /\ nrxbuf(g) = nframes(g) * 3
         /\ rframes(g) = RxArea(g)
         /\ rbds(g) = RxArea(g) + nframes(g) * 24
         /\ rbufs(g) = RxArea(g) + nframes(g) * 60
         /\ RxArea(g) + nframes(g) * 828 <= g.area + g.size
<1> DEFINE left == g.size - (RxArea(g) - g.area)
<1>1. left \in Int /\ RxArea(g) \in Nat
  BY TransmitSide DEF Geometry
<1>2. nframes(g) = left \div 828
  BY Sizes DEF nframes, FrameSize
<1> HIDE DEF left
<1>3. nframes(g) \in Nat /\ nframes(g) * 828 <= left
  BY <1>1, <1>2
<1>4. /\ nrxbuf(g) = nframes(g) * 3 /\ rframes(g) = RxArea(g)
      /\ rbds(g) = RxArea(g) + nframes(g) * 24
      /\ rbufs(g) = RxArea(g) + nframes(g) * 60
  BY <1>1, <1>3, Sizes DEF nrxbuf, rframes, rbds, rbufs
<1> QED BY <1>1, <1>3, <1>4 DEF left, Geometry
-----------------------------------------------------------------------------
\* The pieces as numbers, for the theorems below.
LEMMA Cut ==
  ASSUME NEW g, Geometry(g), nframes(g) > 0
  PROVE  /\ Place(g) = <<nop_cmds(g), nop_cmds(g) + 12, nop_cmds(g) + 44,
                         nop_cmds(g) + 60, nop_cmds(g) + 3096,
                         nop_cmds(g) + 3096 + nframes(g) * 24,
                         nop_cmds(g) + 3096 + nframes(g) * 60>>
         /\ Extent(g) = <<12, 32, 16, 3036, nframes(g) * 24, nframes(g) * 36,
                          nframes(g) * 768>>
         /\ nop_cmds(g) \in Nat /\ nframes(g) \in Nat
<1>1. nop_cmds(g) \in Nat /\ nframes(g) \in Nat
  BY TransmitSide, ReceiveSide
<1>2. /\ xmit_cmds(g) = nop_cmds(g) + 12 /\ xbds(g) = nop_cmds(g) + 44
      /\ xbufs(g) = nop_cmds(g) + 60 /\ rframes(g) = nop_cmds(g) + 3096
      /\ rbds(g) = nop_cmds(g) + 3096 + nframes(g) * 24
      /\ rbufs(g) = nop_cmds(g) + 3096 + nframes(g) * 60
  BY TransmitSide, ReceiveSide
<1>3. /\ NTXBUF * IE_CMD_NOP_SZ = 12 /\ NTXBUF * IE_CMD_XMIT_SZ = 32
      /\ NTXBUF * IE_XBD_SZ = 16 /\ NTXBUF * IE_TBUF_SIZE = 3036
      /\ nframes(g) * IE_RFRAME_SZ = nframes(g) * 24
  BY Sizes
<1>4. nrxbuf(g) * IE_RBD_SZ = nframes(g) * 36 /\ nrxbuf(g) * IE_RBUF_SIZE = nframes(g) * 768
  BY <1>1, ReceiveSide, Sizes
<1> QED BY <1>1, <1>2, <1>3, <1>4 DEF Place, Extent

\* Whatever area a front-end hands over, its pieces lie in it one after
\* another: no descriptor and no buffer is ever part of another
\* (i82586_setup_bufs, step 1).
THEOREM PiecesInOrder ==
  \A g : Geometry(g) /\ nframes(g) > 0 => InOrder(g)
<1> SUFFICES ASSUME NEW g, Geometry(g), nframes(g) > 0
             PROVE  InOrder(g)
  OBVIOUS
<1> DEFINE a == nop_cmds(g)  n == nframes(g)
<1>1. a \in Nat /\ n \in Nat
  BY Cut
<1>2. g.area <= a /\ a + 3096 + n * 828 <= g.area + g.size
  BY TransmitSide, ReceiveSide
<1>3. /\ Place(g) = <<a, a + 12, a + 44, a + 60, a + 3096, a + 3096 + n * 24,
                      a + 3096 + n * 60>>
      /\ Extent(g) = <<12, 32, 16, 3036, n * 24, n * 36, n * 768>>
  BY Cut
<1>4. /\ After(g, 1) = Place(g)[2] /\ After(g, 2) = Place(g)[3]
      /\ After(g, 3) = Place(g)[4] /\ After(g, 4) = Place(g)[5]
      /\ After(g, 5) = Place(g)[6] /\ After(g, 6) = Place(g)[7]
      /\ After(g, 7) = a + 3096 + n * 828
  BY <1>1, <1>3 DEF After
<1>5. /\ \A i \in Pieces : Place(g)[i] \in Nat /\ After(g, i) \in Nat
      /\ Place(g)[1] <= Place(g)[2] /\ Place(g)[2] <= Place(g)[3]
      /\ Place(g)[3] <= Place(g)[4] /\ Place(g)[4] <= Place(g)[5]
      /\ Place(g)[5] <= Place(g)[6] /\ Place(g)[6] <= Place(g)[7]
  BY <1>1, <1>3 DEF After, Pieces
<1> HIDE DEF a, n
<1>6. \A i, j \in Pieces : i < j => After(g, i) <= Place(g)[j]
  BY <1>4, <1>5 DEF Pieces
<1>7. g.area <= Place(g)[1] /\ After(g, 7) <= g.area + g.size
  BY <1>2, <1>3, <1>4 DEF a, n
<1> QED BY <1>6, <1>7 DEF InOrder

\* The fields written with write24 lie on words (i82586var.h's promise to the
\* front-ends).
THEOREM WordsAligned ==
  \A g : Geometry(g) /\ nframes(g) > 0 => Aligned24(g)
<1> SUFFICES ASSUME NEW g, Geometry(g), nframes(g) > 0
             PROVE  Aligned24(g)
  OBVIOUS
<1>1. nop_cmds(g) \in Nat /\ nop_cmds(g) % 4 = 0 /\ nframes(g) \in Nat
  BY TransmitSide, ReceiveSide
<1>2. xbds(g) = nop_cmds(g) + 44 /\ rbds(g) = nop_cmds(g) + 3096 + nframes(g) * 24
  BY TransmitSide, ReceiveSide
<1>3. \A i \in Nat : (xbds(g) + i * 8 + 4) % 4 = 0
  BY <1>1, <1>2
<1>4. \A k \in Nat : (rbds(g) + k * 12 + 4) % 4 = 0
  BY <1>1, <1>2
<1>5. 0..(NTXBUF - 1) \subseteq Nat /\ 0..(nrxbuf(g) - 1) \subseteq Nat
  OBVIOUS
<1> QED BY <1>3, <1>4, <1>5, Sizes DEF Aligned24

\* The reason setup_bufs gives for its order: control blocks come first so
\* that a 16-bit offset reaches them, in memories far larger than 64K.
THEOREM ControlFirst ==
  \A g : /\ Geometry(g) /\ nframes(g) > 0
         /\ g.area <= 4096 /\ g.size <= 800000
         => \A i \in Control : After(g, i) <= Space16
<1> SUFFICES ASSUME NEW g, Geometry(g), nframes(g) > 0,
                    g.area <= 4096, g.size <= 800000
             PROVE  \A i \in Control : After(g, i) <= Space16
  OBVIOUS
<1>1. nop_cmds(g) \in Nat /\ nop_cmds(g) <= 4099 /\ nframes(g) \in Nat
  BY TransmitSide, ReceiveSide DEF Geometry
<1>2. nframes(g) <= 970
  BY <1>1, TransmitSide, ReceiveSide DEF Geometry
<1> QED BY <1>1, <1>2, Cut, Sizes DEF After, Control
-----------------------------------------------------------------------------
\* Every piece but the receive buffers ends in the area.
LEMMA ControlInArea ==
  ASSUME NEW g, Geometry(g), nframes(g) > 0, NEW i \in Control
  PROVE  /\ Place(g)[i] \in Nat /\ After(g, i) - 1 \in Nat
         /\ Place(g)[i] < g.area + g.size
         /\ After(g, i) - 1 < g.area + g.size
<1> DEFINE a == nop_cmds(g)  n == nframes(g)
<1>1. a \in Nat /\ n \in Nat /\ n > 0
  BY Cut
<1>2. a + 3096 + n * 828 <= g.area + g.size /\ g.area + g.size \in Nat
  BY TransmitSide, ReceiveSide DEF Geometry
<1>3. /\ Place(g) = <<a, a + 12, a + 44, a + 60, a + 3096, a + 3096 + n * 24,
                      a + 3096 + n * 60>>
      /\ Extent(g) = <<12, 32, 16, 3036, n * 24, n * 36, n * 768>>
  BY Cut
<1> HIDE DEF a, n
<1>4. CASE i = 1 BY <1>1, <1>2, <1>3, <1>4 DEF After
<1>5. CASE i = 2 BY <1>1, <1>2, <1>3, <1>5 DEF After
<1>6. CASE i = 3 BY <1>1, <1>2, <1>3, <1>6 DEF After
<1>7. CASE i = 5 BY <1>1, <1>2, <1>3, <1>7 DEF After
<1>8. CASE i = 6 BY <1>1, <1>2, <1>3, <1>8 DEF After
<1> QED BY <1>4, <1>5, <1>6, <1>7, <1>8 DEF Control

LEMMA Residue ==
  ASSUME NEW m \in Nat, NEW p \in Nat, p < m
  PROVE  p % m = p
OBVIOUS

\* An area that fits a 16-bit offset, and ends inside the address space.
LEMMA OffsetsInSpace ==
  ASSUME NEW g, Geometry(g), nframes(g) > 0,
         g.area + g.size <= Space16, g.base + g.area + g.size <= Space24
  PROVE  OffsetsReach(g)
<1>1. SUFFICES ASSUME NEW i \in Control,
                      NEW p \in {Place(g)[i], After(g, i) - 1}
               PROVE  ByOffset(g, p) = Meant(g, p)
  BY SMT DEF OffsetsReach
<1>2. p \in Nat /\ p < g.area + g.size
  BY ControlInArea
<1>3. /\ g.base \in Nat /\ g.area \in Nat /\ g.size \in Nat
      /\ Space16 \in Nat /\ Space24 \in Nat
  BY SMT, Sizes DEF Geometry
<1>4. p % Space16 = p
  <2>1. p < Space16
    BY <1>2, <1>3
  <2> QED BY <2>1, <1>2, <1>3, Residue
<1>5. (g.base + p) % Space24 = g.base + p
  <2>1. g.base + p \in Nat /\ g.base + p < Space24
    BY <1>2, <1>3
  <2> QED BY <2>1, <1>3, Residue
<1> QED BY <1>4, <1>5 DEF ByOffset, Meant

\* A board that maps what its write24 writes to where it means.
LEMMA BuffersInSpace ==
  ASSUME NEW g, Geometry(g), nframes(g) > 0,
         g.bias = g.base, g.base + g.area + g.size <= Space24
  PROVE  BuffersReached(g)
<1> DEFINE a == nop_cmds(g)  n == nframes(g)
<1>1. a \in Nat /\ n \in Nat /\ n > 0
  BY SMT, Cut
<1>2. a + 3096 + n * 828 <= g.area + g.size /\ g.area + g.size \in Nat
  BY SMT, TransmitSide, ReceiveSide DEF Geometry
<1>3. /\ Place(g) = <<a, a + 12, a + 44, a + 60, a + 3096, a + 3096 + n * 24,
                      a + 3096 + n * 60>>
      /\ Extent(g) = <<12, 32, 16, 3036, n * 24, n * 36, n * 768>>
  BY SMT, Cut
<1> HIDE DEF a, n
<1>4. \A i \in {4, 7} : /\ Place(g)[i] \in Nat /\ Place(g)[i] < g.area + g.size
                        /\ After(g, i) - 1 \in Nat /\ After(g, i) - 1 < g.area + g.size
  BY SMT, <1>1, <1>2, <1>3 DEF After
<1>5. /\ g.base \in Nat /\ g.area \in Nat /\ g.size \in Nat
      /\ Space24 \in Nat
  BY SMT, Sizes DEF Geometry
<1>6. \A p \in Nat : p < g.area + g.size => ByAddress(g, p) = Meant(g, p)
  <2> SUFFICES ASSUME NEW p \in Nat, p < g.area + g.size
               PROVE  ByAddress(g, p) = Meant(g, p)
    OBVIOUS
  <2>1. g.base + p \in Nat /\ g.base + p < Space24
    BY <1>5
  <2>2. (g.base + p) % Space24 = g.base + p
    BY <2>1, <1>5, Residue
  <2> QED BY <2>2, <1>5 DEF ByAddress, Meant
<1> QED BY <1>4, <1>6 DEF BuffersReached

\* An ISA board of any size its front-end accepts that holds one frame: the
\* pieces, the chip's pointers and the 16- and 24-bit addresses the driver
\* writes all agree (if_ef.c and if_ai.c, attach).
THEOREM IsaLayout ==
  \A msize \in Nat : 3960 <= msize /\ msize <= Space16 =>
    LayoutSound(IsaGeometry(msize)) /\ BuffersReached(IsaGeometry(msize))
<1> SUFFICES ASSUME NEW msize \in Nat, 3960 <= msize, msize <= Space16
             PROVE  /\ LayoutSound(IsaGeometry(msize))
                    /\ BuffersReached(IsaGeometry(msize))
  OBVIOUS
<1> DEFINE g == IsaGeometry(msize)
<1>1. /\ g.msize = msize /\ g.scp = msize - 12 /\ g.scb = 8 /\ g.area = 24
      /\ g.size = msize - 36 /\ g.base = Space24 - msize /\ g.bias = g.base
      /\ g.size \in Nat /\ g.base \in Nat /\ Space24 \in Nat
  BY SMT, Sizes DEF IsaGeometry
<1> HIDE DEF g
<1>2. Geometry(g)
  BY SMT, <1>1 DEF Geometry
<1>3. RxArea(g) = 3120
  <2>1. nop_cmds(g) = 24
    BY SMT, <1>1 DEF nop_cmds, Align
  <2> QED BY SMT, <2>1, <1>2, TransmitSide
<1>4. nframes(g) > 0
  BY SMT, <1>1, <1>3, Sizes DEF nframes, FrameSize
<1>5. InOrder(g) /\ Aligned24(g)
  BY SMT, <1>2, <1>4, PiecesInOrder, WordsAligned
<1>6. PointersApart(g)
  BY SMT, <1>1, Sizes DEF PointersApart
<1>7. g.base + g.area + g.size <= Space24 /\ g.area + g.size <= Space16
  BY SMT, <1>1, Sizes
<1>8. OffsetsReach(g) /\ BuffersReached(g)
  BY SMT, <1>1, <1>2, <1>4, <1>7, OffsetsInSpace, BuffersInSpace
<1> QED BY SMT, <1>4, <1>5, <1>6, <1>8 DEF LayoutSound, g

\* The Sun-2's own interface, for each page size and wherever its 64K of main
\* memory lies in the chip's space (if_ie_obio_sun2.c, attach).
THEOREM ObioLayout ==
  \A page \in {2048, 4096, 8192} : \A iebase \in Nat :
    iebase + Space16 <= Space24 => LayoutSound(ObioGeometry(page, iebase))
<1> SUFFICES ASSUME NEW page \in {2048, 4096, 8192},
                    NEW iebase \in Nat,
                    iebase + Space16 <= Space24
             PROVE  LayoutSound(ObioGeometry(page, iebase))
  OBVIOUS
<1> DEFINE g == ObioGeometry(page, iebase)
<1>1. /\ g.msize = 65536 /\ g.scp = 16777204 % page /\ g.scb = 8
      /\ g.area = page /\ g.size = 65536 - page /\ g.base = iebase /\ g.bias = 0
  BY SMT, Sizes DEF ObioGeometry
<1>2. 16777204 % page = page - 12
  BY SMT
<1> HIDE DEF g
<1>3. Geometry(g)
  BY SMT, <1>1, <1>2 DEF Geometry
<1>4. nop_cmds(g) <= page + 3 /\ nop_cmds(g) \in Nat /\ RxArea(g) = nop_cmds(g) + 3096
  BY SMT, <1>1, <1>3, TransmitSide
<1>5. nframes(g) > 0
  BY SMT, <1>1, <1>4, Sizes DEF nframes, FrameSize
<1>6. InOrder(g) /\ Aligned24(g)
  BY SMT, <1>3, <1>5, PiecesInOrder, WordsAligned
<1>7. PointersApart(g)
  BY SMT, <1>1, <1>2, Sizes DEF PointersApart
<1>8. g.base + g.area + g.size <= Space24 /\ g.area + g.size <= Space16
  BY SMT, <1>1, Sizes
<1>9. OffsetsReach(g)
  BY SMT, <1>3, <1>5, <1>8, OffsetsInSpace
<1> QED BY SMT, <1>5, <1>6, <1>7, <1>9 DEF LayoutSound, g

-----------------------------------------------------------------------------
\* Autoconfiguration.

\* The memory of a card of up to four steps is laid out soundly.
LEMMA CardLayout ==
  \A n \in 1..4 : /\ LayoutSound(IsaGeometry(n * STEP)) /\ BuffersReached(IsaGeometry(n * STEP))
                  /\ IsaGeometry(n * STEP).msize = n * STEP
<1> SUFFICES ASSUME NEW n \in 1..4
             PROVE  /\ LayoutSound(IsaGeometry(n * STEP)) /\ BuffersReached(IsaGeometry(n * STEP))
                    /\ IsaGeometry(n * STEP).msize = n * STEP
  OBVIOUS
<1>1. n * STEP \in Nat /\ 3960 <= n * STEP /\ n * STEP <= Space16
  BY DEF STEP, Space16
<1>2. PICK m \in Nat : m = n * STEP
  BY <1>1
<1>3. LayoutSound(IsaGeometry(m)) /\ BuffersReached(IsaGeometry(m))
  BY <1>1, <1>2, IsaLayout
<1>4. IsaGeometry(m).msize = m
  BY DEF IsaGeometry
<1> QED BY <1>2, <1>3, <1>4

\* What becomes of the line in hand leaves the others alone.
LEMMA Others ==
  ASSUME LinesInv, at.line \in DOMAIN conf, NEW o, Outcome(o), UNCHANGED conf
  PROVE  /\ dev'[at.line] = o /\ DOMAIN dev' = DOMAIN conf
         /\ \A l \in DOMAIN conf \ {at.line} : dev'[l] = dev[l]
BY DEF LinesInv, Outcome

\* A line that does not attach changes nothing on the ISA bus.
LEMMA NotOnIsa ==
  ASSUME AutoconfIInv, at.line \in DOMAIN conf, NEW o, o # "attached" \/ conf[at.line].drv \notin {"ef", "ai"},
         Outcome(o), UNCHANGED <<conf, cards, io>>,
         \A l \in OnIsa : sc'[l] = sc[l],
         mem' = mem \/ \E w : w.by = Nobody /\ mem' = mem \cup {w}
  PROVE  /\ CardOfItsOwn' /\ OnIsa' = OnIsa
         /\ {m.by : m \in io'} = OnIsa' /\ {m.by : m \in mem'} \ {Nobody} = OnIsa'
<1>1. /\ dev[at.line] # "attached" /\ DOMAIN conf \subseteq Nat
      /\ dev'[at.line] = o /\ \A l \in DOMAIN conf \ {at.line} : dev'[l] = dev[l]
  BY Others, AutoconfAssumption DEF AutoconfIInv, LinesInv
<1>2. OnIsa' = OnIsa /\ Nobody \notin OnIsa
  BY <1>1 DEF OnIsa, Attached, Nobody
<1>3. /\ {m.by : m \in io'} = OnIsa' /\ {m.by : m \in mem'} \ {Nobody} = OnIsa'
  BY <1>2 DEF AutoconfIInv, HoldingsBalanced
<1>4. \A l \in OnIsa : {m \in mem' : m.by = l} = {m \in mem : m.by = l}
  BY <1>2
<1>5. CardOfItsOwn'
  BY <1>2, <1>4 DEF AutoconfIInv, CardOfItsOwn, LikeLeftover
<1> QED BY <1>2, <1>3, <1>5

\* Attaching on the ISA bus: the card that answers is the line's own.
LEMMA IsaStep ==
  ASSUME AutoconfIInv, at.line \in DOMAIN conf, conf[at.line].drv \in {"ef", "ai"},
         NEW slot, NEW a, NEW n, IsaAttach(slot, a, n), UNCHANGED <<conf, cards, dma, told>>,
         \A c \in cards : c.io = slot /\ c.at = a /\ c.len = n =>
            IF conf[at.line].drv = "ef" THEN c.kind = "3C507" \/ LikeLeftover(c)
                                        ELSE c.kind = "StarLAN"
  PROVE  CardOfItsOwn' /\ HoldingsBalanced'
<1>1. /\ dev[at.line] # "attached" /\ DOMAIN conf \subseteq Nat /\ DOMAIN sc = DOMAIN conf
      /\ cards \in Machines
  BY AutoconfAssumption DEF AutoconfIInv, LinesInv
<1>2. \A l \in DOMAIN conf' : l \in told' <=> "memory" \in dma'[l]
  BY DEF AutoconfIInv, HoldingsBalanced
<1>3. CASE Outcome("failed") /\ UNCHANGED <<io, mem, sc>>
  BY <1>2, <1>3, NotOnIsa DEF HoldingsBalanced
<1>4. CASE /\ Outcome("attached") /\ proberam(slot, a, n)
           /\ io' = io \cup {[slot |-> slot, by |-> at.line]}
           /\ mem' = mem \cup {[at |-> a, len |-> n, by |-> at.line]}
           /\ sc' = [sc EXCEPT ![at.line] = IsaGeometry(n * STEP)]
  <2>1. /\ dev'[at.line] = "attached" /\ at.line \notin OnIsa
        /\ \A l \in DOMAIN conf \ {at.line} : dev'[l] = dev[l]
    BY <1>1, <1>4, Others DEF AutoconfIInv, OnIsa, Attached
  <2>2. OnIsa' = OnIsa \cup {at.line} /\ Nobody # at.line
    BY <1>1, <2>1 DEF OnIsa, Attached, Nobody
  <2>3. HoldingsBalanced'
    <3>1. {m.by : m \in io'} = {m.by : m \in io} \cup {at.line}
      <4>1. PICK w : w.by = at.line /\ io' = io \cup {w}
        BY <1>4
      <4> QED BY <4>1
    <3>2. {m.by : m \in mem'} = {m.by : m \in mem} \cup {at.line}
      <4>1. PICK w : w.by = at.line /\ mem' = mem \cup {w}
        BY <1>4
      <4> QED BY <4>1
    <3> QED BY <1>2, <2>2, <3>1, <3>2 DEF AutoconfIInv, HoldingsBalanced
  <2>4. PICK c \in cards : c.io = slot /\ c.at = a /\ c.len = n /\ c.alive
    BY <1>4 DEF proberam, Answers
  <2>5. n \in 1..4
    BY <1>1, <2>4, AutoconfAssumption
  <2>6. ASSUME NEW l \in OnIsa
        PROVE  \E d \in cards :
                 /\ d.alive
                 /\ IF conf[l].drv = "ef" THEN d.kind = "3C507" \/ LikeLeftover(d)
                                          ELSE d.kind = "StarLAN"
                 /\ {m \in io' : m.by = l} = {[slot |-> d.io, by |-> l]}
                 /\ {m \in mem' : m.by = l} = {[at |-> d.at, len |-> d.len, by |-> l]}
                 /\ sc'[l].msize = d.len * STEP /\ LayoutSound(sc'[l]) /\ BuffersReached(sc'[l])
    <3>1. l # at.line /\ l \in DOMAIN conf
      BY <2>1 DEF OnIsa, Attached
    <3>2. /\ {m \in io' : m.by = l} = {m \in io : m.by = l}
          /\ {m \in mem' : m.by = l} = {m \in mem : m.by = l}
          /\ sc'[l] = sc[l]
      BY <1>1, <1>4, <3>1
    <3> QED BY <3>2 DEF AutoconfIInv, CardOfItsOwn
  <2>7. /\ {m \in io' : m.by = at.line} = {[slot |-> c.io, by |-> at.line]}
        /\ {m \in mem' : m.by = at.line} = {[at |-> c.at, len |-> c.len, by |-> at.line]}
    <3>1. /\ \A m \in io : m.by # at.line
          /\ \A m \in mem : m.by # at.line
      BY <2>1, <2>2 DEF AutoconfIInv, HoldingsBalanced
    <3> QED BY <1>4, <2>4, <3>1
  <2>8. sc'[at.line] = IsaGeometry(n * STEP)
    BY <1>1, <1>4
  <2>9. sc'[at.line].msize = c.len * STEP /\ LayoutSound(sc'[at.line]) /\ BuffersReached(sc'[at.line])
    BY <2>4, <2>5, <2>8, CardLayout
  <2>10. CardOfItsOwn'
    <3> SUFFICES ASSUME NEW l \in OnIsa'
                 PROVE  \E d \in cards :
                 /\ d.alive
                 /\ IF conf[l].drv = "ef" THEN d.kind = "3C507" \/ LikeLeftover(d)
                                          ELSE d.kind = "StarLAN"
                 /\ {m \in io' : m.by = l} = {[slot |-> d.io, by |-> l]}
                 /\ {m \in mem' : m.by = l} = {[at |-> d.at, len |-> d.len, by |-> l]}
                 /\ sc'[l].msize = d.len * STEP /\ LayoutSound(sc'[l]) /\ BuffersReached(sc'[l])
      BY DEF CardOfItsOwn, LikeLeftover
    <3>1. CASE l = at.line
      BY <2>4, <2>7, <2>9, <3>1
    <3>2. CASE l # at.line
      BY <2>2, <2>6, <3>2
    <3> QED BY <3>1, <3>2
  <2> QED BY <2>3, <2>10
<1> QED BY <1>3, <1>4 DEF IsaAttach, ProbeFailed

\* The next line: what is known of those still to come stays known.
LEMMA LinesStep ==
  ASSUME LinesInv, at.line \in DOMAIN conf, NEW o, Outcome(o), UNCHANGED <<conf, cards>>,
         \/ NextLine
         \/ at'.line = at.line /\ o # "attached",
         DOMAIN sc' = DOMAIN sc, DOMAIN dma' = DOMAIN dma,
         \A l \in DOMAIN conf : l > at.line => dma'[l] = dma[l] /\ (l \in told' <=> l \in told),
         \A l \in DOMAIN conf : l = at.line /\ at'.line = at.line => dma'[l] = dma[l] /\ (l \in told' <=> l \in told)
  PROVE  LinesInv'
<1>1. /\ dev'[at.line] = o /\ DOMAIN dev' = DOMAIN conf
      /\ \A l \in DOMAIN conf \ {at.line} : dev'[l] = dev[l]
  BY Others
<1>2. DOMAIN conf \subseteq Nat /\ at.line \in Nat
  BY AutoconfAssumption DEF LinesInv
<1>3. at'.line \in {at.line, at.line + 1}
  BY DEF NextLine
<1>4. CASE at'.line = at.line + 1
  <2>1. \A l \in DOMAIN conf : l > at'.line \/ l >= at'.line => l > at.line /\ l # at.line
    BY <1>2, <1>4
  <2>2. \A l \in DOMAIN conf : l > at.line => dev'[l] = "new" /\ l \notin told' /\ dma'[l] = {}
    BY <1>1, <1>2 DEF LinesInv
  <2>3. at'.line \in Nat
    BY <1>2, <1>4
  <2> QED BY <1>1, <2>1, <2>2, <2>3 DEF LinesInv
<1>5. CASE at'.line = at.line
  <2>1. o # "attached"
    BY <1>2, <1>5 DEF NextLine
  <2>2. \A l \in DOMAIN conf : l >= at.line => dev'[l] # "attached" /\ l \notin told' /\ dma'[l] = {}
    <3> SUFFICES ASSUME NEW l \in DOMAIN conf, l >= at.line
                 PROVE  dev'[l] # "attached" /\ l \notin told' /\ dma'[l] = {}
      OBVIOUS
    <3>1. CASE l = at.line
      BY <1>1, <1>5, <2>1, <3>1 DEF LinesInv
    <3>2. CASE l > at.line
      BY <1>1, <1>2, <3>2 DEF LinesInv
    <3> QED BY <1>2, <3>1, <3>2
  <2>3. \A l \in DOMAIN conf : l > at.line => dev'[l] = "new"
    BY <1>1, <1>2 DEF LinesInv
  <2> QED BY <1>1, <1>2, <1>5, <2>2, <2>3 DEF LinesInv
<1> QED BY <1>3, <1>4, <1>5

\* A line done with leaves nothing to be attached.
LEMMA NothingMatched ==
  ASSUME LinesInv, at.line \in DOMAIN conf, NEW o, Outcome(o), NextLine,
         UNCHANGED <<conf, cards>>, \A e \in bus'.listed : Known(e)
  PROVE  MatchInv'
<1>1. at'.line = at.line + 1
  BY DEF NextLine
<1>2. at'.line \in DOMAIN conf => dev'[at'.line] = "new"
  <2>1. at'.line > at.line /\ at'.line # at.line
    BY <1>1 DEF LinesInv
  <2> QED BY <2>1, Others DEF LinesInv
<1>3. \A e : Known(e)' <=> Known(e)
  BY DEF Known
<1> QED BY <1>2, <1>3 DEF MatchInv, Attaching

\* Matching an ef line: what is listed, and so what is found, is known.
LEMMA EfMatch ==
  ASSUME AutoconfIInv, ef_match
  PROVE  AutoconfIInv'
<1>1. at.line \in DOMAIN conf /\ conf[at.line].drv = "ef" /\ DOMAIN conf \subseteq Nat
      /\ UNCHANGED <<cards, conf, io, mem, dma, told, sc>>
  BY AutoconfAssumption DEF ef_match, Trying, Line, AutoconfIInv, LinesInv
<1>2. PICK b \in IF bus.seen THEN {bus} ELSE {NewBus(p) : p \in FirstLooks} :
        \/ bus' = b /\ Outcome("unmatched") /\ NextLine
        \/ \E e \in b.listed : /\ bus' = [b EXCEPT !.listed = @ \ {e}]
                               /\ Found(e)
  BY DEF ef_match, FirstOf
<1>3. \A e \in b.listed : Known(e)
  <2>1. CASE b = bus
    BY <2>1 DEF AutoconfIInv, MatchInv
  <2>2. ASSUME NEW p \in FirstLooks, b = NewBus(p) PROVE \A e \in b.listed : Known(e)
    <3>1. b.listed = {Listed(c, TRUE) : c \in p.left}
                       \cup {Listed(c, FALSE) : c \in
                               IF p.idPort THEN ef_card_add({c \in cards : Usable(c)}, p.room)
                                           ELSE {}}
      BY <2>2 DEF NewBus
    <3>2. /\ p.left \subseteq Leftover
          /\ \A c \in ef_card_add({d \in cards : Usable(d)}, p.room) : c \in cards /\ Usable(c)
      BY DEF FirstLooks, ef_card_add
    <3>3. \A e \in b.listed : \/ \E c \in Leftover : e = Listed(c, TRUE)
                              \/ \E c \in cards : e = Listed(c, FALSE) /\ Usable(c)
      BY <3>1, <3>2
    <3> QED BY <3>3 DEF Known, Listed, Usable, ef_port_check
  <2> QED BY <1>2, <2>1, <2>2
<1>4. PICK o \in {"matched", "unmatched"} :
        /\ Outcome(o)
        /\ o = "unmatched" => NextLine
        /\ o = "matched" => at'.line = at.line /\ Known(at'.found)
        /\ \A e \in bus'.listed : Known(e)
  <2>1. CASE bus' = b /\ Outcome("unmatched") /\ NextLine
    BY <1>3, <2>1 DEF NextLine
  <2>2. CASE \E e \in b.listed : /\ bus' = [b EXCEPT !.listed = @ \ {e}]
                                /\ Found(e)
    <3>1. PICK e \in b.listed : /\ bus' = [b EXCEPT !.listed = @ \ {e}]
                                /\ Found(e)
      BY <2>2
    <3> QED BY <1>3, <3>1 DEF Found
  <2> QED BY <1>2, <2>1, <2>2
<1>5. LinesInv /\ MatchInv /\ HoldingsBalanced /\ o # "attached"
  BY DEF AutoconfIInv
<1>6. (at'.line = at.line /\ o = "matched") \/ NextLine
  BY <1>4
<1>7. LinesInv'
  BY <1>1, <1>4, <1>5, <1>6, LinesStep
<1>8. MatchInv'
  <2>1. /\ \A e : Known(e)' <=> Known(e)
        /\ conf' = conf
    BY <1>1 DEF Known
  <2>2. CASE o = "matched"
    <3>1. at'.line = at.line /\ Known(at'.found)
      BY <1>4, <2>2
    <3> QED BY <1>1, <1>4, <2>1, <3>1 DEF MatchInv, Attaching, Line
  <2>3. CASE o = "unmatched"
    BY <1>1, <1>4, <1>5, <2>3, NothingMatched
  <2> QED BY <2>2, <2>3
<1>9. CardOfItsOwn' /\ HoldingsBalanced'
  <2>1. CardOfItsOwn' /\ OnIsa' = OnIsa /\ {m.by : m \in io'} = OnIsa' /\ {m.by : m \in mem'} \ {Nobody} = OnIsa'
    BY <1>1, <1>4, <1>5, NotOnIsa
  <2> QED BY <1>1, <1>5, <2>1 DEF HoldingsBalanced
<1> QED BY <1>5, <1>7, <1>8, <1>9 DEF AutoconfIInv

\* Matching an ai line: a board is at its port.
LEMMA AiMatch ==
  ASSUME AutoconfIInv, ai_match
  PROVE  AutoconfIInv'
<1>1. at.line \in DOMAIN conf /\ conf[at.line].drv = "ai"
      /\ UNCHANGED <<cards, conf, bus, io, dma, told, sc>>
  BY DEF ai_match, Trying, Line
<1>2. LinesInv /\ MatchInv /\ HoldingsBalanced
  BY DEF AutoconfIInv
<1>3. mem' = mem \/ \E w : w.by = Nobody /\ mem' = mem \cup {w}
  <2>1. \A n : [at |-> Line.at, len |-> n, by |-> Nobody].by = Nobody
    OBVIOUS
  <2>2. mem' = mem \/ \E n : mem' = mem \cup {[at |-> Line.at, len |-> n, by |-> Nobody]}
    BY DEF ai_match
  <2> QED BY <2>1, <2>2
<1>4. \/ Outcome("unmatched") /\ NextLine
      \/ /\ Outcome("matched") /\ at'.line = at.line
         /\ \E c \in cards : c.io = Line.io /\ c.kind = "StarLAN"
  BY DEF ai_match, Found
<1>5. CASE Outcome("unmatched") /\ NextLine
  <2>1. LinesInv'
    BY <1>1, <1>2, <1>5, LinesStep DEF LinesInv, NextLine
  <2>2. MatchInv'
    BY <1>1, <1>2, <1>5, NothingMatched DEF MatchInv
  <2>3. CardOfItsOwn' /\ OnIsa' = OnIsa
        /\ {m.by : m \in io'} = OnIsa' /\ {m.by : m \in mem'} \ {Nobody} = OnIsa'
    BY <1>1, <1>3, <1>5, NotOnIsa
  <2> QED BY <1>1, <1>2, <2>1, <2>2, <2>3 DEF AutoconfIInv, HoldingsBalanced
<1>6. CASE /\ Outcome("matched") /\ at'.line = at.line
           /\ \E c \in cards : c.io = Line.io /\ c.kind = "StarLAN"
  <2>1. LinesInv'
    BY <1>1, <1>2, <1>6, LinesStep
  <2>2. MatchInv'
    BY <1>1, <1>2, <1>6 DEF MatchInv, Attaching, Line, Known
  <2>3. CardOfItsOwn' /\ OnIsa' = OnIsa
        /\ {m.by : m \in io'} = OnIsa' /\ {m.by : m \in mem'} \ {Nobody} = OnIsa'
    BY <1>1, <1>3, <1>6, NotOnIsa
  <2> QED BY <1>1, <1>2, <2>1, <2>2, <2>3 DEF AutoconfIInv, HoldingsBalanced
<1> QED BY <1>4, <1>5, <1>6

\* Attaching an ef line: the card that answers is the one found.
LEMMA EfAttach ==
  ASSUME AutoconfIInv, ef_attach
  PROVE  AutoconfIInv'
<1>1. at.line \in DOMAIN conf /\ conf[at.line].drv = "ef" /\ NextLine
      /\ UNCHANGED <<cards, conf, dma, told>> /\ bus'.listed = bus.listed
  BY DEF ef_attach, Attaching, Line
<1>2. LinesInv /\ MatchInv /\ HoldingsBalanced /\ Known(at.found)
  BY DEF AutoconfIInv, MatchInv, ef_attach
<1>3. \A c \in cards : c.io = at.found.card.io /\ c.at = at.found.card.at /\ c.len = at.found.card.len
        => c.kind = "3C507" \/ LikeLeftover(c)
  BY <1>2, AutoconfAssumption DEF Known, LikeLeftover, LinesInv
<1>4. \/ Outcome("failed") /\ UNCHANGED <<io, mem, sc>>
      \/ IsaAttach(at.found.card.io, at.found.card.at, at.found.card.len)
  BY DEF ef_attach
<1>5. CardOfItsOwn' /\ HoldingsBalanced'
  <2>1. CASE IsaAttach(at.found.card.io, at.found.card.at, at.found.card.len)
    BY <1>1, <1>3, <2>1, IsaStep
  <2>2. CASE Outcome("failed") /\ UNCHANGED <<io, mem, sc>>
    BY <1>1, <1>2, <2>2, NotOnIsa DEF HoldingsBalanced
  <2> QED BY <1>4, <2>1, <2>2
<1>6. PICK o : Outcome(o) /\ DOMAIN sc' = DOMAIN sc
  BY <1>4 DEF IsaAttach, ProbeFailed
<1>7. LinesInv'
  BY <1>1, <1>2, <1>6, LinesStep DEF LinesInv, NextLine
<1>8. MatchInv'
  BY <1>1, <1>2, <1>6, NothingMatched DEF MatchInv
<1> QED BY <1>5, <1>7, <1>8 DEF AutoconfIInv

\* Attaching an ai line: the card that answers is the board at its port.
LEMMA AiAttach ==
  ASSUME AutoconfIInv, ai_attach
  PROVE  AutoconfIInv'
<1>1. at.line \in DOMAIN conf /\ conf[at.line].drv = "ai" /\ NextLine
      /\ UNCHANGED <<cards, conf, bus, dma, told>> /\ IsaAttach(Line.io, Line.at, at.found)
  BY DEF ai_attach, Attaching, Line
<1>2. LinesInv /\ MatchInv /\ \E c \in cards : c.io = Line.io /\ c.kind = "StarLAN"
  BY DEF AutoconfIInv, MatchInv, ai_attach
<1>3. \A c \in cards : c.io = Line.io => c.kind = "StarLAN"
  BY <1>2, AutoconfAssumption DEF LinesInv
<1>4. CardOfItsOwn' /\ HoldingsBalanced'
  BY <1>1, <1>3, IsaStep
<1>5. PICK o : Outcome(o) /\ DOMAIN sc' = DOMAIN sc
  BY <1>1 DEF IsaAttach, ProbeFailed
<1>6. LinesInv'
  BY <1>1, <1>2, <1>5, LinesStep DEF LinesInv, NextLine
<1>7. MatchInv'
  BY <1>1, <1>2, <1>5, NothingMatched DEF MatchInv
<1> QED BY <1>4, <1>6, <1>7 DEF AutoconfIInv

\* A Sun's line, matched or not: nothing is held yet.
LEMMA SunMatch ==
  ASSUME AutoconfIInv, at.line \in DOMAIN conf, Line.drv \notin {"ef", "ai"}, Looked
  PROVE  AutoconfIInv'
<1>1. UNCHANGED <<cards, conf, bus, io, mem, dma, told, sc>>
      /\ \/ Found(0)
         \/ Outcome("unmatched") /\ NextLine
  BY DEF Looked
<1>2. LinesInv /\ MatchInv /\ HoldingsBalanced
  BY DEF AutoconfIInv
<1>3. CASE Found(0)
  <2>1. LinesInv'
    BY <1>1, <1>2, <1>3, LinesStep DEF Found
  <2>2. MatchInv'
    BY <1>1, <1>2, <1>3 DEF Found, MatchInv, Attaching, Line, Known
  <2>3. CardOfItsOwn' /\ HoldingsBalanced'
    BY <1>1, <1>2, <1>3, NotOnIsa DEF Found, HoldingsBalanced
  <2> QED BY <2>1, <2>2, <2>3 DEF AutoconfIInv
<1>4. CASE Outcome("unmatched") /\ NextLine
  <2>1. LinesInv'
    BY <1>1, <1>2, <1>4, LinesStep DEF LinesInv, NextLine
  <2>2. MatchInv'
    BY <1>1, <1>2, <1>4, NothingMatched DEF MatchInv
  <2>3. CardOfItsOwn' /\ HoldingsBalanced'
    BY <1>1, <1>2, <1>4, NotOnIsa DEF HoldingsBalanced
  <2> QED BY <2>1, <2>2, <2>3 DEF AutoconfIInv
<1> QED BY <1>1, <1>3, <1>4

\* What a failure leaves: the memory, only once the chip has been told of it.
LEMMA MemoryLeft ==
  \A stage \in {"create", "alloc", "map", "load", "probe"} :
    "memory" \in LeftBy(stage) <=> stage = "probe"
BY SMT DEF LeftBy

\* Attaching a Sun's line: the memory is held once the chip has been told of it.
LEMMA SunAttach ==
  ASSUME AutoconfIInv, sun2_attach \/ obio3_attach \/ vme_attach
  PROVE  AutoconfIInv'
<1>1. at.line \in DOMAIN conf /\ conf[at.line].drv \notin {"ef", "ai"} /\ NextLine
      /\ UNCHANGED <<cards, conf, bus, io, mem>>
  BY DEF sun2_attach, obio3_attach, vme_attach, Sun3Holds, Attaching, Line
<1>2. LinesInv /\ MatchInv /\ HoldingsBalanced
  BY DEF AutoconfIInv
<1>3. PICK o \in {"failed", "attached"} : Outcome(o)
  BY DEF sun2_attach, obio3_attach, vme_attach, Sun3Holds
<1>4. PICK held : /\ dma' = [dma EXCEPT ![at.line] = held]
                  /\ told' = IF "memory" \in held THEN told \cup {at.line} ELSE told
  <2>1. CASE sun2_attach
    <3>1. PICK stage \in {"create", "alloc", "map", "load", "probe"} :
            /\ dma' = [dma EXCEPT ![at.line] = LeftBy(stage)]
            /\ told' = IF stage = "probe" THEN told \cup {at.line} ELSE told
            /\ \/ Outcome("failed") /\ UNCHANGED sc
               \/ /\ stage = "probe" /\ Outcome("attached")
                  /\ \E iebase \in IEBASES :
                       sc' = [sc EXCEPT ![at.line] = ObioGeometry(2048, iebase)]
      BY <2>1 DEF sun2_attach
    <3>2. "memory" \in LeftBy(stage) <=> stage = "probe"
      BY MemoryLeft
    <3>3. told' = IF "memory" \in LeftBy(stage) THEN told \cup {at.line} ELSE told
      BY <3>1, <3>2
    <3> WITNESS LeftBy(stage)
    <3> QED BY <3>1, <3>3
  <2>2. CASE Sun3Holds
    <3> WITNESS {"regs", "memory"}
    <3> QED BY <2>2 DEF Sun3Holds
  <2> QED BY <2>1, <2>2 DEF obio3_attach, vme_attach
<1>5. (\A l \in OnIsa : sc'[l] = sc[l]) /\ DOMAIN sc' = DOMAIN sc
  <2>1. sc' = sc \/ \E g : sc' = [sc EXCEPT ![at.line] = g]
    BY DEF sun2_attach, obio3_attach, vme_attach, Sun3Holds
  <2>2. at.line \notin OnIsa /\ OnIsa \subseteq DOMAIN sc
    BY <1>1, <1>2 DEF OnIsa, Attached, LinesInv
  <2> QED BY <2>1, <2>2
<1>6. LinesInv'
  BY <1>1, <1>2, <1>3, <1>4, <1>5, LinesStep DEF LinesInv, NextLine
<1>7. MatchInv'
  BY <1>1, <1>2, <1>3, NothingMatched DEF MatchInv
<1>8. \A l \in DOMAIN conf : l \in told' <=> "memory" \in dma'[l]
  BY <1>1, <1>2, <1>4 DEF LinesInv, HoldingsBalanced
<1>9. CardOfItsOwn' /\ OnIsa' = OnIsa
      /\ {m.by : m \in io'} = OnIsa' /\ {m.by : m \in mem'} \ {Nobody} = OnIsa'
  BY <1>1, <1>2, <1>3, <1>5, NotOnIsa
<1> QED BY <1>1, <1>6, <1>7, <1>8, <1>9 DEF AutoconfIInv, HoldingsBalanced

\* The invariant is inductive.
LEMMA AutoconfInductive == AutoconfIInv /\ [Next]_vars => AutoconfIInv'
<1> SUFFICES ASSUME AutoconfIInv, [Next]_vars
             PROVE  AutoconfIInv'
  OBVIOUS
<1>1. CASE obio2_match \/ obio3_match \/ vme_match
  BY <1>1, SunMatch DEF obio2_match, obio3_match, vme_match, Trying
<1>2. CASE sun2_attach \/ obio3_attach \/ vme_attach
  BY <1>2, SunAttach
<1>3. CASE UNCHANGED vars
  <2>1. UNCHANGED <<cards, conf, at, bus, io, mem, dma, told, dev, sc>>
    BY <1>3 DEF vars
  <2>2. LinesInv'
    BY <2>1 DEF AutoconfIInv, LinesInv
  <2>3. MatchInv'
    BY <2>1 DEF AutoconfIInv, MatchInv, Known, Attaching, Line
  <2>4. CardOfItsOwn' /\ HoldingsBalanced'
    BY <2>1 DEF AutoconfIInv, CardOfItsOwn, HoldingsBalanced, OnIsa, Attached, LikeLeftover
  <2> QED BY <2>2, <2>3, <2>4 DEF AutoconfIInv
<1> QED BY <1>1, <1>2, <1>3, EfMatch, AiMatch, EfAttach, AiAttach DEF Next, Done

\* The invariant holds whatever cards, configuration and table there are.
THEOREM AutoconfInvariance == Spec => []AutoconfIInv
<1>1. Init => AutoconfIInv
  <2> SUFFICES ASSUME Init PROVE AutoconfIInv
    OBVIOUS
  <2>1. OnIsa = {}
    BY DEF Init, OnIsa, Attached
  <2>2. CardOfItsOwn /\ HoldingsBalanced
    BY <2>1 DEF Init, CardOfItsOwn, HoldingsBalanced
  <2>3. LinesInv
    BY DEF Init, LinesInv
  <2>4. MatchInv
    BY DEF Init, MatchInv, Attaching
  <2> QED BY <2>2, <2>3, <2>4 DEF AutoconfIInv
<1> QED BY <1>1, AutoconfInductive, PTL DEF Spec

\* Each line attached on the ISA bus has an answering card of its own, and memory
\* laid out soundly (ef_attach, ai_attach, i82586_setup_bufs).
THEOREM EachItsOwnCard == Spec => []CardOfItsOwn
<1>1. AutoconfIInv => CardOfItsOwn
  BY DEF AutoconfIInv
<1> QED BY <1>1, AutoconfInvariance, PTL

\* Nothing but an attached line holds anything, save the windows
\* ai_find_mem_size loses; a Sun-2 keeps memory as long as its chip may use it.
THEOREM OnlyAttachedHold == Spec => []HoldingsBalanced
<1>1. AutoconfIInv => HoldingsBalanced
  BY DEF AutoconfIInv
<1> QED BY <1>1, AutoconfInvariance, PTL
=============================================================================
