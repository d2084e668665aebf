----------------------------- MODULE MdioSystem -----------------------------
(***************************************************************************)
(* MDIO between a station and a PHY.  The station is wb_mdio, driven by    *)
(* mdio_prog ("prog") or by a host that looks at STATUS before it starts   *)
(* anything ("host"), or NetBSD's bit-banging one ("bitbang").  One of the *)
(* two ends may be reset, or the driver may give up, in the middle of a    *)
(* frame; the other end is not told.                                       *)
(***************************************************************************)
EXTENDS MdioProg, MdioPhy, MiiBitbang

CONSTANTS
  Masters,   \* what may drive the station
  Present,   \* the addresses the PHY may have
  Asked,     \* the addresses requests go to
  Touched,   \* the registers a host's requests name
  Held, HeldValue, \* the registers of the PHY that hold something at first, and what
  Offered,   \* the values a write may carry
  MaxAsked,  \* a host's requests
  MaxCuts    \* resets in the middle of things

ASSUME SystemAssumption ==
  /\ Masters \subseteq {"prog", "host", "bitbang"}
  /\ Present \cup Asked \cup Touched \cup Held \subseteq Registers /\ HeldValue \in Values
  /\ Offered \subseteq Values /\ MaxAsked \in Nat /\ MaxCuts \in Nat

VARIABLES
  master, \* who drives the station
  mdc,
  pins,   \* the bit-banging station: its pins, its script, what it has read
  req,    \* the request under way, or the last one, and whether it is over
  told,   \* what the PHY was told by whole frames of the sequence under way
  asked,  \* requests so far
  cuts    \* resets so far

vars == <<phy, wb, prog, master, mdc, pins, req, told, asked, cuts>>

NewPins == [o |-> 1, host |-> FALSE, script |-> <<>>, data |-> {}, err |-> 0]

Init ==
  /\ \E addr \in Present :
       phy = NewPhy([r \in Registers |-> IF r \in Held THEN HeldValue ELSE {}], addr)
  /\ wb = NewStation /\ prog = NewProg /\ mdc = 0 /\ pins = NewPins
  /\ master \in Masters
  /\ req = [r |-> NoRequest, over |-> TRUE] /\ told = <<>>
  /\ asked = 0 /\ cuts = 0

Drives == IF master = "bitbang" THEN pins.host ELSE wb.oe
Out == IF master = "bitbang" THEN pins.o ELSE wb.o
\* The wire: the station's bit, or the PHY's, or the pull-up.
Wire == IF Drives THEN Out ELSE IF phy.driving THEN OutBit(phy) ELSE 1
\* What the station reads back: nothing of its own.
mdio_i == IF ~Drives /\ phy.driving THEN OutBit(phy) ELSE 1
-----------------------------------------------------------------------------
\* wb_mdio's side.

\* What the station starts on when a request is armed.
Started ==
  [op |-> IF wb.is_read THEN OP_READ ELSE OP_WRITE,
   phyad |-> wb.phyad, regad |-> wb.regad, value |-> wb.wdata]

Falling ==
  /\ master # "bitbang" /\ mdc = 1
  /\ mdc' = 0 /\ wb' = OnFalling /\ phy' = on_falling(phy)
  /\ req' = IF wb.armed THEN [r |-> Started, over |-> FALSE] ELSE req
  /\ UNCHANGED <<prog, master, pins, told, asked, cuts>>

Rising ==
  /\ master # "bitbang" /\ mdc = 0
  /\ mdc' = 1 /\ wb' = OnRising(mdio_i) /\ phy' = on_rising(phy, Wire)
  /\ req' = [req EXCEPT !.over = @ \/ (wb.active /\ ~wb'.active)]
  /\ told' = IF wb.active /\ ~wb'.active /\ ~wb.is_read /\ wb.phyad = phy.addr
             THEN Append(told, <<req.r.regad, phy'.regs[req.r.regad]>>) ELSE told
  /\ UNCHANGED <<prog, master, pins, asked, cuts>>

Edge == Falling \/ Rising

Program ==
  /\ master = "prog" /\ ProgStep
  /\ UNCHANGED <<phy, master, mdc, pins, req, told, asked, cuts>>

\* Only between requests: the frame before has been looked at by now.
Restart ==
  /\ master = "prog" /\ StartAgain /\ told' = <<>>
  /\ UNCHANGED <<phy, master, mdc, pins, req, asked, cuts>>

\* A host's access: it has seen STATUS idle, writes WDATA, then CTRL.
Host ==
  /\ master = "host" /\ ~busy
  /\ asked < MaxAsked /\ asked' = asked + 1
  /\ \E phyad \in Asked, regad \in Touched :
       \/ \E v \in Offered : wb' = [WriteCtrl(phyad, regad, FALSE) EXCEPT !.wdata = v]
       \/ wb' = WriteCtrl(phyad, regad, TRUE)
  /\ UNCHANGED <<phy, prog, master, mdc, pins, req, told, cuts>>
-----------------------------------------------------------------------------
\* The bit-banging station's side.

Call ==
  /\ master = "bitbang" /\ pins.script = <<>>
  /\ asked < MaxAsked /\ asked' = asked + 1
  /\ \E r \in [op : {OP_READ, OP_WRITE}, phyad : Asked, regad : Touched,
               value : Offered] :
       /\ req' = [r |-> r, over |-> FALSE]
       /\ pins' = [pins EXCEPT !.script = Script(r), !.data = {}, !.err = 0]
  /\ UNCHANGED <<phy, wb, prog, master, mdc, told, cuts>>

\* The PHY sees the edge, if there is one, with the pins as they are now; a
\* READ follows.
WriteRead ==
  /\ master = "bitbang" /\ pins.script # <<>>
  /\ LET w == Head(pins.script)
         bit == IF w.host THEN w.mdo ELSE IF phy.driving THEN OutBit(phy) ELSE 1
         after == CASE w.mdc = 1 /\ mdc = 0 -> on_rising(phy, bit)
                    [] w.mdc = 0 /\ mdc = 1 -> on_falling(phy)
                    [] OTHER                -> phy
         seen == IF ~w.host /\ after.driving THEN OutBit(after) ELSE 1
     IN  /\ mdc' = w.mdc /\ phy' = after
         /\ pins' = [o |-> w.mdo, host |-> w.host, script |-> Tail(pins.script),
                     err |-> IF w.look = "err" THEN seen ELSE pins.err,
                     data |-> IF w.look = "bit"
                              THEN ShiftIn(pins.data, IF pins.err = 0 THEN seen ELSE 0,
                                           DataBits)
                              ELSE pins.data]
         /\ req' = [req EXCEPT !.over = Len(pins.script) = 1]
  /\ UNCHANGED <<wb, prog, master, told, asked, cuts>>
-----------------------------------------------------------------------------
\* A reset of the station's side, or a call that is never finished; the next
\* request starts from scratch.
Cut ==
  /\ cuts < MaxCuts /\ cuts' = cuts + 1
  /\ wb' = NewStation /\ prog' = NewProg /\ pins' = NewPins
  /\ mdc' = 0 /\ phy' = IF mdc = 1 THEN on_falling(phy) ELSE phy
  /\ req' = [r |-> NoRequest, over |-> TRUE] /\ told' = <<>>
  /\ UNCHANGED <<master, asked>>

Next == \/ Falling \/ Rising \/ Program \/ Restart \/ Host
        \/ Call \/ WriteRead \/ Cut

Spec == Init /\ [][Next]_vars
FairSpec == Spec /\ WF_vars(Edge) /\ WF_vars(Program)
-----------------------------------------------------------------------------
\* The stations', the PHY's and the bench's variables keep to their ranges.
TypeOK ==
  /\ wb \in [phyad : Registers, regad : Registers, is_read : BOOLEAN,
             wdata : Values, rdata : Values, rvalid : BOOLEAN,
             shifter : Seq(BITS), bits_left : 0..FRAME_BITS,
             active : BOOLEAN, armed : BOOLEAN, o : BITS, oe : BOOLEAN]
  /\ phy.regs \in [Registers -> Values] /\ phy.count \in 0..DataBits
  /\ mdc \in BITS /\ pins.data \in Values

\* Bit times left of the frame under way, whichever station sends it.
Left == IF master = "bitbang"
        THEN Cardinality({i \in DOMAIN pins.script : pins.script[i].mdc = 1})
        ELSE wb.bits_left

\* The station and the PHY never drive the wire at once, but for a PHY that is
\* still answering a frame cut short while the next one's preamble goes out
\* (in_ta, the turnaround of mii_bitbang_readreg, on_falling).
OneDriver ==
  Drives /\ phy.driving => cuts > 0 /\ Left > FRAME_BITS - PreambleBits

\* A request that is over did what was asked of the PHY it was for, and of no
\* other: a write left its value in the register, a read brought its content,
\* and a PHY that is not there answers nothing (the frame of both stations,
\* mdio_phy, mii_bitbang_readreg's error).
Exchanged ==
  req.over /\ req.r # NoRequest =>
    LET r == req.r
        here == r.phyad = phy.addr
        got == IF master = "bitbang" THEN pins.data ELSE wb.rdata
    IN  /\ here /\ r.op = OP_WRITE => phy.regs[r.regad] = r.value
        /\ here /\ r.op = OP_READ => got = phy.out
                                     /\ (r.regad # MII_BMCR => got = phy.regs[r.regad])
        /\ r.op = OP_READ /\ master = "bitbang" => (pins.err = 0 <=> here)
        /\ ~here /\ r.op = OP_READ /\ master # "bitbang" => got = AllOnes

\* A PHY cut off in the middle of a frame is back in step before the next
\* frame's start delimiter (the preamble outlasts any rest of a frame).
InStep ==
  Left = FRAME_BITS - PreambleBits => phy.st = "Preamble"

\* What the PHY has heard is the beginning of the sequence, in order, its reset
\* over before anything else is written unless mdio_prog gave up on it; and
\* ready means all of it (step_reg, step_val, RESET_POLLS).
Heard ==
  /\ Len(told) <= NSTEPS
  /\ \A i \in DOMAIN told : told[i] = <<step_reg[i], step_val[i]>>
  /\ Len(told) = 2 /\ ~prog.failed => ~(BMCR_RESET \subseteq phy.regs[MII_BMCR])
  /\ prog.ready => IF phy.addr = PHY_ADDR THEN Len(told) = NSTEPS ELSE prog.failed

\* Whatever the PHY does or does not answer, the sequence ends, and says truly
\* how: "wedging here would be worse" (RESET_POLLS).
ProgEnds == master = "prog" => []Heard /\ []<>prog.ready
=============================================================================
