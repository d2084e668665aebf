----------------------------- MODULE MdioProof -----------------------------
(***************************************************************************)
(* Theorems about MdioSystem with wb_mdio for a station: for any widths,   *)
(* any requests and any number of resets in the middle of a frame, the PHY *)
(* is in step when a frame's preamble ends, and nothing but a preamble     *)
(* meets an answer to a frame cut short; a request that is over did what   *)
(* was asked, of that PHY and no other; and what the PHY hears of          *)
(* mdio_prog is its sequence, in order.                                    *)
(***************************************************************************)
EXTENDS MdioSystem, SequenceTheorems, TLAPS

\* What follows the preamble, and all of it but the first bit.
DelimBits == 4 + 2 * AddrBits + TA_BITS + DataBits
RestMax == DelimBits - 1
\* From the PHY's address on.
AddrRest == 2 * AddrBits + TA_BITS + DataBits

\* The theorems' assumption: the preamble outlasts the rest of any frame.
PreambleOutlasts == "bitbang" \notin Masters /\ PreambleBits >= RestMax
-----------------------------------------------------------------------------
\* The PHY alone.

Late == {"PhyAd", "RegAd", "Ta", "Data"}
PhyStates == {"Preamble", "St1", "Op"} \cup Late
PhyFields == {"addr", "st", "count", "op", "phyad", "regad", "data", "out", "outBit",
              "driving", "forUs", "regs", "resetSeen"}

\* The bit times a PHY has still to go before it looks for a preamble again.
Rest(p) ==
  CASE p.st = "Preamble" -> 0
    [] p.st = "St1"      -> RestMax
    [] p.st = "Op"       -> AddrRest + 2 - p.count
    [] p.st = "PhyAd"    -> AddrRest - p.count
    [] p.st = "RegAd"    -> AddrRest - AddrBits - p.count
    [] p.st = "Ta"       -> DataBits + TA_BITS - p.count
    [] p.st = "Data"     -> DataBits - p.count

\* Its counter keeps to what it counts, and it drives only while it answers.
PhyOK(p) ==
  /\ DOMAIN p = PhyFields /\ p.st \in PhyStates /\ p.count \in Nat
  /\ p.driving \in BOOLEAN
  /\ p.st = "Op" => p.count < 2 /\ (p.count = 0 => p.op = {})
  /\ p.st = "PhyAd" => p.count < AddrBits
  /\ p.st = "RegAd" => p.count < AddrBits
  /\ p.st = "Ta" => p.count < TA_BITS
  /\ p.st = "Data" => p.count < DataBits
Answers(p) == p.st \in Late /\ p.op = OP_READ
DrivesRightly(p) ==
  p.driving => \/ p.st = "Preamble"
               \/ Answers(p) /\ (p.st = "Data" \/ (p.st = "Ta" /\ p.count = 1))
-----------------------------------------------------------------------------
\* The station, and the two together.

\* Bit k of a frame is b: where the frame begins, whether it is a read, and
\* the words it carries.
Op1 == IF wb.is_read THEN 1 ELSE 0
Says(k, b) ==
  /\ k <= PreambleBits => b = 1
  /\ k = PreambleBits + 1 => b = 0
  /\ k = PreambleBits + 2 => b = 1
  /\ k = PreambleBits + 3 => b = Op1
  /\ k = PreambleBits + 4 => b = 1 - Op1
  /\ k > PreambleBits + 4 /\ k <= PreambleBits + 4 + AddrBits =>
       b = Bits(wb.phyad, AddrBits)[k - (PreambleBits + 4)]
  /\ k > PreambleBits + 4 + AddrBits /\ k <= PreambleBits + 4 + 2 * AddrBits =>
       b = Bits(wb.regad, AddrBits)[k - (PreambleBits + 4 + AddrBits)]
  /\ k > PreambleBits + 6 + 2 * AddrBits /\ k <= FRAME_BITS =>
       b = Bits(wb.wdata, DataBits)[k - (PreambleBits + 6 + 2 * AddrBits)]

IsRow(s, n) == s = [i \in 1..n |-> s[i]]
Gone == FRAME_BITS - wb.bits_left
InPre == wb.active /\ wb.bits_left >= DelimBits
InRest == wb.active /\ wb.bits_left < DelimBits
Ahead == wb.bits_left - 1 + mdc

StationInv ==
  /\ master \in Masters /\ mdc \in {0, 1} /\ cuts \in Nat
  /\ DOMAIN wb = {"phyad", "regad", "is_read", "wdata", "rdata", "rvalid", "shifter",
                  "bits_left", "active", "armed", "o", "oe"}
  /\ wb.active \in BOOLEAN /\ wb.armed \in BOOLEAN
  /\ wb.oe \in BOOLEAN /\ wb.is_read \in BOOLEAN
  /\ wb.armed => ~wb.active
  /\ ~wb.active => wb.bits_left = 0 /\ ~wb.oe
  /\ wb.active => wb.bits_left \in 1..FRAME_BITS

ShifterInv ==
  wb.active =>
    /\ IsRow(wb.shifter, Ahead)
    /\ \A i \in 1..Ahead : Says(FRAME_BITS - Ahead + i, wb.shifter[i])
    /\ mdc = 0 => Says(FRAME_BITS - Ahead, wb.o)

EnableInv ==
  wb.active =>
    /\ mdc = 0 /\ wb.bits_left > DataBits + TA_BITS => wb.oe
    /\ wb.is_read /\ wb.bits_left <= DataBits + TA_BITS
         /\ (mdc = 0 \/ wb.bits_left <= DataBits + 1) => ~wb.oe

ProgInv ==
  /\ DOMAIN prog = {"state", "step", "polls", "after_reset", "ready", "failed"}
  /\ master = "prog" /\ prog.state \notin {"WAIT_BUSY", "RD_WAIT"} => ~busy

\* The wire is let go on the falling edge after the answer.
LetGo == phy.driving /\ phy.st = "Preamble" => mdc = 1

\* In the preamble the PHY is out of any frame, or on its way.
PreambleInv ==
  InPre => /\ Rest(phy) = 0 \/ Rest(phy) + Gone <= RestMax
           /\ Answers(phy) => Rest(phy) + Gone <= AddrRest
           /\ phy.driving /\ phy.st = "Preamble" => Gone <= AddrRest

\* After it the two are in step and agree on what is asked.
SyncInv ==
  InRest => /\ Rest(phy) = wb.bits_left
            /\ phy.st = "Op" /\ phy.count = 1 => phy.op = IF wb.is_read THEN {0} ELSE {}
            /\ phy.st \in Late => phy.op = IF wb.is_read THEN OP_READ ELSE OP_WRITE

\* Where nothing was ever cut, the PHY waits between frames.
QuietInv ==
  cuts = 0 /\ ~InRest =>
    phy.st = "Preamble" /\ (phy.driving => ~wb.active)

MdioIInv ==
  /\ StationInv /\ ShifterInv /\ EnableInv /\ ProgInv
  /\ PhyOK(phy) /\ DrivesRightly(phy) /\ LetGo
  /\ PreambleInv /\ SyncInv /\ QuietInv
-----------------------------------------------------------------------------
LEMMA Widths ==
  /\ PreambleBits \in Nat /\ AddrBits \in Nat \ {0} /\ DataBits \in Nat \ {0}
  /\ TA_BITS = 2 /\ DelimBits = 6 + 2 * AddrBits + DataBits
  /\ RestMax = 5 + 2 * AddrBits + DataBits /\ AddrRest = 2 + 2 * AddrBits + DataBits
  /\ FRAME_BITS = PreambleBits + DelimBits
  /\ FRAME_BITS \in Nat /\ DelimBits \in Nat
BY FrameAssumption DEF DelimBits, RestMax, AddrRest, FRAME_BITS, TA_BITS

LEMMA RestBounds ==
  ASSUME NEW p, PhyOK(p)
  PROVE  /\ Rest(p) \in Nat /\ Rest(p) <= RestMax
         /\ Rest(p) = 0 <=> p.st = "Preamble"
         /\ p.st \in Late => Rest(p) <= AddrRest
BY Widths DEF PhyOK, Rest, PhyStates, Late

\* A rising edge: the counter stays in bounds, the frame is a bit nearer its
\* end, and nothing but a read is answered.
Rises(p, bit, r) ==
  /\ PhyOK(r)
  /\ DrivesRightly(p) /\ ~(p.driving /\ p.st = "Preamble") => DrivesRightly(r)
  /\ r.st = "Preamble" /\ r.driving => p.driving
  /\ p.st = "Preamble" => r.st = IF bit = 1 THEN "Preamble" ELSE "St1"
  /\ p.st = "St1" => IF bit = 1 THEN r.st = "Op" /\ r.count = 0 ELSE r.st = "Preamble"
  /\ p.st # "Preamble" /\ (p.st = "St1" => bit = 1) => Rest(r) = Rest(p) - 1
  /\ p.st = "Op" => r.op = ShiftIn(p.op, bit, 2)
  /\ p.st = "Op" => r.st = IF p.count = 0 THEN "Op" ELSE "PhyAd"
  /\ p.st = "Op" /\ p.count = 0 => r.count = 1
  /\ p.st \in Late => r.op = p.op

LEMMA PhyRises ==
  ASSUME NEW q, NEW bit, PhyOK(q)
  PROVE  Rises(q, bit, on_rising(q, bit))
<1> DEFINE p == [q EXCEPT !.outBit = IF q.driving /\ @ > 0 THEN @ - 1 ELSE @]
           r == on_rising(q, bit)
<1>1. /\ DOMAIN p = PhyFields /\ p.st = q.st /\ p.count = q.count /\ p.op = q.op
      /\ p.driving = q.driving /\ p.forUs = q.forUs
  BY DEF PhyOK, PhyFields
<1> HIDE DEF p
<1>2. CASE q.st = "Preamble"
  <2>1. r = InPreamble(p, bit)
    BY <1>1, <1>2 DEF on_rising, p
  <2>2. /\ r.st = IF bit = 1 THEN "Preamble" ELSE "St1"
        /\ DOMAIN r = PhyFields /\ r.count = q.count /\ r.driving = q.driving
    BY <1>1, <1>2, <2>1 DEF InPreamble, PhyFields
  <2>3. q.count \in Nat /\ q.driving \in BOOLEAN
    BY DEF PhyOK
  <2>4. PhyOK(r)
    BY <2>2, <2>3 DEF PhyOK, PhyStates, Late
  <2>5. ~q.driving => DrivesRightly(r)
    BY <1>2, <2>2 DEF DrivesRightly
  <2> QED BY <1>1, <1>2, <2>2, <2>3, <2>4, <2>5 DEF Rises, Late
<1>3. CASE q.st = "St1"
  <2>1. r = InSt1(p, bit)
    BY <1>1, <1>3 DEF on_rising, p
  <2>2. /\ r.st = (IF bit = 1 THEN "Op" ELSE "Preamble") /\ r.count = 0 /\ r.op = {}
        /\ DOMAIN r = PhyFields /\ r.driving = q.driving
    BY <1>1, <2>1 DEF InSt1, Goes, PhyFields
  <2>3. q.driving \in BOOLEAN
    BY DEF PhyOK
  <2>4. PhyOK(r)
    BY <2>2, <2>3 DEF PhyOK, PhyStates, Late
  <2>5. DrivesRightly(q) => DrivesRightly(r)
    BY <1>3, <2>2 DEF DrivesRightly, Answers, Late
  <2>6. bit = 1 => Rest(r) = Rest(q) - 1
    BY <1>3, <2>2, Widths DEF Rest
  <2> QED BY <1>3, <2>2, <2>4, <2>5, <2>6 DEF Rises, Late
<1>4. CASE q.st = "Op"
  <2>1. r = InOp(p, bit)
    BY <1>1, <1>4 DEF on_rising, p
  <2> QED BY <1>1, <1>4, <2>1, Widths DEF InOp, Goes, Counted, Rises, Rest, PhyOK, DrivesRightly, Answers, PhyStates, Late, PhyFields
<1>5. CASE q.st = "PhyAd"
  <2>1. r = InPhyAd(p, bit)
    BY <1>1, <1>5 DEF on_rising, p
  <2> QED BY <1>1, <1>5, <2>1, Widths DEF InPhyAd, Goes, Counted, Rises, Rest, PhyOK, DrivesRightly, Answers, PhyStates, Late, PhyFields
<1>6. CASE q.st = "RegAd"
  <2>1. r = InRegAd(p, bit)
    BY <1>1, <1>6 DEF on_rising, p
  <2> QED BY <1>1, <1>6, <2>1, Widths DEF InRegAd, Latched, Reading, Goes, Counted, Rises, Rest, PhyOK, DrivesRightly, Answers, PhyStates, Late, PhyFields
<1>7. CASE q.st = "Ta"
  <2>1. r = InTa(p, bit)
    BY <1>1, <1>7 DEF on_rising, p
  <2>2. q.count \in {0, 1} /\ q.driving \in BOOLEAN
    BY <1>7, Widths DEF PhyOK
  <2>3. CASE q.count = 0
    <3>1. /\ r.st = "Ta" /\ r.count = 1 /\ r.op = q.op /\ DOMAIN r = PhyFields
          /\ r.driving = (q.driving \/ Reading(p))
      BY <1>1, <1>7, <2>1, <2>3, Widths DEF InTa, Counted, PhyFields
    <3>2. Reading(p) => q.op = OP_READ
      BY <1>1 DEF Reading
    <3>3. DrivesRightly(q) => DrivesRightly(r)
      BY <1>7, <2>2, <3>1, <3>2 DEF DrivesRightly, Answers, Late
    <3>4. PhyOK(r)
      BY <2>2, <3>1, Widths DEF PhyOK, PhyStates, Late
    <3>5. Rest(r) = Rest(q) - 1
      BY <1>7, <2>3, <3>1, Widths DEF Rest
    <3> QED BY <1>7, <3>1, <3>3, <3>4, <3>5 DEF Rises
  <2>4. CASE q.count = 1
    <3>1. /\ r.st = "Data" /\ r.count = 0 /\ r.op = q.op /\ DOMAIN r = PhyFields
          /\ r.driving = q.driving
      BY <1>1, <1>7, <2>1, <2>4, Widths DEF InTa, Goes, PhyFields
    <3>2. DrivesRightly(q) => DrivesRightly(r)
      BY <1>7, <3>1 DEF DrivesRightly, Answers, Late
    <3>3. PhyOK(r) /\ Rest(r) = Rest(q) - 1
      BY <1>7, <2>2, <2>4, <3>1, Widths DEF PhyOK, PhyStates, Late, Rest
    <3> QED BY <1>7, <3>1, <3>2, <3>3 DEF Rises
  <2> QED BY <2>2, <2>3, <2>4
<1>8. CASE q.st = "Data"
  <2>1. r = InData(p, bit)
    BY <1>1, <1>8 DEF on_rising, p
  <2> QED BY <1>1, <1>8, <2>1, Widths DEF InData, Writing, Taken, Goes, Counted, Rises, Rest, PhyOK, DrivesRightly, Answers, PhyStates, Late, PhyFields
<1> QED BY <1>2, <1>3, <1>4, <1>5, <1>6, <1>7, <1>8 DEF PhyOK, PhyStates, Late, r

\* A falling edge changes nothing but that the wire is let go.
Falls(p, r) ==
  /\ PhyOK(r) /\ r.st = p.st /\ r.count = p.count /\ r.op = p.op /\ Rest(r) = Rest(p)
  /\ r.driving <=> p.driving /\ p.st # "Preamble"
  /\ DrivesRightly(p) => DrivesRightly(r)

LEMMA PhyFalls ==
  ASSUME NEW p, PhyOK(p)
  PROVE  Falls(p, on_falling(p))
BY DEF on_falling, Falls, PhyOK, DrivesRightly, Answers, Rest, PhyFields
-----------------------------------------------------------------------------
\* Rows of bits, and the frame.

LEMMA RowSeq ==
  ASSUME NEW s, NEW n \in Nat, IsRow(s, n)
  PROVE  /\ s \in Seq({s[i] : i \in 1..n}) /\ Len(s) = n
<1>1. s \in [1..n -> {s[i] : i \in 1..n}]
  BY DEF IsRow
<1> QED BY <1>1, LenProperties

LEMMA RowTail ==
  ASSUME NEW s, NEW n \in Nat \ {0}, IsRow(s, n)
  PROVE  /\ Head(s) = s[1] /\ IsRow(Tail(s), n - 1)
         /\ \A i \in 1..(n - 1) : Tail(s)[i] = s[i + 1]
<1>1. s \in Seq({s[i] : i \in 1..n}) /\ Len(s) = n
  BY RowSeq
<1>2. Head(s) = s[1] /\ s # <<>>
  BY <1>1
<1>3. /\ Tail(s) \in Seq({s[i] : i \in 1..n}) /\ Len(Tail(s)) = n - 1
      /\ \A i \in 1..(n - 1) : Tail(s)[i] = s[i + 1]
  BY <1>1, <1>2, HeadTailProperties
<1>4. Tail(s) \in [1..(n - 1) -> {s[i] : i \in 1..n}]
  BY <1>3, LenProperties
<1> QED BY <1>2, <1>3, <1>4 DEF IsRow

Joined(s, m, t, n, r) ==
  /\ IsRow(r, m + n)
  /\ \A i \in 1..m : r[i] = s[i]
  /\ \A i \in 1..n : r[m + i] = t[i]

LEMMA RowJoin ==
  ASSUME NEW s, NEW m \in Nat, IsRow(s, m), NEW t, NEW n \in Nat, IsRow(t, n)
  PROVE  Joined(s, m, t, n, s \o t)
<1> DEFINE S == {s[i] : i \in 1..m} \cup {t[i] : i \in 1..n}
<1>1. s \in [1..m -> S] /\ t \in [1..n -> S]
  BY DEF IsRow
<1> HIDE DEF S
<1>2. s \in Seq(S) /\ Len(s) = m
  BY <1>1, LenProperties
<1>3. t \in Seq(S) /\ Len(t) = n
  BY <1>1, LenProperties
<1>4. /\ s \o t \in Seq(S) /\ Len(s \o t) = m + n
      /\ \A i \in 1..(m + n) : (s \o t)[i] = IF i <= m THEN s[i] ELSE t[i - m]
  BY <1>2, <1>3, ConcatProperties
<1>5. s \o t \in [1..(m + n) -> S]
  BY <1>4, LenProperties
<1> QED BY <1>4, <1>5 DEF IsRow, Joined

\* The frame has its length, and its first bits say what Says has them say.
LEMMA FrameRow ==
  ASSUME wb.is_read \in BOOLEAN
  PROVE  /\ IsRow(frame, FRAME_BITS)
         /\ \A i \in 1..FRAME_BITS : Says(i, frame[i])
<1> DEFINE pre == Ones(PreambleBits)
           start == <<0, 1>>
           op == IF wb.is_read THEN <<1, 0>> ELSE <<0, 1>>
           phyad == Bits(wb.phyad, AddrBits)
           regad == Bits(wb.regad, AddrBits)
           ta == <<1, 0>>
           data == Bits(wb.wdata, DataBits)
           f1 == pre \o start
           f2 == f1 \o op
           f3 == f2 \o phyad
           f4 == f3 \o regad
           f5 == f4 \o ta
           f6 == f5 \o data
<1>1. /\ PreambleBits \in Nat /\ AddrBits \in Nat /\ DataBits \in Nat /\ 2 \in Nat
      /\ PreambleBits + 2 \in Nat /\ PreambleBits + 4 \in Nat
      /\ PreambleBits + 4 + AddrBits \in Nat /\ PreambleBits + 4 + 2 * AddrBits \in Nat
      /\ PreambleBits + 6 + 2 * AddrBits \in Nat
  BY Widths
<1>2. /\ IsRow(pre, PreambleBits) /\ IsRow(start, 2) /\ IsRow(op, 2) /\ IsRow(ta, 2)
      /\ IsRow(phyad, AddrBits) /\ IsRow(regad, AddrBits) /\ IsRow(data, DataBits)
  BY DEF IsRow, Ones, Bits
<1>3. /\ \A i \in 1..PreambleBits : pre[i] = 1
      /\ start[1] = 0 /\ start[2] = 1 /\ op[1] = Op1 /\ op[2] = 1 - Op1
      /\ phyad = Bits(wb.phyad, AddrBits) /\ regad = Bits(wb.regad, AddrBits)
      /\ data = Bits(wb.wdata, DataBits)
  BY DEF Ones, Op1
<1>4. frame = f6
  BY DEF frame
<1>5a. f1 = pre \o start
  OBVIOUS
<1>5b. f2 = f1 \o op
  OBVIOUS
<1>5c. f3 = f2 \o phyad
  OBVIOUS
<1>5d. f4 = f3 \o regad
  OBVIOUS
<1>5e. f5 = f4 \o ta
  OBVIOUS
<1>5f. f6 = f5 \o data
  OBVIOUS
<1> HIDE DEF pre, start, op, phyad, regad, ta, data, f1, f2, f3, f4, f5, f6
<1>6. /\ IsRow(f1, PreambleBits + 2)
      /\ \A i \in 1..PreambleBits : f1[i] = pre[i]
      /\ f1[PreambleBits + 1] = start[1]
      /\ f1[PreambleBits + 2] = start[2]
  <2>1. Joined(pre, PreambleBits, start, 2, f1)
    BY <1>1, <1>2, <1>5a, RowJoin
  <2> QED BY <2>1, <1>1, Widths DEF Joined
<1>7. /\ IsRow(f2, PreambleBits + 4)
      /\ \A i \in 1..(PreambleBits + 2) : f2[i] = f1[i]
      /\ f2[(PreambleBits + 2) + 1] = op[1]
      /\ f2[(PreambleBits + 2) + 2] = op[2]
  <2>1. Joined(f1, PreambleBits + 2, op, 2, f2)
    BY <1>1, <1>2, <1>5b, <1>6, RowJoin
  <2> QED BY <2>1, <1>1, Widths DEF Joined
<1>8. /\ IsRow(f3, PreambleBits + 4 + AddrBits)
      /\ \A i \in 1..(PreambleBits + 4) : f3[i] = f2[i]
      /\ \A i \in 1..AddrBits : f3[(PreambleBits + 4) + i] = phyad[i]
  <2>1. Joined(f2, PreambleBits + 4, phyad, AddrBits, f3)
    BY <1>1, <1>2, <1>5c, <1>7, RowJoin
  <2> QED BY <2>1, <1>1, Widths DEF Joined
<1>9. /\ IsRow(f4, PreambleBits + 4 + 2 * AddrBits)
      /\ \A i \in 1..(PreambleBits + 4 + AddrBits) : f4[i] = f3[i]
      /\ \A i \in 1..AddrBits : f4[(PreambleBits + 4 + AddrBits) + i] = regad[i]
  <2>1. Joined(f3, PreambleBits + 4 + AddrBits, regad, AddrBits, f4)
    BY <1>1, <1>2, <1>5d, <1>8, RowJoin
  <2> QED BY <2>1, <1>1, Widths DEF Joined
<1>10. /\ IsRow(f5, PreambleBits + 6 + 2 * AddrBits)
       /\ \A i \in 1..(PreambleBits + 4 + 2 * AddrBits) : f5[i] = f4[i]
       /\ f5[(PreambleBits + 4 + 2 * AddrBits) + 1] = ta[1]
       /\ f5[(PreambleBits + 4 + 2 * AddrBits) + 2] = ta[2]
  <2>1. Joined(f4, PreambleBits + 4 + 2 * AddrBits, ta, 2, f5)
    BY <1>1, <1>2, <1>5e, <1>9, RowJoin
  <2> QED BY <2>1, <1>1, Widths DEF Joined
<1>11. /\ IsRow(f6, FRAME_BITS)
       /\ \A i \in 1..(PreambleBits + 6 + 2 * AddrBits) : f6[i] = f5[i]
       /\ \A i \in 1..DataBits : f6[(PreambleBits + 6 + 2 * AddrBits) + i] = data[i]
  <2>1. Joined(f5, PreambleBits + 6 + 2 * AddrBits, data, DataBits, f6)
    BY <1>1, <1>2, <1>5f, <1>10, RowJoin
  <2> QED BY <2>1, <1>1, Widths DEF Joined
<1>12. ASSUME NEW i \in 1..FRAME_BITS
       PROVE  Says(i, f6[i])
  <2>1. i \in Int /\ 1 <= i /\ i <= FRAME_BITS
    BY Widths
  <2>2. i <= PreambleBits => f6[i] = 1
    BY <1>3, <1>6, <1>7, <1>8, <1>9, <1>10, <1>11, <2>1, Widths
  <2>3. /\ i = PreambleBits + 1 => f6[i] = 0
        /\ i = PreambleBits + 2 => f6[i] = 1
        /\ i = PreambleBits + 3 => f6[i] = Op1
        /\ i = PreambleBits + 4 => f6[i] = 1 - Op1
    BY <1>3, <1>6, <1>7, <1>8, <1>9, <1>10, <1>11, <2>1, Widths
  <2>4. ASSUME i > PreambleBits + 4, i <= PreambleBits + 4 + AddrBits
        PROVE  f6[i] = phyad[i - (PreambleBits + 4)]
    <3>1. f6[i] = f3[i]
      BY <1>9, <1>10, <1>11, <2>1, <2>4, Widths
    <3>2. /\ i - (PreambleBits + 4) \in 1..AddrBits
          /\ (PreambleBits + 4) + (i - (PreambleBits + 4)) = i
      BY <2>1, <2>4, Widths
    <3>3. \A m \in 1..AddrBits : f3[(PreambleBits + 4) + m] = phyad[m]
      BY <1>8
    <3> QED BY <3>1, <3>2, <3>3
  <2>5. ASSUME i > PreambleBits + 4 + AddrBits, i <= PreambleBits + 4 + 2 * AddrBits
        PROVE  f6[i] = regad[i - (PreambleBits + 4 + AddrBits)]
    <3>1. f6[i] = f4[i]
      BY <1>10, <1>11, <2>1, <2>5, Widths
    <3>2. /\ i - (PreambleBits + 4 + AddrBits) \in 1..AddrBits
          /\ (PreambleBits + 4 + AddrBits) + (i - (PreambleBits + 4 + AddrBits)) = i
      BY <2>1, <2>5, Widths
    <3>3. \A m \in 1..AddrBits : f4[(PreambleBits + 4 + AddrBits) + m] = regad[m]
      BY <1>9
    <3> QED BY <3>1, <3>2, <3>3
  <2>6. ASSUME i > PreambleBits + 6 + 2 * AddrBits
        PROVE  f6[i] = data[i - (PreambleBits + 6 + 2 * AddrBits)]
    <3>1. /\ i - (PreambleBits + 6 + 2 * AddrBits) \in 1..DataBits
          /\ (PreambleBits + 6 + 2 * AddrBits) + (i - (PreambleBits + 6 + 2 * AddrBits)) = i
      BY <2>1, <2>6, Widths
    <3>2. \A m \in 1..DataBits : f6[(PreambleBits + 6 + 2 * AddrBits) + m] = data[m]
      BY <1>11
    <3> QED BY <3>1, <3>2
  <2> QED BY <1>3, <2>2, <2>3, <2>4, <2>5, <2>6 DEF Says
<1> QED BY <1>4, <1>11, <1>12
-----------------------------------------------------------------------------
\* One lemma per action.

\* The PHY across a falling edge.
PhyKept ==
  /\ PhyOK(phy') /\ DrivesRightly(phy') /\ Rest(phy') = Rest(phy)
  /\ phy'.st = phy.st /\ phy'.count = phy.count /\ phy'.op = phy.op
  /\ ~(phy'.driving /\ phy'.st = "Preamble")
  /\ phy'.driving => phy.driving
  /\ Answers(phy') <=> Answers(phy)

LEMMA KeptByFalling ==
  ASSUME PhyOK(phy), DrivesRightly(phy), phy' = on_falling(phy)
  PROVE  PhyKept
<1>1. Falls(phy, phy')
  BY PhyFalls
<1> QED BY <1>1 DEF Falls, PhyKept, Answers

LEMMA FallingArmed ==
  ASSUME MdioIInv, Falling, wb.armed
  PROVE  MdioIInv'
<1>1. /\ mdc = 1 /\ mdc' = 0 /\ master' = master /\ cuts' = cuts /\ prog' = prog
      /\ phy' = on_falling(phy)
  BY DEF Falling
<1>2. PhyKept
  BY <1>1, KeptByFalling DEF MdioIInv
<1>3. ~wb.active /\ wb.is_read \in BOOLEAN
  BY DEF MdioIInv, StationInv
<1>4. /\ DOMAIN wb' = DOMAIN wb /\ wb'.is_read = wb.is_read
      /\ wb'.o = Head(frame) /\ wb'.shifter = Tail(frame) /\ wb'.bits_left = FRAME_BITS
      /\ wb'.active = TRUE /\ wb'.armed = FALSE /\ wb'.oe = TRUE
      /\ wb'.phyad = wb.phyad /\ wb'.regad = wb.regad /\ wb'.wdata = wb.wdata
  BY DEF Falling, OnFalling, MdioIInv, StationInv
<1>5. StationInv'
  <2>1. /\ wb'.active \in BOOLEAN /\ wb'.armed \in BOOLEAN /\ wb'.oe \in BOOLEAN
        /\ wb'.is_read \in BOOLEAN /\ ~wb'.armed /\ wb'.active
    BY <1>3, <1>4
  <2>2. wb'.bits_left \in 1..FRAME_BITS
    BY <1>4, Widths
  <2> QED BY <1>1, <1>4, <2>1, <2>2 DEF MdioIInv, StationInv
<1>6. ShifterInv'
  <2>1. IsRow(frame, FRAME_BITS) /\ \A i \in 1..FRAME_BITS : Says(i, frame[i])
    BY <1>3, FrameRow
  <2>2. /\ Head(frame) = frame[1] /\ IsRow(Tail(frame), FRAME_BITS - 1)
        /\ \A i \in 1..(FRAME_BITS - 1) : Tail(frame)[i] = frame[i + 1]
    <3>1. FRAME_BITS \in Nat \ {0}
      BY Widths
    <3> QED BY <2>1, <3>1, RowTail
  <2>3. Ahead' = FRAME_BITS - 1
    BY <1>1, <1>4, Widths DEF Ahead
  <2>4. \A k, b : Says(k, b)' <=> Says(k, b)
    BY <1>4 DEF Says, Op1
  <2>5. ASSUME NEW i \in 1..(FRAME_BITS - 1)
        PROVE  Says(1 + i, Tail(frame)[i])
    <3>1. 1 + i = i + 1 /\ i + 1 \in 1..FRAME_BITS
      BY Widths
    <3> QED BY <2>1, <2>2, <3>1
  <2>6. Says(1, Head(frame))
    BY <2>1, <2>2, Widths
  <2>7. FRAME_BITS - (FRAME_BITS - 1) = 1
    BY Widths
  <2> QED BY <1>4, <2>2, <2>3, <2>4, <2>5, <2>6, <2>7 DEF ShifterInv
<1>7. EnableInv'
  BY <1>4, Widths DEF EnableInv
<1>8. ProgInv'
  BY <1>1, <1>3, <1>4 DEF MdioIInv, ProgInv, busy
<1>9. LetGo'
  BY <1>2 DEF PhyKept, LetGo
<1>10. PreambleInv'
  <2>1. Gone' = 0
    BY <1>4, Widths DEF Gone
  <2>2. Rest(phy') \in Nat /\ Rest(phy') <= RestMax
        /\ (phy'.st \in Late => Rest(phy') <= AddrRest)
    BY <1>2, RestBounds DEF PhyKept
  <2> QED BY <1>2, <2>1, <2>2, Widths DEF PreambleInv, PhyKept, Answers
<1>11. SyncInv'
  BY <1>4, Widths DEF SyncInv, InRest
<1>12. QuietInv'
  <2>1. ~InRest
    BY <1>3 DEF InRest
  <2> QED BY <1>1, <1>2, <2>1 DEF MdioIInv, QuietInv, PhyKept
<1> QED BY <1>2, <1>5, <1>6, <1>7, <1>8, <1>9, <1>10, <1>11, <1>12 DEF MdioIInv, PhyKept

LEMMA FallingActive ==
  ASSUME MdioIInv, Falling, wb.active
  PROVE  MdioIInv'
<1>1. /\ mdc = 1 /\ mdc' = 0 /\ master' = master /\ cuts' = cuts /\ prog' = prog
      /\ phy' = on_falling(phy)
  BY DEF Falling
<1>2. PhyKept
  BY <1>1, KeptByFalling DEF MdioIInv
<1>3. /\ ~wb.armed /\ wb.is_read \in BOOLEAN
      /\ wb.bits_left \in Nat /\ 1 <= wb.bits_left /\ wb.bits_left <= FRAME_BITS
  BY Widths DEF MdioIInv, StationInv
<1>4. /\ DOMAIN wb' = DOMAIN wb /\ wb'.is_read = wb.is_read
      /\ wb'.o = Head(wb.shifter) /\ wb'.shifter = Tail(wb.shifter)
      /\ wb'.bits_left = wb.bits_left /\ wb'.active = wb.active /\ wb'.armed = wb.armed
      /\ wb'.phyad = wb.phyad /\ wb'.regad = wb.regad /\ wb'.wdata = wb.wdata
      /\ wb'.oe = ~(wb.is_read /\ (in_ta \/ in_data))
  BY <1>3 DEF Falling, OnFalling, MdioIInv, StationInv
<1>5. in_ta \/ in_data <=> wb.bits_left <= DataBits + TA_BITS
  BY <1>3, Widths DEF in_ta, in_data
<1>6. StationInv'
  BY <1>1, <1>3, <1>4 DEF MdioIInv, StationInv
<1>7. ShifterInv'
  <2>1. Ahead = wb.bits_left /\ Ahead' = wb.bits_left - 1
    BY <1>1, <1>3, <1>4 DEF Ahead
  <2>2. /\ IsRow(wb.shifter, wb.bits_left)
        /\ \A i \in 1..wb.bits_left :
             Says(FRAME_BITS - wb.bits_left + i, wb.shifter[i])
    BY <2>1 DEF MdioIInv, ShifterInv
  <2>3. /\ Head(wb.shifter) = wb.shifter[1]
        /\ IsRow(Tail(wb.shifter), wb.bits_left - 1)
        /\ \A i \in 1..(wb.bits_left - 1) : Tail(wb.shifter)[i] = wb.shifter[i + 1]
    <3>1. wb.bits_left \in Nat \ {0}
      BY <1>3
    <3> QED BY <2>2, <3>1, RowTail
  <2>4. \A k, b : Says(k, b)' <=> Says(k, b)
    BY <1>4 DEF Says, Op1
  <2>5. ASSUME NEW i \in 1..(wb.bits_left - 1)
        PROVE  Says(FRAME_BITS - (wb.bits_left - 1) + i, Tail(wb.shifter)[i])
    <3>1. i + 1 \in 1..wb.bits_left
      BY <1>3
    <3>2. FRAME_BITS - wb.bits_left + (i + 1) = FRAME_BITS - (wb.bits_left - 1) + i
      BY <1>3, Widths
    <3>3. Says(FRAME_BITS - wb.bits_left + (i + 1), wb.shifter[i + 1])
      BY <2>2, <3>1
    <3> QED BY <2>3, <3>2, <3>3
  <2>6. Says(FRAME_BITS - (wb.bits_left - 1), Head(wb.shifter))
    <3>1. FRAME_BITS - wb.bits_left + 1 = FRAME_BITS - (wb.bits_left - 1) /\ 1 \in 1..wb.bits_left
      BY <1>3, Widths
    <3>2. Says(FRAME_BITS - wb.bits_left + 1, wb.shifter[1])
      BY <2>2, <3>1
    <3> QED BY <2>3, <3>1, <3>2
  <2> QED BY <1>4, <2>1, <2>3, <2>4, <2>5, <2>6 DEF ShifterInv
<1>8. EnableInv'
  <2>1. wb.bits_left > DataBits + TA_BITS <=> ~(wb.bits_left <= DataBits + TA_BITS)
    BY <1>3, Widths
  <2> QED BY <1>3, <1>4, <1>5, <2>1 DEF EnableInv
<1>9. ProgInv'
  BY <1>1, <1>4 DEF MdioIInv, ProgInv, busy
<1>10. LetGo'
  BY <1>2 DEF PhyKept, LetGo
<1>11. Gone' = Gone /\ (InPre' <=> InPre) /\ (InRest' <=> InRest) /\ Op1' = Op1
  BY <1>4 DEF Gone, InPre, InRest, Op1
<1>12. PreambleInv'
  BY <1>2, <1>11 DEF MdioIInv, PreambleInv, PhyKept
<1>13. SyncInv'
  BY <1>2, <1>4, <1>11 DEF MdioIInv, SyncInv, PhyKept
<1>14. QuietInv'
  BY <1>1, <1>2, <1>11 DEF MdioIInv, QuietInv, PhyKept
<1> QED BY <1>2, <1>6, <1>7, <1>8, <1>9, <1>10, <1>12, <1>13, <1>14 DEF MdioIInv, PhyKept

LEMMA FallingIdle ==
  ASSUME MdioIInv, Falling, ~wb.armed, ~wb.active
  PROVE  MdioIInv'
<1>1. /\ mdc = 1 /\ mdc' = 0 /\ master' = master /\ cuts' = cuts /\ prog' = prog
      /\ phy' = on_falling(phy) /\ wb' = wb
  BY DEF Falling, OnFalling
<1>2. PhyKept
  BY <1>1, KeptByFalling DEF MdioIInv
<1>3. StationInv' /\ ProgInv'
  BY <1>1 DEF MdioIInv, StationInv, ProgInv, busy
<1>4. ShifterInv' /\ EnableInv' /\ PreambleInv' /\ SyncInv' /\ ~InRest'
  BY <1>1 DEF ShifterInv, EnableInv, PreambleInv, SyncInv, InPre, InRest
<1>5. LetGo'
  BY <1>2 DEF PhyKept, LetGo
<1>6. QuietInv'
  BY <1>1, <1>2, <1>4 DEF MdioIInv, QuietInv, PhyKept, InRest
<1> QED BY <1>2, <1>3, <1>4, <1>5, <1>6 DEF MdioIInv, PhyKept

\* What a rising edge does to the PHY.
LEMMA RisesNow ==
  ASSUME MdioIInv, Rising
  PROVE  /\ mdc = 0 /\ mdc' = 1 /\ master' = master /\ cuts' = cuts /\ prog' = prog
         /\ Rises(phy, Wire, phy') /\ ~(phy.driving /\ phy.st = "Preamble")
         /\ PhyOK(phy') /\ DrivesRightly(phy') /\ LetGo'
<1>1. /\ mdc = 0 /\ mdc' = 1 /\ master' = master /\ cuts' = cuts /\ prog' = prog
      /\ phy' = on_rising(phy, Wire)
  BY DEF Rising
<1>2. Rises(phy, Wire, phy')
  BY <1>1, PhyRises DEF MdioIInv
<1>3. ~(phy.driving /\ phy.st = "Preamble")
  BY <1>1 DEF MdioIInv, LetGo
<1>4. LetGo'
  BY <1>1 DEF LetGo
<1> QED BY <1>1, <1>2, <1>3, <1>4 DEF Rises, MdioIInv

LEMMA RisingIdle ==
  ASSUME MdioIInv, Rising, ~wb.active
  PROVE  MdioIInv'
<1>1. wb' = wb
  BY DEF Rising, OnRising
<1>2. StationInv' /\ ProgInv'
  BY <1>1, RisesNow DEF MdioIInv, StationInv, ProgInv, busy
<1>3. ShifterInv' /\ EnableInv' /\ PreambleInv' /\ SyncInv' /\ ~InRest /\ ~InRest'
  BY <1>1 DEF ShifterInv, EnableInv, PreambleInv, SyncInv, InPre, InRest
<1>4. QuietInv'
  <2>1. SUFFICES ASSUME cuts = 0
                 PROVE  phy'.st = "Preamble" /\ (phy'.driving => ~wb'.active)
    BY RisesNow DEF QuietInv
  <2>2. phy.st = "Preamble" /\ ~phy.driving
    BY <1>3, <2>1, RisesNow DEF MdioIInv, QuietInv
  <2>3. master # "bitbang" /\ ~wb.oe
    BY DEF Rising, MdioIInv, StationInv
  <2>4. Wire = 1
    BY <2>2, <2>3 DEF Wire, Drives
  <2> QED BY <1>1, <2>2, <2>4, RisesNow DEF Rises
<1> QED BY <1>2, <1>3, <1>4, RisesNow DEF MdioIInv

\* The last bit of a frame.
LEMMA RisingLast ==
  ASSUME MdioIInv, Rising, wb.active, wb.bits_left = 1
  PROVE  MdioIInv'
<1>1. /\ DOMAIN wb' = DOMAIN wb /\ wb'.is_read = wb.is_read /\ wb'.armed = wb.armed
      /\ wb'.bits_left = 0 /\ wb'.active = FALSE /\ wb'.oe = FALSE
  BY DEF Rising, OnRising, MdioIInv, StationInv
<1>2. StationInv'
  BY <1>1, RisesNow DEF MdioIInv, StationInv
<1>3. ProgInv'
  BY <1>1, RisesNow DEF MdioIInv, ProgInv, busy
<1>4. ShifterInv' /\ EnableInv' /\ PreambleInv' /\ SyncInv'
  BY <1>1 DEF ShifterInv, EnableInv, PreambleInv, SyncInv, InPre, InRest
<1>5. phy'.st = "Preamble"
  <2>1. Rest(phy) = 1
    BY Widths DEF MdioIInv, SyncInv, InRest
  <2>2. phy.st # "Preamble" /\ phy.st # "St1"
    BY <2>1, Widths DEF Rest
  <2>3. Rest(phy') = 0
    BY <2>1, <2>2, RisesNow DEF Rises
  <2> QED BY <2>3, RisesNow, RestBounds
<1>6. QuietInv'
  BY <1>1, <1>5 DEF QuietInv
<1> QED BY <1>2, <1>3, <1>4, <1>6, RisesNow DEF MdioIInv

\* Any bit but the last: what it does to the station.
StationMoves ==
  /\ wb.bits_left \in Nat /\ 1 < wb.bits_left /\ wb.bits_left <= FRAME_BITS
  /\ DOMAIN wb' = DOMAIN wb /\ wb'.is_read = wb.is_read /\ wb'.armed = wb.armed
  /\ wb'.shifter = wb.shifter /\ wb'.o = wb.o /\ wb'.oe = wb.oe
  /\ wb'.active = wb.active /\ wb'.bits_left = wb.bits_left - 1
  /\ wb'.phyad = wb.phyad /\ wb'.regad = wb.regad /\ wb'.wdata = wb.wdata

LEMMA RisingStation ==
  ASSUME MdioIInv, Rising, wb.active, wb.bits_left # 1
  PROVE  /\ StationMoves
         /\ StationInv' /\ ShifterInv' /\ EnableInv' /\ ProgInv'
         /\ Says(FRAME_BITS - wb.bits_left + 1, wb.o)
         /\ wb.bits_left > DataBits + TA_BITS => Wire = wb.o
<1>1. StationMoves
  <2>1. wb.bits_left \in Nat /\ 1 < wb.bits_left /\ wb.bits_left <= FRAME_BITS
    BY Widths DEF MdioIInv, StationInv
  <2> QED BY <2>1 DEF StationMoves, Rising, OnRising, MdioIInv, StationInv
<1>2. StationInv'
  <2>1. wb'.bits_left \in 1..FRAME_BITS
    BY <1>1, Widths DEF StationMoves
  <2> QED BY <1>1, <2>1, RisesNow DEF StationMoves, MdioIInv, StationInv
<1>3. ProgInv'
  BY <1>1, RisesNow DEF StationMoves, MdioIInv, ProgInv, busy
<1>4. Ahead = wb.bits_left - 1 /\ Ahead' = Ahead
  BY <1>1, RisesNow DEF Ahead, StationMoves
<1>5. ShifterInv'
  <2>1. \A k, b : Says(k, b)' <=> Says(k, b)
    BY <1>1 DEF Says, Op1, StationMoves
  <2>2. IsRow(wb.shifter, Ahead)
        /\ \A i \in 1..Ahead : Says(FRAME_BITS - Ahead + i, wb.shifter[i])
    BY DEF MdioIInv, ShifterInv
  <2> QED BY <1>1, <1>4, <2>1, <2>2, RisesNow DEF ShifterInv, StationMoves
<1>6. EnableInv'
  <2>1. wb'.bits_left <= DataBits + 1 => wb.bits_left <= DataBits + TA_BITS
    BY <1>1, Widths DEF StationMoves
  <2> QED BY <1>1, <2>1, RisesNow DEF StationMoves, MdioIInv, EnableInv
<1>7. Says(FRAME_BITS - wb.bits_left + 1, wb.o)
  <2>1. FRAME_BITS - Ahead = FRAME_BITS - wb.bits_left + 1
    BY <1>1, <1>4, Widths DEF StationMoves
  <2>2. Says(FRAME_BITS - Ahead, wb.o)
    BY RisesNow DEF MdioIInv, ShifterInv
  <2> QED BY <2>1, <2>2
<1>8. wb.bits_left > DataBits + TA_BITS => Wire = wb.o
  BY RisesNow DEF MdioIInv, EnableInv, Wire, Drives, Out, Rising
<1> QED BY <1>1, <1>2, <1>3, <1>5, <1>6, <1>7, <1>8

\* In the preamble the wire is high: a frame cut short goes on to its end, and
\* an opcode taken from ones is no read.
LEMMA RisingPreamble ==
  ASSUME MdioIInv, Rising, wb.active, wb.bits_left > DelimBits
  PROVE  MdioIInv'
<1>1. wb.bits_left # 1 /\ wb.bits_left > DataBits + TA_BITS /\ InPre /\ ~InRest
  <2>1. wb.bits_left \in Nat
    BY Widths DEF MdioIInv, StationInv
  <2> QED BY <2>1, Widths DEF InPre, InRest
<1>2. StationMoves
  BY <1>1, RisingStation
<1>3. Wire = 1
  <2>1. FRAME_BITS - wb.bits_left + 1 <= PreambleBits
    BY <1>2, Widths DEF StationMoves
  <2>2. Says(FRAME_BITS - wb.bits_left + 1, wb.o) /\ Wire = wb.o
    BY <1>1, RisingStation
  <2> QED BY <2>1, <2>2 DEF Says
<1>4. /\ InPre' /\ ~InRest' /\ Gone' = Gone + 1 /\ Gone \in Nat
  BY <1>2, Widths DEF StationMoves, InPre, InRest, Gone
<1>5. Rest(phy) \in Nat /\ (Rest(phy) = 0 <=> phy.st = "Preamble")
  BY RestBounds DEF MdioIInv
<1>6. CASE phy.st = "Preamble"
  <2>1. phy'.st = "Preamble" /\ ~phy'.driving
    BY <1>3, <1>6, RisesNow DEF Rises, PhyOK
  <2>2. Rest(phy') = 0
    BY <2>1 DEF Rest
  <2>3. PreambleInv'
    BY <2>1, <2>2 DEF PreambleInv, Answers, Late
  <2>4. SyncInv' /\ QuietInv'
    BY <1>4, <2>1 DEF SyncInv, QuietInv
  <2> QED BY <1>1, <2>3, <2>4, RisingStation, RisesNow DEF MdioIInv
<1>7. CASE phy.st # "Preamble"
  <2>1. Rest(phy') = Rest(phy) - 1
    BY <1>3, <1>7, RisesNow DEF Rises
  <2>2. Rest(phy) + Gone <= RestMax
    BY <1>1, <1>5, <1>7 DEF MdioIInv, PreambleInv
  <2>3. Rest(phy') + Gone' <= RestMax
    BY <1>4, <1>5, <2>1, <2>2, Widths
  <2>4. Answers(phy) => Rest(phy) + Gone <= AddrRest
    BY <1>1 DEF MdioIInv, PreambleInv
  <2>5. ASSUME Answers(phy')
        PROVE  Rest(phy') + Gone' <= AddrRest
    <3>1. phy.st # "St1"
      BY <1>3, <2>5, RisesNow DEF Rises, Answers, Late
    <3>2. CASE phy.st = "Op"
      <4>1. phy'.op = ShiftIn(phy.op, 1, 2)
        BY <1>3, <3>2, RisesNow DEF Rises
      <4>2. 0 \in phy'.op
        BY <4>1 DEF ShiftIn
      <4>3. phy'.op = {1}
        BY <2>5 DEF Answers, OP_READ
      <4> QED BY <4>2, <4>3
    <3>3. CASE phy.st \in Late
      <4>1. Answers(phy)
        BY <2>5, <3>3, RisesNow DEF Rises, Answers
      <4> QED BY <1>4, <1>5, <2>1, <2>4, <4>1, Widths
    <3> QED BY <1>7, <3>1, <3>2, <3>3 DEF MdioIInv, PhyOK, PhyStates
  <2>6. ASSUME phy'.driving, phy'.st = "Preamble"
        PROVE  Gone' <= AddrRest
    <3>1. phy.driving
      BY <2>6, RisesNow DEF Rises
    <3>2. Answers(phy)
      BY <1>7, <3>1 DEF MdioIInv, DrivesRightly
    <3>3. Rest(phy) >= 1
      BY <1>5, <1>7
    <3> QED BY <1>4, <1>5, <2>4, <3>2, <3>3, Widths
  <2>7. PreambleInv'
    BY <2>3, <2>5, <2>6 DEF PreambleInv
  <2>8. SyncInv'
    BY <1>4 DEF SyncInv
  <2>9. QuietInv'
    BY <1>1, <1>7, RisesNow DEF MdioIInv, QuietInv
  <2> QED BY <1>1, <2>7, <2>8, <2>9, RisingStation, RisesNow DEF MdioIInv
<1> QED BY <1>6, <1>7

\* When the preamble ends the PHY is looking for the start delimiter.
LEMMA Waiting ==
  ASSUME PreambleOutlasts, MdioIInv, wb.active, wb.bits_left = DelimBits
  PROVE  phy.st = "Preamble"
<1>1. Rest(phy) \in Nat /\ (Rest(phy) = 0 <=> phy.st = "Preamble")
  BY RestBounds DEF MdioIInv
<1>2. InPre /\ Gone = PreambleBits
  BY Widths DEF InPre, Gone
<1>3. Rest(phy) = 0 \/ Rest(phy) + Gone <= RestMax
  BY <1>2 DEF MdioIInv, PreambleInv
<1>4. PreambleBits >= RestMax
  BY DEF PreambleOutlasts
<1> QED BY <1>1, <1>2, <1>3, <1>4, Widths

LEMMA RisingDelimiter ==
  ASSUME PreambleOutlasts, MdioIInv, Rising, wb.active, wb.bits_left = DelimBits
  PROVE  MdioIInv'
<1>1. wb.bits_left # 1 /\ wb.bits_left > DataBits + TA_BITS
  BY Widths
<1>2. StationMoves
  BY <1>1, RisingStation
<1>3. Wire = 0
  <2>1. FRAME_BITS - wb.bits_left + 1 = PreambleBits + 1
    BY Widths
  <2>2. Says(PreambleBits + 1, wb.o) /\ Wire = wb.o
    BY <1>1, <2>1, RisingStation
  <2> QED BY <2>2, Widths DEF Says
<1>4. phy'.st = "St1"
  BY <1>3, Waiting, RisesNow DEF Rises
<1>5. Rest(phy') = RestMax
  BY <1>4 DEF Rest
<1>6. ~InPre' /\ InRest' /\ wb'.bits_left = RestMax
  BY <1>2, Widths DEF StationMoves, InPre, InRest
<1>7. PreambleInv' /\ QuietInv' /\ SyncInv'
  BY <1>4, <1>5, <1>6 DEF PreambleInv, QuietInv, SyncInv, Late
<1> QED BY <1>1, <1>7, RisingStation, RisesNow DEF MdioIInv

LEMMA RisingRest ==
  ASSUME MdioIInv, Rising, wb.active, wb.bits_left < DelimBits, wb.bits_left # 1
  PROVE  MdioIInv'
<1> DEFINE k == wb.bits_left
<1>1. StationMoves
  BY RisingStation
<1>2. InRest /\ InRest' /\ ~InPre' /\ Op1' = Op1
  BY <1>1, Widths DEF StationMoves, InRest, InPre, Op1
<1>3. Rest(phy) = k /\ k \in Nat /\ k >= 2
  BY <1>1, <1>2 DEF MdioIInv, SyncInv, StationMoves
<1>4. phy.st # "Preamble"
  BY <1>3 DEF Rest
\* The bits of the delimiter and the opcode.
<1>5. k > DataBits + TA_BITS => Wire = wb.o /\ Says(FRAME_BITS - k + 1, wb.o)
  BY RisingStation
<1>6. CASE phy.st = "St1"
  <2>1. k = DelimBits - 1
    BY <1>3, <1>6, Widths DEF Rest
  <2>2. Wire = 1
    <3>1. FRAME_BITS - k + 1 = PreambleBits + 2 /\ k > DataBits + TA_BITS
      BY <2>1, Widths
    <3>2. Wire = wb.o /\ Says(PreambleBits + 2, wb.o)
      BY <1>5, <3>1
    <3> QED BY <3>2, Widths DEF Says
  <2>3. phy'.st = "Op" /\ phy'.count = 0 /\ Rest(phy') = k - 1
    BY <1>3, <1>6, <2>2, RisesNow DEF Rises
  <2> QED BY <1>1, <1>2, <2>3, RisingStation, RisesNow
       DEF MdioIInv, PreambleInv, SyncInv, QuietInv, StationMoves, Late
<1>7. CASE phy.st = "Op" /\ phy.count = 0
  <2>1. k = DelimBits - 2
    BY <1>3, <1>7, Widths DEF Rest
  <2>2. Wire = Op1
    <3>1. FRAME_BITS - k + 1 = PreambleBits + 3 /\ k > DataBits + TA_BITS
      BY <2>1, Widths
    <3>2. Wire = wb.o /\ Says(PreambleBits + 3, wb.o)
      BY <1>5, <3>1
    <3> QED BY <3>2, Widths DEF Says
  <2>3. phy.op = {}
    BY <1>7 DEF MdioIInv, PhyOK
  <2>4. /\ phy'.st = "Op" /\ phy'.count = 1 /\ Rest(phy') = k - 1
        /\ phy'.op = ShiftIn({}, Wire, 2)
    BY <1>3, <1>7, <2>3, RisesNow DEF Rises
  <2>5. phy'.op = IF wb.is_read THEN {0} ELSE {}
    BY <2>2, <2>4 DEF Op1, ShiftIn
  <2> QED BY <1>1, <1>2, <2>4, <2>5, RisingStation, RisesNow
       DEF MdioIInv, PreambleInv, SyncInv, QuietInv, StationMoves, Late
<1>8. CASE phy.st = "Op" /\ phy.count # 0
  <2>1. phy.count = 1
    BY <1>8 DEF MdioIInv, PhyOK
  <2>2. k = DelimBits - 3
    BY <1>3, <1>8, <2>1, Widths DEF Rest
  <2>3. Wire = 1 - Op1
    <3>1. FRAME_BITS - k + 1 = PreambleBits + 4 /\ k > DataBits + TA_BITS
      BY <2>2, Widths
    <3>2. Wire = wb.o /\ Says(PreambleBits + 4, wb.o)
      BY <1>5, <3>1
    <3> QED BY <3>2, Widths DEF Says
  <2>4. phy.op = IF wb.is_read THEN {0} ELSE {}
    BY <1>2, <1>8, <2>1 DEF MdioIInv, SyncInv
  <2>5. /\ phy'.st = "PhyAd" /\ Rest(phy') = k - 1
        /\ phy'.op = ShiftIn(phy.op, Wire, 2)
    BY <1>3, <1>8, <2>1, RisesNow DEF Rises
  <2>6. phy'.op = IF wb.is_read THEN OP_READ ELSE OP_WRITE
    <3>1. CASE wb.is_read
      BY <2>3, <2>4, <2>5, <3>1 DEF Op1, OP_READ, ShiftIn
    <3>2. CASE ~wb.is_read
      BY <2>3, <2>4, <2>5, <3>2 DEF Op1, OP_WRITE, ShiftIn
    <3> QED BY <3>1, <3>2
  <2> QED BY <1>1, <1>2, <2>5, <2>6, RisingStation, RisesNow
       DEF MdioIInv, PreambleInv, SyncInv, QuietInv, StationMoves, Late, OP_READ, OP_WRITE
<1>9. CASE phy.st \in Late
  <2>1. phy'.op = phy.op /\ Rest(phy') = k - 1
    BY <1>3, <1>9, RisesNow DEF Rises, Late
  <2>2. phy'.st # "Op"
    BY <2>1, <1>3, <1>9, RisesNow, Widths DEF MdioIInv, Rest, PhyOK, Late
  <2>3. phy.op = IF wb.is_read THEN OP_READ ELSE OP_WRITE
    BY <1>2, <1>9 DEF MdioIInv, SyncInv
  <2> QED BY <1>1, <1>2, <2>1, <2>2, <2>3, RisingStation, RisesNow
       DEF MdioIInv, PreambleInv, SyncInv, QuietInv, StationMoves
<1> QED BY <1>4, <1>6, <1>7, <1>8, <1>9 DEF MdioIInv, PhyOK, PhyStates

\* The driver's own steps only arm a request, or ready one, between frames.
Arms ==
  /\ ~busy /\ DOMAIN wb' = DOMAIN wb /\ wb'.active = wb.active
  /\ wb'.bits_left = wb.bits_left /\ wb'.oe = wb.oe
  /\ wb'.armed \in BOOLEAN /\ wb'.is_read \in BOOLEAN

LEMMA DriverArms ==
  ASSUME MdioIInv, Arms, ProgInv', UNCHANGED <<phy, master, mdc, cuts>>
  PROVE  MdioIInv'
<1>1. ~wb.active /\ ~wb'.active
  BY DEF Arms, busy
<1>2. StationInv'
  BY <1>1 DEF Arms, MdioIInv, StationInv
<1>3. ShifterInv' /\ EnableInv' /\ PreambleInv' /\ SyncInv' /\ ~InRest /\ ~InRest'
  BY <1>1 DEF ShifterInv, EnableInv, PreambleInv, SyncInv, InPre, InRest
<1>4. QuietInv' /\ LetGo'
  BY <1>1, <1>3 DEF MdioIInv, QuietInv, LetGo
<1> QED BY <1>2, <1>3, <1>4 DEF MdioIInv

LEMMA CtrlArms ==
  ASSUME MdioIInv, ~busy, NEW a, NEW r, NEW d \in BOOLEAN, NEW v,
         \/ wb' = WriteCtrl(a, r, d)
         \/ wb' = [WriteCtrl(a, r, d) EXCEPT !.wdata = v]
         \/ wb' = WriteWdata(v)
  PROVE  Arms
BY DEF Arms, WriteCtrl, WriteWdata, busy, MdioIInv, StationInv

LEMMA ProgramStep ==
  ASSUME MdioIInv, Program
  PROVE  MdioIInv'
<1>1. /\ master = "prog" /\ ProgStep /\ UNCHANGED <<phy, master, mdc, cuts>>
      /\ DOMAIN prog = {"state", "step", "polls", "after_reset", "ready", "failed"}
  BY DEF Program, MdioIInv, ProgInv
<1>2. CASE wb' = wb
  <2>1. ProgInv'
    <3>1. CASE prog' = prog
      BY <1>1, <1>2, <3>1 DEF MdioIInv, ProgInv, busy
    <3>2. CASE ~busy /\ DOMAIN prog' = DOMAIN prog
      BY <1>1, <1>2, <3>2 DEF MdioIInv, ProgInv, busy
    <3>3. WAIT_BUSY \/ RD_WAIT => prog' = prog \/ (~busy /\ DOMAIN prog' = DOMAIN prog)
      BY DEF WAIT_BUSY, RD_WAIT, AfterWrite, To, NextStep
    <3>4. ~(WAIT_BUSY \/ RD_WAIT) => ~busy
      BY <1>1 DEF MdioIInv, ProgInv, ProgStep, WR_DATA, WR_CTRL, RESET_WAIT, RD_CTRL,
                  RD_DATA, DONE
    <3>5. DOMAIN prog' = DOMAIN prog
      BY <1>1 DEF ProgStep, WR_DATA, WR_CTRL, WAIT_BUSY, AfterWrite, RESET_WAIT, RD_CTRL,
                  RD_WAIT, RD_DATA, DONE, To, NextStep
    <3> QED BY <3>1, <3>2, <3>3, <3>4, <3>5
  <2>2. /\ StationInv' /\ ShifterInv' /\ EnableInv' /\ LetGo'
        /\ PreambleInv' /\ SyncInv' /\ QuietInv'
    BY <1>1, <1>2 DEF MdioIInv, StationInv, ShifterInv, Ahead, Says, Op1, EnableInv, LetGo,
                      PreambleInv, InPre, Gone, SyncInv, InRest, QuietInv
  <2> QED BY <1>1, <2>1, <2>2 DEF MdioIInv
<1>3. CASE WR_DATA
  <2>1. ~busy /\ prog'.state = "WR_CTRL" /\ DOMAIN prog' = DOMAIN prog
    BY <1>1, <1>3 DEF MdioIInv, ProgInv, WR_DATA, To
  <2>2. Arms
    <3>1. \E v : wb' = WriteWdata(v)
      BY <1>3 DEF WR_DATA
    <3> QED BY <2>1, <3>1, CtrlArms
  <2>3. ~busy'
    BY <1>3, <2>1 DEF WR_DATA, WriteWdata, busy, MdioIInv, StationInv
  <2>4. ProgInv'
    BY <1>1, <2>1, <2>3 DEF ProgInv
  <2> QED BY <1>1, <2>2, <2>4, DriverArms
<1>4. CASE WR_CTRL \/ RD_CTRL
  <2>1. ~busy /\ prog'.state \in {"WAIT_BUSY", "RD_WAIT"} /\ DOMAIN prog' = DOMAIN prog
    BY <1>1, <1>4 DEF MdioIInv, ProgInv, WR_CTRL, RD_CTRL, To
  <2>2. Arms
    <3>1. \E a, r : \E d \in BOOLEAN : wb' = WriteCtrl(a, r, d)
      BY <1>4 DEF WR_CTRL, RD_CTRL
    <3> QED BY <2>1, <3>1, CtrlArms
  <2>3. ProgInv'
    BY <1>1, <2>1 DEF ProgInv
  <2> QED BY <1>1, <2>2, <2>3, DriverArms
<1> QED BY <1>1, <1>2, <1>3, <1>4 DEF ProgStep, WAIT_BUSY, RESET_WAIT, RD_WAIT, RD_DATA, DONE

LEMMA RestartStep ==
  ASSUME MdioIInv, Restart
  PROVE  MdioIInv'
<1>1. /\ wb' = wb /\ prog' = NewProg /\ ~busy /\ UNCHANGED <<phy, master, mdc, cuts>>
  BY DEF Restart, StartAgain, MdioIInv, ProgInv
<1>2. ProgInv'
  BY <1>1 DEF ProgInv, NewProg, busy
<1>3. Arms
  BY <1>1 DEF Arms, MdioIInv, StationInv
<1> QED BY <1>1, <1>2, <1>3, DriverArms

LEMMA HostStep ==
  ASSUME MdioIInv, Host
  PROVE  MdioIInv'
<1>1. /\ master = "host" /\ ~busy /\ UNCHANGED <<phy, prog, master, mdc, cuts>>
      /\ \E a, r, v : \E d \in BOOLEAN :
           \/ wb' = WriteCtrl(a, r, d)
           \/ wb' = [WriteCtrl(a, r, d) EXCEPT !.wdata = v]
  BY DEF Host
<1>2. Arms
  BY <1>1, CtrlArms
<1>3. ProgInv'
  BY <1>1 DEF MdioIInv, ProgInv
<1> QED BY <1>1, <1>2, <1>3, DriverArms

LEMMA CutStep ==
  ASSUME MdioIInv, Cut
  PROVE  MdioIInv'
<1>1. /\ cuts \in Nat /\ cuts' = cuts + 1 /\ wb' = NewStation /\ prog' = NewProg
      /\ mdc' = 0 /\ master' = master /\ master \in Masters
      /\ phy' = IF mdc = 1 THEN on_falling(phy) ELSE phy
  BY DEF Cut, MdioIInv, StationInv
<1>2. cuts' \in Nat /\ cuts' # 0
  BY <1>1
<1>3. PhyKept
  <2>1. CASE mdc = 1
    BY <1>1, <2>1, KeptByFalling DEF MdioIInv
  <2>2. CASE mdc # 1
    BY <1>1, <2>2 DEF MdioIInv, PhyKept, LetGo
  <2> QED BY <2>1, <2>2
<1>4. StationInv' /\ ShifterInv' /\ EnableInv' /\ PreambleInv' /\ SyncInv' /\ ProgInv'
  BY <1>1, <1>2 DEF StationInv, NewStation, ShifterInv, EnableInv, PreambleInv, SyncInv,
                    InPre, InRest, ProgInv, NewProg, busy
<1>5. QuietInv' /\ LetGo'
  BY <1>2, <1>3 DEF QuietInv, LetGo, PhyKept
<1> QED BY <1>3, <1>4, <1>5 DEF MdioIInv, PhyKept
-----------------------------------------------------------------------------
LEMMA MdioInit ==
  ASSUME Init
  PROVE  MdioIInv
<1>1. \E regs, addr : phy = NewPhy(regs, addr)
  BY DEF Init
<1>2. PhyOK(phy) /\ DrivesRightly(phy) /\ phy.st = "Preamble" /\ ~phy.driving
  BY <1>1 DEF NewPhy, PhyOK, DrivesRightly, PhyFields, PhyStates, Late
<1>3. wb = NewStation /\ prog = NewProg /\ mdc = 0 /\ cuts = 0 /\ master \in Masters
  BY DEF Init
<1>4. StationInv /\ ProgInv
  BY <1>3 DEF StationInv, NewStation, ProgInv, NewProg, busy
<1>5. ~wb.active
  BY <1>3 DEF NewStation
<1>6. /\ ShifterInv /\ EnableInv /\ PreambleInv /\ SyncInv /\ QuietInv /\ LetGo
  BY <1>2, <1>5 DEF ShifterInv, EnableInv, PreambleInv, SyncInv, InPre, InRest, QuietInv, LetGo
<1> QED BY <1>2, <1>4, <1>6 DEF MdioIInv

LEMMA MdioStep ==
  ASSUME PreambleOutlasts, MdioIInv, [Next]_vars
  PROVE  MdioIInv'
<1>1. master # "bitbang"
  BY DEF PreambleOutlasts, MdioIInv, StationInv
<1>2. CASE Falling
  BY <1>2, FallingArmed, FallingActive, FallingIdle
<1>3. CASE Rising
  <2>1. wb.active => wb.bits_left \in Nat
    BY Widths DEF MdioIInv, StationInv
  <2>2. \/ ~wb.active
        \/ wb.active /\ wb.bits_left = 1
        \/ wb.active /\ wb.bits_left > DelimBits
        \/ wb.active /\ wb.bits_left = DelimBits
        \/ wb.active /\ wb.bits_left < DelimBits /\ wb.bits_left # 1
    BY <2>1, Widths
  <2> QED BY <1>3, <2>2, RisingIdle, RisingLast, RisingPreamble, RisingDelimiter, RisingRest
<1>4. CASE UNCHANGED vars
  BY <1>4 DEF vars, MdioIInv, StationInv, ShifterInv, Ahead, Says, Op1, EnableInv, ProgInv,
              busy, LetGo, PreambleInv, InPre, Gone, SyncInv, InRest, QuietInv
<1> QED BY <1>1, <1>2, <1>3, <1>4, ProgramStep, RestartStep, HostStep, CutStep
        DEF Next, Call, WriteRead

\* The inductive invariant: how far the PHY is from the end of what it follows,
\* against how far the station is into its frame.
THEOREM MdioInductive == ASSUME PreambleOutlasts PROVE Spec => []MdioIInv
BY MdioInit, MdioStep, PTL DEF Spec
-----------------------------------------------------------------------------
LEMMA InvInStep ==
  ASSUME PreambleOutlasts, MdioIInv
  PROVE  InStep
<1>1. master # "bitbang" /\ DelimBits \in Nat \ {0} /\ FRAME_BITS - PreambleBits = DelimBits
  BY Widths DEF PreambleOutlasts, MdioIInv, StationInv
<1>2. Left = wb.bits_left
  BY <1>1 DEF Left
<1>3. wb.bits_left = DelimBits => wb.active
  BY <1>1 DEF MdioIInv, StationInv
<1> QED BY <1>1, <1>2, <1>3, Waiting DEF InStep

LEMMA InvOneDriver ==
  ASSUME PreambleOutlasts, MdioIInv
  PROVE  OneDriver
<1>1. master # "bitbang" /\ FRAME_BITS - PreambleBits = DelimBits
  BY Widths DEF PreambleOutlasts, MdioIInv, StationInv
<1>2. SUFFICES ASSUME wb.oe, phy.driving
               PROVE  cuts > 0 /\ wb.bits_left > DelimBits
  BY <1>1 DEF OneDriver, Drives, Left
<1>3. wb.active /\ wb.bits_left \in Nat /\ mdc \in {0, 1} /\ cuts \in Nat
  BY <1>2, Widths DEF MdioIInv, StationInv
<1>4. Rest(phy) \in Nat
  BY RestBounds DEF MdioIInv
<1>5. ~InRest
  <2>1. SUFFICES ASSUME InRest PROVE FALSE
    OBVIOUS
  <2>2. Rest(phy) = wb.bits_left /\ wb.bits_left # 0
    <3>1. Rest(phy) = wb.bits_left
      BY <2>1 DEF MdioIInv, SyncInv
    <3>2. wb.bits_left \in 1..FRAME_BITS
      BY <1>3 DEF MdioIInv, StationInv
    <3> QED BY <3>1, <3>2
  <2>3. Answers(phy) /\ (phy.st = "Data" \/ (phy.st = "Ta" /\ phy.count = 1))
    BY <1>2, <2>2 DEF MdioIInv, DrivesRightly, Rest
  <2>4. Rest(phy) <= DataBits + 1
    BY <2>3, Widths DEF Rest, MdioIInv, PhyOK
  <2>5. wb.is_read
    BY <2>1, <2>3 DEF MdioIInv, SyncInv, Answers, OP_READ, OP_WRITE
  <2>6. wb.bits_left <= DataBits + TA_BITS
    BY <1>3, <2>2, <2>4, Widths
  <2> QED BY <1>2, <1>3, <2>2, <2>4, <2>5, <2>6 DEF MdioIInv, EnableInv
<1>6. cuts > 0
  <2>1. cuts # 0
    BY <1>2, <1>3, <1>5 DEF MdioIInv, QuietInv
  <2> QED BY <1>3, <2>1
<1>7. InPre /\ Gone \in Int
  BY <1>3, <1>5, Widths DEF InPre, InRest, Gone
<1>8. Gone <= AddrRest
  <2>1. CASE phy.st = "Preamble"
    BY <1>2, <1>7, <2>1 DEF MdioIInv, PreambleInv
  <2>2. CASE phy.st # "Preamble"
    <3>1. Answers(phy)
      BY <1>2, <2>2 DEF MdioIInv, DrivesRightly
    <3>2. Rest(phy) + Gone <= AddrRest
      BY <1>7, <3>1 DEF MdioIInv, PreambleInv
    <3> QED BY <1>4, <1>7, <3>2, Widths
  <2> QED BY <2>1, <2>2
<1>9. wb.bits_left > DelimBits
  <2>1. PreambleBits >= RestMax
    BY DEF PreambleOutlasts
  <2> QED BY <1>3, <1>8, <2>1, Widths DEF Gone
<1> QED BY <1>6, <1>9

\* The PHY is looking for the start delimiter when a frame's preamble ends, for
\* any widths, requests and resets in mid-frame, where the preamble outlasts the
\* rest of a frame (wb_mdio's shift register, mdio_phy's states).
THEOREM InStepAlways == ASSUME PreambleOutlasts PROVE Spec => []InStep
<1>1. MdioIInv => InStep
  BY InvInStep
<1> QED BY <1>1, MdioInductive, PTL

\* Under the same assumption the station and the PHY never drive the wire at
\* once, but in the preamble after a reset (wb_mdio's in_ta and in_data).
THEOREM OneDriverAlways == ASSUME PreambleOutlasts PROVE Spec => []OneDriver
<1>1. MdioIInv => OneDriver
  BY InvOneDriver
<1> QED BY <1>1, MdioInductive, PTL
-----------------------------------------------------------------------------
\* What a frame carries, and how much of it each side has.

\* The last c bits shifted into x are the first c of the n-bit word y.
Shifted(x, c, n, y) == \A i \in 0..(c - 1) : i \in x <=> i + n - c \in y

PhyWords(p) ==
  /\ p.regs \in [Registers -> Values] /\ p.out \in Values /\ p.data \in Values
  /\ p.phyad \in Registers /\ p.regad \in Registers

WordsOK ==
  /\ wb.phyad \in Registers /\ wb.regad \in Registers
  /\ wb.wdata \in Values /\ wb.rdata \in Values /\ PhyWords(phy)

\* mdio_prog keeps to its sequence, and waits for a reset in the first step only.
StepsOK ==
  /\ prog.step \in 0..(NSTEPS - 1) /\ prog.after_reset \in BOOLEAN
  /\ prog.after_reset \/ prog.state \in {"RESET_WAIT", "RD_CTRL", "RD_WAIT", "RD_DATA"}
       => prog.step = 0

RequestOK ==
  /\ DOMAIN req = {"r", "over"} /\ req.over \in BOOLEAN /\ (req.over <=> ~wb.active)
  /\ wb.active => req.r = Started

\* A PHY's answer is what is in the register, but for the reset bit, which may
\* clear itself meanwhile.
Holds(p, reg) ==
  p.regs[reg] \subseteq p.out /\ (reg # MII_BMCR => p.out = p.regs[reg])

\* After the preamble the PHY has the words of the frame as far as they came,
\* and knows whether it is the one to answer, and what.
HearsInv ==
  InRest =>
    /\ phy.st = "PhyAd" => Shifted(phy.phyad, phy.count, AddrBits, wb.phyad)
    /\ phy.st \in {"RegAd", "Ta", "Data"} => phy.phyad = wb.phyad
    /\ phy.st = "RegAd" => Shifted(phy.regad, phy.count, AddrBits, wb.regad)
    /\ phy.st \in {"Ta", "Data"} =>
         /\ phy.regad = wb.regad /\ (phy.forUs <=> wb.phyad = phy.addr)
         /\ phy.forUs /\ wb.is_read => Holds(phy, wb.regad)
    /\ phy.st = "Data" /\ ~wb.is_read => Shifted(phy.data, phy.count, DataBits, wb.wdata)
    /\ wb.is_read /\ (phy.st = "Data" \/ (phy.st = "Ta" /\ phy.count = 1)) =>
         /\ phy.driving <=> phy.forUs
         /\ phy.driving => phy.outBit = IF phy.st = "Ta" THEN DataBits
                                        ELSE wb.bits_left - 1

\* What the station reads: the PHY's answer, or the pull-up where there is none.
Answer == IF wb.phyad = phy.addr THEN phy.out ELSE AllOnes
ReadsInv ==
  wb.active /\ wb.is_read /\ wb.bits_left <= DataBits =>
    Shifted(wb.rdata, DataBits - wb.bits_left, DataBits, Answer)

\* In a write the wire is the station's to the end.
HoldsWire == wb.active /\ ~wb.is_read /\ mdc = 0 => wb.oe

Done ==
  LET r == req.r
      here == r.phyad = phy.addr
  IN  /\ here /\ r.op = OP_WRITE => phy.regs[r.regad] = r.value
      /\ here /\ r.op = OP_READ => wb.rdata = phy.out /\ Holds(phy, r.regad)
      /\ ~here /\ r.op = OP_READ => wb.rdata = AllOnes
OverInv == req.over /\ req.r # NoRequest => phy.st = "Preamble" /\ Done

ExchInv ==
  /\ WordsOK /\ StepsOK /\ RequestOK /\ HearsInv /\ ReadsInv /\ HoldsWire /\ OverInv
-----------------------------------------------------------------------------
\* Shifting a word in, most significant bit first.

LEMMA ShiftWord ==
  ASSUME NEW x, NEW bit, NEW n \in Nat
  PROVE  ShiftIn(x, bit, n) \in SUBSET (0..(n - 1))
BY DEF ShiftIn

LEMMA ShiftStep ==
  ASSUME NEW n \in Nat, NEW c \in Nat, c < n, NEW x, NEW y, Shifted(x, c, n, y),
         NEW bit, bit = 1 <=> n - c - 1 \in y
  PROVE  Shifted(ShiftIn(x, bit, n), c + 1, n, y)
<1>1. SUFFICES ASSUME NEW i \in 0..((c + 1) - 1)
               PROVE  i \in ShiftIn(x, bit, n) <=> i + n - (c + 1) \in y
  BY DEF Shifted
<1>2. i \in 0..(n - 1)
  OBVIOUS
<1>3. CASE i = 0
  <2>1. i + n - (c + 1) = n - c - 1
    BY <1>3
  <2> QED BY <1>2, <1>3, <2>1 DEF ShiftIn
<1>4. CASE i # 0
  <2>1. i - 1 \in 0..(c - 1) /\ (i - 1) + n - c = i + n - (c + 1)
    BY <1>4
  <2>2. i - 1 \in x <=> i + n - (c + 1) \in y
    <3>1. i - 1 \in x <=> (i - 1) + n - c \in y
      BY <2>1 DEF Shifted
    <3> QED BY <2>1, <3>1
  <2> QED BY <1>2, <1>4, <2>2 DEF ShiftIn
<1> QED BY <1>3, <1>4

LEMMA ShiftDone ==
  ASSUME NEW n \in Nat, NEW x \in SUBSET (0..(n - 1)), NEW y \in SUBSET (0..(n - 1)),
         Shifted(x, n, n, y)
  PROVE  x = y
<1>1. ASSUME NEW i \in 0..(n - 1)
      PROVE  i \in x <=> i \in y
  <2>1. i + n - n = i
    OBVIOUS
  <2> QED BY <2>1 DEF Shifted
<1> QED BY <1>1

LEMMA ShiftedNone ==
  ASSUME NEW n, NEW x, NEW y
  PROVE  Shifted(x, 0, n, y)
BY DEF Shifted

LEMMA BitSent ==
  ASSUME NEW n \in Nat, NEW v, NEW c \in Nat, c < n
  PROVE  Bits(v, n)[c + 1] = 1 <=> n - c - 1 \in v
<1>1. c + 1 \in 1..n /\ n - (c + 1) = n - c - 1
  OBVIOUS
<1> QED BY <1>1 DEF Bits
-----------------------------------------------------------------------------
\* What a rising edge does to the words of a PHY.
Stepped(q) == IF q.driving /\ q.outBit > 0 THEN q.outBit - 1 ELSE q.outBit
SameAnswer(q, r) ==
  /\ r.phyad = q.phyad /\ r.regad = q.regad /\ r.forUs = q.forUs /\ r.out = q.out
Counts(q, r, n, next) ==
  /\ r.st = IF q.count + 1 < n THEN q.st ELSE next
  /\ r.count = IF q.count + 1 < n THEN q.count + 1 ELSE 0
Hears(q, bit, r) ==
  /\ PhyWords(r) /\ r.addr = q.addr
  /\ q.st # "Data" => \A m \in Registers : r.regs[m] \subseteq q.regs[m]
  /\ q.st = "Preamble" => r.regs = q.regs /\ r.out = q.out
  /\ q.st = "PhyAd" => /\ r.phyad = ShiftIn(q.phyad, bit, AddrBits)
                       /\ Counts(q, r, AddrBits, "RegAd")
  /\ q.st = "RegAd" =>
       /\ r.phyad = q.phyad /\ r.regad = ShiftIn(q.regad, bit, AddrBits)
       /\ Counts(q, r, AddrBits, "Ta")
       /\ r.st = "Ta" => /\ r.forUs = (q.phyad = q.addr)
                         /\ r.forUs /\ q.op = OP_READ => Holds(r, r.regad)
  /\ q.st = "Ta" =>
       /\ SameAnswer(q, r) /\ r.regs = q.regs /\ Counts(q, r, TA_BITS, "Data")
       /\ q.count = 0 /\ Reading(q) => r.driving /\ r.outBit = DataBits
       /\ q.count = 0 /\ ~Reading(q) => r.driving = q.driving
       /\ q.count # 0 => r.driving = q.driving /\ r.outBit = Stepped(q)
  /\ q.st = "Data" =>
       /\ SameAnswer(q, r) /\ Counts(q, r, DataBits, "Preamble")
       /\ r.data = IF q.op = OP_WRITE THEN ShiftIn(q.data, bit, DataBits) ELSE q.data
       /\ r.driving = q.driving /\ r.outBit = Stepped(q)
       /\ r.regs = IF r.st = "Preamble" /\ Writing(q)
                   THEN [q.regs EXCEPT ![q.regad] = r.data] ELSE q.regs

LEMMA PhyHears ==
  ASSUME NEW q, NEW bit, PhyOK(q), PhyWords(q)
  PROVE  Hears(q, bit, on_rising(q, bit))
<1> DEFINE p == [q EXCEPT !.outBit = IF q.driving /\ @ > 0 THEN @ - 1 ELSE @]
           r == on_rising(q, bit)
<1>1. /\ DOMAIN q = PhyFields /\ DOMAIN p = PhyFields /\ p.st = q.st /\ p.count = q.count
      /\ p.op = q.op /\ p.driving = q.driving /\ p.forUs = q.forUs /\ p.addr = q.addr
      /\ p.phyad = q.phyad /\ p.regad = q.regad /\ p.data = q.data /\ p.out = q.out
      /\ p.regs = q.regs /\ p.resetSeen = q.resetSeen /\ p.outBit = Stepped(q)
  BY DEF PhyOK, PhyFields, Stepped
<1>2. /\ q.regs \in [Registers -> Values] /\ q.out \in Values /\ q.data \in Values
      /\ q.phyad \in Registers /\ q.regad \in Registers /\ q.count \in Nat
      /\ {} \in Registers /\ {} \in Values
  BY DEF PhyWords, PhyOK, Registers, Values
<1>3. \A x : ShiftIn(x, bit, AddrBits) \in Registers /\ ShiftIn(x, bit, DataBits) \in Values
  BY ShiftWord, Widths DEF Registers, Values, AllOnes
<1> HIDE DEF p
<1>4. CASE q.st = "Preamble"
  <2>1. r = InPreamble(p, bit)
    BY <1>1, <1>4 DEF on_rising, p
  <2> QED BY <1>1, <1>2, <1>4, <2>1 DEF InPreamble, Hears, PhyWords, PhyFields
<1>5. CASE q.st = "St1"
  <2>1. r = InSt1(p, bit)
    BY <1>1, <1>5 DEF on_rising, p
  <2> QED BY <1>1, <1>2, <1>5, <2>1 DEF InSt1, Goes, Hears, PhyWords, PhyFields
<1>6. CASE q.st = "Op"
  <2>1. r = InOp(p, bit)
    BY <1>1, <1>6 DEF on_rising, p
  <2> QED BY <1>1, <1>2, <1>6, <2>1 DEF InOp, Goes, Counted, Hears, PhyWords, PhyFields
<1>7. CASE q.st = "PhyAd"
  <2>1. r = InPhyAd(p, bit)
    BY <1>1, <1>7 DEF on_rising, p
  <2> QED BY <1>1, <1>2, <1>3, <1>7, <2>1 DEF InPhyAd, Goes, Counted, Counts, Hears, PhyWords, PhyFields
<1>8. CASE q.st = "RegAd"
  <2> DEFINE s == [p EXCEPT !.regad = ShiftIn(p.regad, bit, AddrBits)]
             us == [Goes(s, "Ta") EXCEPT !.forUs = s.phyad = s.addr]
  <2>1. r = InRegAd(p, bit)
    BY <1>1, <1>8 DEF on_rising, p
  <2>2. r = IF q.count + 1 < AddrBits THEN Counted(s)
            ELSE IF Reading(us) THEN Latched(us, us.regad) ELSE us
    BY <1>1, <2>1 DEF InRegAd
  <2>3. /\ DOMAIN s = PhyFields /\ s.st = q.st /\ s.count = q.count /\ s.addr = q.addr
        /\ s.phyad = q.phyad /\ s.regad = ShiftIn(q.regad, bit, AddrBits)
        /\ s.data = q.data /\ s.out = q.out /\ s.regs = q.regs /\ s.op = q.op
    BY <1>1 DEF PhyFields
  <2> HIDE DEF s
  <2>4. /\ DOMAIN us = PhyFields /\ us.st = "Ta" /\ us.count = 0 /\ us.addr = q.addr
        /\ us.phyad = q.phyad /\ us.regad = ShiftIn(q.regad, bit, AddrBits)
        /\ us.data = q.data /\ us.out = q.out /\ us.regs = q.regs /\ us.op = q.op
        /\ us.forUs = (q.phyad = q.addr)
    BY <2>3 DEF Goes, PhyFields
  <2> HIDE DEF us
  <2>5. CASE q.count + 1 < AddrBits
    BY <1>2, <1>3, <1>8, <2>2, <2>3, <2>5 DEF Counted, Counts, Hears, PhyWords, PhyFields
  <2>6. CASE ~(q.count + 1 < AddrBits) /\ ~Reading(us)
    BY <1>2, <1>3, <1>8, <2>2, <2>4, <2>6 DEF Reading, Counts, Hears, PhyWords
  <2>7. CASE ~(q.count + 1 < AddrBits) /\ Reading(us)
    <3>1. r = Latched(us, us.regad) /\ us.regad \in Registers
      BY <1>3, <2>2, <2>4, <2>7
    <3>2. /\ r.st = "Ta" /\ r.count = 0 /\ r.addr = q.addr /\ r.phyad = q.phyad
          /\ r.regad = us.regad /\ r.data = q.data /\ r.forUs = us.forUs
          /\ r.out = q.regs[us.regad]
      BY <2>4, <3>1 DEF Latched, PhyFields
    <3>3. /\ r.regs \in [Registers -> Values]
          /\ us.regad # MII_BMCR => r.regs[us.regad] = q.regs[us.regad]
          /\ r.regs[us.regad] \subseteq q.regs[us.regad]
          /\ \A m \in Registers : m # us.regad => r.regs[m] = q.regs[m]
      <4> DEFINE was == q.regs[us.regad]
                 v == IF us.regad = MII_BMCR /\ BMCR_RESET \subseteq was
                         /\ us.resetSeen >= ResetReads THEN was \ BMCR_RESET ELSE was
      <4>1. r.regs = [q.regs EXCEPT ![us.regad] = v]
        BY <2>4, <3>1 DEF Latched, PhyFields
      <4>2. was \in Values
        BY <1>2, <3>1
      <4>3. v \in Values /\ (us.regad # MII_BMCR => v = was) /\ v \subseteq was
        BY <4>2 DEF Values
      <4> QED BY <1>2, <3>1, <4>1, <4>3
    <3>4. r.out \in Values
      BY <1>2, <3>1, <3>2
    <3>5. Holds(r, r.regad)
      BY <3>2, <3>3 DEF Holds
    <3>6. \A m \in Registers : r.regs[m] \subseteq q.regs[m]
      BY <1>2, <3>1, <3>3
    <3> QED BY <1>2, <1>3, <1>8, <2>4, <2>7, <3>1, <3>2, <3>3, <3>4, <3>5, <3>6
         DEF Counts, Hears, PhyWords
  <2> QED BY <2>5, <2>6, <2>7
<1>9. CASE q.st = "Ta"
  <2>1. r = InTa(p, bit)
    BY <1>1, <1>9 DEF on_rising, p
  <2>2. q.count \in {0, 1} /\ q.driving \in BOOLEAN /\ (Reading(p) <=> Reading(q))
    BY <1>1, <1>9, Widths DEF PhyOK, Reading
  <2>3. CASE q.count = 0
    <3>1. /\ r.st = "Ta" /\ r.count = 1 /\ r.addr = q.addr /\ r.data = q.data
          /\ SameAnswer(q, r) /\ r.regs = q.regs
          /\ r.driving = (q.driving \/ Reading(q)) /\ (Reading(q) => r.outBit = DataBits)
      BY <1>1, <1>9, <2>1, <2>2, <2>3, Widths DEF InTa, Counted, SameAnswer, PhyFields
    <3>2. Counts(q, r, TA_BITS, "Data")
      BY <1>9, <2>3, <3>1, Widths DEF Counts
    <3>3. PhyWords(r)
      BY <1>2, <3>1 DEF PhyWords, SameAnswer
    <3> QED BY <1>9, <2>2, <2>3, <3>1, <3>2, <3>3 DEF Hears
  <2>4. CASE q.count = 1
    BY <1>1, <1>2, <1>9, <2>1, <2>2, <2>4, Widths
       DEF InTa, Goes, Counts, SameAnswer, Hears, PhyWords, PhyFields
  <2> QED BY <2>2, <2>3, <2>4
<1>10. CASE q.st = "Data"
  <2> DEFINE s == [p EXCEPT !.data = IF p.op = OP_WRITE THEN ShiftIn(p.data, bit, DataBits)
                                     ELSE p.data]
             t == IF Writing(s) THEN Taken(s, s.data) ELSE s
  <2>1. r = InData(p, bit)
    BY <1>1, <1>10 DEF on_rising, p
  <2>2. r = IF q.count + 1 < DataBits THEN Counted(s) ELSE Goes(t, "Preamble")
    BY <1>1, <2>1 DEF InData
  <2>3. /\ DOMAIN s = PhyFields /\ s.st = q.st /\ s.count = q.count /\ s.addr = q.addr
        /\ s.phyad = q.phyad /\ s.regad = q.regad /\ s.out = q.out /\ s.regs = q.regs
        /\ s.op = q.op /\ s.forUs = q.forUs /\ s.driving = q.driving /\ s.outBit = Stepped(q)
        /\ s.data = IF q.op = OP_WRITE THEN ShiftIn(q.data, bit, DataBits) ELSE q.data
    BY <1>1 DEF PhyFields
  <2> HIDE DEF s
  <2>4. s.data \in Values /\ (Writing(s) <=> Writing(q))
    BY <1>2, <1>3, <2>3 DEF Writing
  <2>5. /\ DOMAIN t = PhyFields /\ t.addr = q.addr /\ t.data = s.data
        /\ SameAnswer(q, t) /\ t.driving = q.driving /\ t.outBit = Stepped(q)
        /\ t.regs = IF Writing(q) THEN [q.regs EXCEPT ![q.regad] = s.data] ELSE q.regs
    BY <2>3, <2>4 DEF Taken, SameAnswer, PhyFields
  <2> HIDE DEF t
  <2>6. t.regs \in [Registers -> Values]
    BY <1>2, <2>4, <2>5
  <2>7. CASE q.count + 1 < DataBits
    BY <1>2, <1>10, <2>2, <2>3, <2>4, <2>7
       DEF Counted, Counts, SameAnswer, Hears, PhyWords, PhyFields
  <2>8. CASE ~(q.count + 1 < DataBits)
    BY <1>2, <1>10, <2>2, <2>3, <2>4, <2>5, <2>6, <2>8
       DEF Goes, Counts, SameAnswer, Hears, PhyWords, PhyFields
  <2> QED BY <2>7, <2>8
<1> QED BY <1>4, <1>5, <1>6, <1>7, <1>8, <1>9, <1>10 DEF PhyOK, PhyStates, Late, r

\* A falling edge leaves the words alone.
LEMMA PhyLetsGo ==
  ASSUME NEW q, PhyOK(q), NEW r, r = on_falling(q)
  PROVE  /\ r.addr = q.addr /\ r.st = q.st /\ r.count = q.count /\ r.op = q.op
         /\ r.phyad = q.phyad /\ r.regad = q.regad /\ r.data = q.data /\ r.out = q.out
         /\ r.outBit = q.outBit /\ r.forUs = q.forUs /\ r.regs = q.regs
         /\ q.st # "Preamble" => r.driving = q.driving
BY DEF on_falling, PhyOK, PhyFields
-----------------------------------------------------------------------------
\* The exchange, one lemma per action.

LEMMA ExchFalling ==
  ASSUME MdioIInv, ExchInv, Falling
  PROVE  ExchInv'
<1>1. /\ mdc' = 0 /\ wb' = OnFalling /\ phy' = on_falling(phy) /\ prog' = prog
      /\ req' = IF wb.armed THEN [r |-> Started, over |-> FALSE] ELSE req
  BY DEF Falling
<1>2. /\ phy'.addr = phy.addr /\ phy'.st = phy.st /\ phy'.count = phy.count
      /\ phy'.op = phy.op /\ phy'.phyad = phy.phyad /\ phy'.regad = phy.regad
      /\ phy'.data = phy.data /\ phy'.out = phy.out /\ phy'.outBit = phy.outBit
      /\ phy'.forUs = phy.forUs /\ phy'.regs = phy.regs
      /\ phy.st # "Preamble" => phy'.driving = phy.driving
  BY <1>1, PhyLetsGo DEF MdioIInv
<1>3. /\ wb'.phyad = wb.phyad /\ wb'.regad = wb.regad /\ wb'.wdata = wb.wdata
      /\ wb'.rdata = wb.rdata /\ wb'.is_read = wb.is_read
      /\ wb'.active <=> wb.active \/ wb.armed
      /\ wb'.bits_left = IF wb.armed THEN FRAME_BITS ELSE wb.bits_left
      /\ wb'.active /\ ~wb.is_read => wb'.oe
  BY <1>1 DEF OnFalling, MdioIInv, StationInv
<1>4. /\ wb.armed => ~wb.active
      /\ wb.active => wb.bits_left \in Nat /\ wb.bits_left >= 1
  BY Widths DEF MdioIInv, StationInv
<1>5. WordsOK' /\ StepsOK' /\ HoldsWire'
  BY <1>1, <1>2, <1>3 DEF ExchInv, WordsOK, PhyWords, StepsOK, HoldsWire
<1>6. RequestOK'
  BY <1>1, <1>3, <1>4 DEF ExchInv, RequestOK, Started
<1>7. HearsInv'
  <2>1. SUFFICES ASSUME InRest' PROVE HearsInv'
    BY DEF HearsInv
  <2>2. InRest /\ wb'.bits_left = wb.bits_left
    BY <1>3, <2>1, Widths DEF InRest
  <2>3. phy.st # "Preamble"
    BY <1>4, <2>2 DEF MdioIInv, SyncInv, InRest, Rest
  <2> QED BY <1>2, <1>3, <2>2, <2>3 DEF ExchInv, HearsInv, Holds
<1>8. ReadsInv'
  <2>1. Answer' = Answer
    BY <1>2, <1>3 DEF Answer
  <2>2. wb.armed => ~(wb'.bits_left <= DataBits)
    BY <1>3, Widths
  <2> QED BY <1>3, <2>1, <2>2 DEF ExchInv, ReadsInv
<1>9. OverInv'
  <2>1. CASE wb.armed
    BY <1>1, <2>1 DEF OverInv
  <2>2. CASE ~wb.armed
    BY <1>1, <1>2, <1>3, <2>2 DEF ExchInv, OverInv, Done, Holds
  <2> QED BY <2>1, <2>2
<1> QED BY <1>5, <1>6, <1>7, <1>8, <1>9 DEF ExchInv

\* A rising edge, whatever the station is at.
LEMMA RisingExch ==
  ASSUME MdioIInv, ExchInv, Rising
  PROVE  /\ Hears(phy, Wire, phy') /\ WordsOK' /\ StepsOK' /\ HoldsWire'
         /\ wb'.phyad = wb.phyad /\ wb'.regad = wb.regad /\ wb'.wdata = wb.wdata
         /\ wb'.is_read = wb.is_read
         /\ wb'.rdata = IF wb.active THEN Sampled(mdio_i) ELSE wb.rdata
         /\ DOMAIN req' = {"r", "over"} /\ req'.r = req.r
         /\ req'.over = (req.over \/ (wb.active /\ ~wb'.active))
<1>1. /\ mdc' = 1 /\ wb' = OnRising(mdio_i) /\ phy' = on_rising(phy, Wire) /\ prog' = prog
      /\ req' = [req EXCEPT !.over = @ \/ (wb.active /\ ~wb'.active)]
  BY DEF Rising
<1>2. Hears(phy, Wire, phy')
  BY <1>1, PhyHears DEF MdioIInv, ExchInv, WordsOK
<1>3. /\ wb'.phyad = wb.phyad /\ wb'.regad = wb.regad /\ wb'.wdata = wb.wdata
      /\ wb'.is_read = wb.is_read
      /\ wb'.rdata = IF wb.active THEN Sampled(mdio_i) ELSE wb.rdata
  BY <1>1 DEF OnRising, MdioIInv, StationInv
<1>4. wb'.rdata \in Values
  BY <1>3, ShiftWord, Widths DEF Sampled, ExchInv, WordsOK, Values, AllOnes
<1>5. /\ DOMAIN req' = {"r", "over"} /\ req'.r = req.r
      /\ req'.over = (req.over \/ (wb.active /\ ~wb'.active))
  BY <1>1 DEF ExchInv, RequestOK
<1>6. WordsOK' /\ StepsOK' /\ HoldsWire'
  BY <1>1, <1>2, <1>3, <1>4 DEF ExchInv, WordsOK, Hears, StepsOK, HoldsWire
<1> QED BY <1>2, <1>3, <1>5, <1>6

LEMMA ExchRisingIdle ==
  ASSUME MdioIInv, ExchInv, Rising, ~wb.active
  PROVE  ExchInv'
<1>1. wb' = wb
  BY DEF Rising, OnRising
<1>2. /\ req'.over = req.over /\ req'.r = req.r /\ RequestOK'
  BY <1>1, RisingExch DEF ExchInv, RequestOK
<1>3. HearsInv' /\ ReadsInv'
  BY <1>1 DEF HearsInv, ReadsInv, InRest
<1>4. OverInv'
  <2>1. SUFFICES ASSUME phy.st = "Preamble", Done
                 PROVE  phy'.st = "Preamble" /\ Done'
    BY <1>2 DEF ExchInv, OverInv
  <2>2. ~phy.driving
    BY <2>1, RisesNow
  <2>3. master # "bitbang" /\ ~wb.oe
    BY DEF Rising, MdioIInv, StationInv
  <2>4. Wire = 1
    BY <2>2, <2>3 DEF Wire, Drives
  <2>5. phy'.st = "Preamble"
    BY <2>1, <2>4, RisesNow DEF Rises
  <2>6. phy'.regs = phy.regs /\ phy'.out = phy.out /\ phy'.addr = phy.addr
    BY <2>1, RisingExch DEF Hears
  <2> QED BY <1>1, <1>2, <2>1, <2>5, <2>6 DEF Done, Holds
<1> QED BY <1>2, <1>3, <1>4, RisingExch DEF ExchInv

\* The bit a PHY takes is the one the frame has there.
LEMMA WireSays ==
  ASSUME MdioIInv, ExchInv, Rising, wb.active
  PROVE  /\ wb.bits_left \in Nat /\ 1 <= wb.bits_left /\ wb.bits_left <= FRAME_BITS
         /\ wb.bits_left > DataBits + TA_BITS \/ ~wb.is_read =>
              Says(FRAME_BITS - wb.bits_left + 1, Wire)
<1>1. wb.bits_left \in Nat /\ 1 <= wb.bits_left /\ wb.bits_left <= FRAME_BITS
  BY Widths DEF MdioIInv, StationInv
<1>2. mdc = 0 /\ master # "bitbang"
  BY DEF Rising
<1>3. Says(FRAME_BITS - Ahead, wb.o) /\ Ahead = wb.bits_left - 1
  BY <1>1, <1>2 DEF MdioIInv, ShifterInv, Ahead
<1>4. FRAME_BITS - Ahead = FRAME_BITS - wb.bits_left + 1
  BY <1>1, <1>3, Widths
<1>5. wb.bits_left > DataBits + TA_BITS \/ ~wb.is_read => wb.oe
  BY <1>2 DEF MdioIInv, EnableInv, ExchInv, HoldsWire
<1>6. wb.oe => Wire = wb.o
  BY <1>2 DEF Wire, Drives, Out
<1>7. Says(FRAME_BITS - wb.bits_left + 1, wb.o)
  BY <1>3, <1>4
<1> QED BY <1>1, <1>5, <1>6, <1>7

\* Where the PHY is, by the bits that are left.
LEMMA InRestAt ==
  ASSUME MdioIInv, InRest
  PROVE  /\ Rest(phy) = wb.bits_left /\ phy.st # "Preamble"
         /\ wb.bits_left \in Nat /\ 1 <= wb.bits_left
         /\ wb.bits_left <= DataBits <=> phy.st = "Data"
         /\ phy.count \in Nat
<1>1. wb.bits_left \in Nat /\ 1 <= wb.bits_left /\ Rest(phy) = wb.bits_left
  BY Widths DEF MdioIInv, StationInv, SyncInv, InRest
<1>2. phy.st # "Preamble"
  BY <1>1 DEF Rest
<1>3. wb.bits_left <= DataBits <=> phy.st = "Data"
  BY <1>1, <1>2, Widths DEF Rest, MdioIInv, PhyOK, PhyStates, Late
<1> QED BY <1>1, <1>2, <1>3 DEF MdioIInv, PhyOK

\* The bit a read takes is the next one of the answer.
LEMMA ReadBit ==
  ASSUME MdioIInv, ExchInv, Rising, wb.active, wb.is_read, wb.bits_left <= DataBits
  PROVE  /\ Shifted(wb'.rdata, DataBits - wb.bits_left + 1, DataBits, Answer)
         /\ Answer' = Answer
<1>1. InRest /\ master # "bitbang" /\ mdc = 0
  BY WireSays, Widths DEF InRest, Rising
<1>2. phy.st = "Data" /\ wb.bits_left \in Nat /\ 1 <= wb.bits_left
  BY <1>1, InRestAt
<1>3. /\ phy.driving <=> wb.phyad = phy.addr
      /\ phy.driving => phy.outBit = wb.bits_left - 1
  BY <1>1, <1>2 DEF ExchInv, HearsInv
<1>4. ~Drives
  BY <1>1, <1>2, Widths DEF Drives, MdioIInv, EnableInv
<1>5. mdio_i = 1 <=> wb.bits_left - 1 \in Answer
  <2>1. CASE phy.driving
    BY <1>3, <1>4, <2>1 DEF mdio_i, OutBit, Answer
  <2>2. CASE ~phy.driving
    <3>1. wb.bits_left - 1 \in AllOnes
      BY <1>2, Widths DEF AllOnes
    <3> QED BY <1>3, <1>4, <2>2, <3>1 DEF mdio_i, Answer
  <2> QED BY <2>1, <2>2
<1>6. wb'.rdata = ShiftIn(wb.rdata, mdio_i, DataBits)
  BY RisingExch DEF Sampled, in_data
<1>7. Shifted(wb.rdata, DataBits - wb.bits_left, DataBits, Answer)
  BY DEF ExchInv, ReadsInv
<1>8. Shifted(wb'.rdata, DataBits - wb.bits_left + 1, DataBits, Answer)
  <2> DEFINE c == DataBits - wb.bits_left
  <2>1. c \in Nat /\ c < DataBits /\ DataBits - c - 1 = wb.bits_left - 1 /\ DataBits \in Nat
    BY <1>2, Widths
  <2>2. mdio_i = 1 <=> DataBits - c - 1 \in Answer
    BY <1>5, <2>1
  <2> HIDE DEF c
  <2>3. Shifted(wb.rdata, c, DataBits, Answer)
    BY <1>7 DEF c
  <2>4. Shifted(ShiftIn(wb.rdata, mdio_i, DataBits), c + 1, DataBits, Answer)
    BY <2>1, <2>2, <2>3, ShiftStep
  <2> QED BY <1>6, <2>4 DEF c
<1>9. Answer' = Answer
  BY <1>2, RisingExch DEF Answer, Hears, SameAnswer
<1> QED BY <1>8, <1>9

\* The words of the frame, one bit of each.
LEMMA WordsSay ==
  ASSUME MdioIInv, ExchInv, Rising, InRest
  PROVE  /\ phy.st = "PhyAd" => (Wire = 1 <=> AddrBits - phy.count - 1 \in wb.phyad)
         /\ phy.st = "RegAd" => (Wire = 1 <=> AddrBits - phy.count - 1 \in wb.regad)
         /\ phy.st = "Data" /\ ~wb.is_read =>
              (Wire = 1 <=> DataBits - phy.count - 1 \in wb.wdata)
<1> DEFINE k == FRAME_BITS - wb.bits_left + 1
           c == phy.count
<1>1. Rest(phy) = wb.bits_left /\ wb.bits_left \in Nat /\ c \in Nat /\ wb.active
  BY InRestAt DEF InRest
<1>2. wb.bits_left > DataBits + TA_BITS \/ ~wb.is_read => Says(k, Wire)
  BY <1>1, WireSays
<1>3. ASSUME phy.st = "PhyAd"
      PROVE  Wire = 1 <=> AddrBits - c - 1 \in wb.phyad
  <2>1. c < AddrBits /\ wb.bits_left = AddrRest - c
    BY <1>1, <1>3 DEF MdioIInv, PhyOK, Rest
  <2>2. wb.bits_left > DataBits + TA_BITS
    BY <1>1, <2>1, Widths
  <2>3. k > PreambleBits + 4 /\ k <= PreambleBits + 4 + AddrBits /\ k - (PreambleBits + 4) = c + 1
    BY <1>1, <2>1, Widths
  <2>4. Wire = Bits(wb.phyad, AddrBits)[c + 1]
    BY <1>2, <2>2, <2>3 DEF Says
  <2>5. AddrBits \in Nat
    BY Widths
  <2> QED BY <1>1, <2>1, <2>4, <2>5, BitSent
<1>4. ASSUME phy.st = "RegAd"
      PROVE  Wire = 1 <=> AddrBits - c - 1 \in wb.regad
  <2>1. c < AddrBits /\ wb.bits_left = AddrRest - AddrBits - c
    BY <1>1, <1>4 DEF MdioIInv, PhyOK, Rest
  <2>2. wb.bits_left > DataBits + TA_BITS
    BY <1>1, <2>1, Widths
  <2>3. /\ k > PreambleBits + 4 + AddrBits /\ k <= PreambleBits + 4 + 2 * AddrBits
        /\ k - (PreambleBits + 4 + AddrBits) = c + 1
    BY <1>1, <2>1, Widths
  <2>4. Wire = Bits(wb.regad, AddrBits)[c + 1]
    BY <1>2, <2>2, <2>3 DEF Says
  <2>5. AddrBits \in Nat
    BY Widths
  <2> QED BY <1>1, <2>1, <2>4, <2>5, BitSent
<1>5. ASSUME phy.st = "Data", ~wb.is_read
      PROVE  Wire = 1 <=> DataBits - c - 1 \in wb.wdata
  <2>1. c < DataBits /\ wb.bits_left = DataBits - c
    BY <1>1, <1>5 DEF MdioIInv, PhyOK, Rest
  <2>2. /\ k > PreambleBits + 6 + 2 * AddrBits /\ k <= FRAME_BITS
        /\ k - (PreambleBits + 6 + 2 * AddrBits) = c + 1
    BY <1>1, <2>1, Widths
  <2>3. Wire = Bits(wb.wdata, DataBits)[c + 1]
    BY <1>2, <1>5, <2>2 DEF Says
  <2>4. DataBits \in Nat
    BY Widths
  <2> QED BY <1>1, <2>1, <2>3, <2>4, BitSent
<1> QED BY <1>3, <1>4, <1>5

\* What the PHY has, a bit further on.
LEMMA HearsMoves ==
  ASSUME MdioIInv, MdioIInv', ExchInv, Rising, wb.active, wb.bits_left # 1
  PROVE  HearsInv'
<1>1. /\ wb'.bits_left = wb.bits_left - 1 /\ wb'.phyad = wb.phyad /\ wb'.regad = wb.regad
      /\ wb'.wdata = wb.wdata /\ wb'.is_read = wb.is_read /\ wb.is_read \in BOOLEAN
  BY RisingStation DEF StationMoves, MdioIInv, StationInv
<1>2. SUFFICES ASSUME InRest' PROVE HearsInv'
  BY DEF HearsInv
<1>3. /\ Rest(phy') = wb'.bits_left /\ phy'.count \in Nat /\ phy'.st \in PhyStates
      /\ wb'.bits_left \in Nat
  BY <1>1, <1>2, WireSays, Widths DEF MdioIInv, SyncInv, PhyOK
<1>4. wb.bits_left \in Nat /\ wb.bits_left <= DelimBits
  BY <1>1, <1>2, WireSays, Widths DEF InRest
<1>5. Hears(phy, Wire, phy')
  BY RisingExch
\* Up to the opcode no word has come.
<1>6. ASSUME wb'.bits_left >= AddrRest
      PROVE  HearsInv'
  <2>1. /\ phy'.st \notin {"RegAd", "Ta", "Data"}
        /\ phy'.st = "PhyAd" => phy'.count = 0
    BY <1>3, <1>6, Widths DEF Rest
  <2>2. phy'.st = "PhyAd" => Shifted(phy'.phyad, phy'.count, AddrBits, wb'.phyad)
    BY <2>1, ShiftedNone
  <2> QED BY <2>1, <2>2 DEF HearsInv
<1>7. ASSUME wb'.bits_left < AddrRest
      PROVE  HearsInv'
  <2>1. InRest /\ wb.bits_left <= AddrRest
    BY <1>1, <1>4, <1>7, Widths DEF InRest
  <2>2. /\ Rest(phy) = wb.bits_left /\ phy.count \in Nat /\ phy.st # "Preamble"
    BY <2>1, InRestAt
  <2>3. phy.st \in Late
    BY <2>1, <2>2, <1>4, Widths DEF Rest, MdioIInv, PhyOK, PhyStates
  <2>4. phy.op = IF wb.is_read THEN OP_READ ELSE OP_WRITE
    BY <2>1, <2>3 DEF MdioIInv, SyncInv
  <2>5. (phy.op = OP_READ <=> wb.is_read) /\ (phy.op = OP_WRITE <=> ~wb.is_read)
    BY <1>1, <2>4 DEF OP_READ, OP_WRITE
  <2>6. /\ AddrBits \in Nat /\ DataBits \in Nat /\ wb.phyad \in SUBSET (0..(AddrBits - 1))
        /\ wb.regad \in SUBSET (0..(AddrBits - 1)) /\ PhyWords(phy)
        /\ phy'.addr = phy.addr
    BY <1>5, Widths DEF ExchInv, WordsOK, Registers, Hears
  <2>7. CASE phy.st = "PhyAd"
    <3>1. phy.count < AddrBits
      BY <2>7 DEF MdioIInv, PhyOK
    <3>2. Shifted(phy.phyad, phy.count, AddrBits, wb.phyad)
      BY <2>1, <2>7 DEF ExchInv, HearsInv
    <3>3. Shifted(phy'.phyad, phy.count + 1, AddrBits, wb.phyad)
      <4>1. Wire = 1 <=> AddrBits - phy.count - 1 \in wb.phyad
        BY <2>1, <2>7, WordsSay
      <4>2. phy'.phyad = ShiftIn(phy.phyad, Wire, AddrBits)
        BY <1>5, <2>7 DEF Hears
      <4> QED BY <2>2, <2>6, <3>1, <3>2, <4>1, <4>2, ShiftStep
    <3>4. Counts(phy, phy', AddrBits, "RegAd")
      BY <1>5, <2>7 DEF Hears
    <3>5. CASE phy.count + 1 < AddrBits
      <4>1. phy'.st = "PhyAd" /\ phy'.count = phy.count + 1
        BY <2>7, <3>4, <3>5 DEF Counts
      <4> QED BY <1>1, <3>3, <4>1 DEF HearsInv
    <3>6. CASE ~(phy.count + 1 < AddrBits)
      <4>1. phy'.st = "RegAd" /\ phy'.count = 0 /\ phy.count + 1 = AddrBits
        BY <2>2, <2>6, <3>1, <3>4, <3>6 DEF Counts
      <4>2. phy'.phyad \in SUBSET (0..(AddrBits - 1))
        BY <1>5 DEF Hears, PhyWords, Registers
      <4>3. phy'.phyad = wb.phyad
        BY <2>6, <3>3, <4>1, <4>2, ShiftDone
      <4>4. Shifted(phy'.regad, phy'.count, AddrBits, wb'.regad)
        BY <4>1, ShiftedNone
      <4> QED BY <1>1, <4>1, <4>3, <4>4 DEF HearsInv
    <3> QED BY <3>5, <3>6
  <2>8. CASE phy.st = "RegAd"
    <3>1. phy.count < AddrBits /\ phy.phyad = wb.phyad /\ phy'.phyad = phy.phyad
      BY <1>5, <2>1, <2>8 DEF MdioIInv, PhyOK, ExchInv, HearsInv, Hears
    <3>2. Shifted(phy.regad, phy.count, AddrBits, wb.regad)
      BY <2>1, <2>8 DEF ExchInv, HearsInv
    <3>3. Shifted(phy'.regad, phy.count + 1, AddrBits, wb.regad)
      <4>1. Wire = 1 <=> AddrBits - phy.count - 1 \in wb.regad
        BY <2>1, <2>8, WordsSay
      <4>2. phy'.regad = ShiftIn(phy.regad, Wire, AddrBits)
        BY <1>5, <2>8 DEF Hears
      <4> QED BY <2>2, <2>6, <3>1, <3>2, <4>1, <4>2, ShiftStep
    <3>4. Counts(phy, phy', AddrBits, "Ta")
      BY <1>5, <2>8 DEF Hears
    <3>5. CASE phy.count + 1 < AddrBits
      <4>1. phy'.st = "RegAd" /\ phy'.count = phy.count + 1
        BY <2>8, <3>4, <3>5 DEF Counts
      <4> QED BY <1>1, <3>1, <3>3, <4>1 DEF HearsInv
    <3>6. CASE ~(phy.count + 1 < AddrBits)
      <4>1. phy'.st = "Ta" /\ phy'.count = 0 /\ phy.count + 1 = AddrBits
        BY <2>2, <2>6, <3>1, <3>4, <3>6 DEF Counts
      <4>2. phy'.regad \in SUBSET (0..(AddrBits - 1))
        BY <1>5 DEF Hears, PhyWords, Registers
      <4>3. phy'.regad = wb.regad
        BY <2>6, <3>3, <4>1, <4>2, ShiftDone
      <4>4. /\ phy'.forUs = (phy.phyad = phy.addr)
            /\ phy'.forUs /\ phy.op = OP_READ => Holds(phy', phy'.regad)
        BY <1>5, <2>8, <4>1 DEF Hears
      <4>5. phy'.forUs <=> wb'.phyad = phy'.addr
        BY <1>1, <2>6, <3>1, <4>4
      <4>6. phy'.forUs /\ wb'.is_read => Holds(phy', wb'.regad)
        BY <1>1, <2>5, <4>3, <4>4
      <4>7. phy'.phyad = wb'.phyad /\ phy'.regad = wb'.regad
        BY <1>1, <3>1, <4>3
      <4> QED BY <4>1, <4>5, <4>6, <4>7 DEF HearsInv
    <3> QED BY <3>5, <3>6
  <2>9. CASE phy.st = "Ta"
    <3>1. /\ SameAnswer(phy, phy') /\ phy'.regs = phy.regs /\ phy.count \in {0, 1}
          /\ Counts(phy, phy', TA_BITS, "Data") /\ phy.driving \in BOOLEAN
      BY <1>5, <2>2, <2>9, Widths DEF Hears, MdioIInv, PhyOK
    <3>2. /\ phy.phyad = wb.phyad /\ phy.regad = wb.regad
          /\ phy.forUs <=> wb.phyad = phy.addr
          /\ phy.forUs /\ wb.is_read => Holds(phy, wb.regad)
      BY <2>1, <2>9 DEF ExchInv, HearsInv
    <3>3. Reading(phy) <=> phy.forUs /\ wb.is_read
      BY <2>5 DEF Reading
    <3>4. CASE phy.count = 0
      <4>1. phy'.st = "Ta" /\ phy'.count = 1
        BY <2>9, <3>1, <3>4, Widths DEF Counts
      <4>2. ~phy.driving
        BY <2>9, <3>4 DEF MdioIInv, DrivesRightly
      <4>3. IF Reading(phy) THEN phy'.driving /\ phy'.outBit = DataBits ELSE ~phy'.driving
        BY <1>5, <2>9, <3>4, <4>2 DEF Hears
      <4> QED BY <1>1, <2>6, <3>1, <3>2, <3>3, <4>1, <4>3 DEF HearsInv, SameAnswer, Holds
    <3>5. CASE phy.count = 1
      <4>1. phy'.st = "Data" /\ phy'.count = 0
        BY <2>9, <3>1, <3>5, Widths DEF Counts
      <4>2. phy'.driving = phy.driving /\ phy'.outBit = Stepped(phy)
        BY <1>5, <2>9, <3>5 DEF Hears
      <4>3. wb'.bits_left = DataBits
        BY <1>3, <4>1, Widths DEF Rest
      <4>4. wb.is_read => (phy.driving <=> phy.forUs)
                          /\ (phy.driving => phy.outBit = DataBits)
        BY <2>1, <2>9, <3>5 DEF ExchInv, HearsInv
      <4>5. wb.is_read /\ phy'.driving => phy'.outBit = wb'.bits_left - 1
        BY <4>2, <4>3, <4>4, Widths DEF Stepped
      <4>6. Shifted(phy'.data, phy'.count, DataBits, wb'.wdata)
        BY <4>1, ShiftedNone
      <4> QED BY <1>1, <2>6, <3>1, <3>2, <4>1, <4>2, <4>4, <4>5, <4>6 DEF HearsInv, SameAnswer, Holds
    <3> QED BY <3>1, <3>4, <3>5
  <2>10. CASE phy.st = "Data"
    <3>1. /\ wb.bits_left = DataBits - phy.count /\ phy.count + 1 < DataBits
      BY <1>4, <2>2, <2>6, <2>10 DEF Rest, MdioIInv, PhyOK
    <3>2. /\ SameAnswer(phy, phy') /\ phy'.st = "Data" /\ phy'.count = phy.count + 1
          /\ phy'.driving = phy.driving /\ phy'.outBit = Stepped(phy)
          /\ phy'.data = (IF phy.op = OP_WRITE THEN ShiftIn(phy.data, Wire, DataBits)
                          ELSE phy.data)
          /\ phy'.regs = phy.regs
      BY <1>5, <2>10, <3>1 DEF Hears, Counts
    <3>3. /\ phy.phyad = wb.phyad /\ phy.regad = wb.regad
          /\ phy.forUs <=> wb.phyad = phy.addr
          /\ phy.forUs /\ wb.is_read => Holds(phy, wb.regad)
          /\ wb.is_read => /\ phy.driving <=> phy.forUs
                           /\ phy.driving => phy.outBit = wb.bits_left - 1
      BY <2>1, <2>10 DEF ExchInv, HearsInv
    <3>4. ASSUME ~wb.is_read
          PROVE  Shifted(phy'.data, phy'.count, DataBits, wb'.wdata)
      <4>1. Shifted(phy.data, phy.count, DataBits, wb.wdata)
        BY <2>1, <2>10, <3>4 DEF ExchInv, HearsInv
      <4>2. Wire = 1 <=> DataBits - phy.count - 1 \in wb.wdata
        BY <2>1, <2>10, <3>4, WordsSay
      <4>3. phy.count < DataBits /\ phy'.data = ShiftIn(phy.data, Wire, DataBits)
        BY <2>2, <2>5, <2>6, <3>1, <3>2, <3>4
      <4>4. Shifted(phy'.data, phy.count + 1, DataBits, wb.wdata)
        BY <2>2, <2>6, <4>1, <4>2, <4>3, ShiftStep
      <4> QED BY <1>1, <3>2, <4>4
    <3>5. wb.is_read /\ phy'.driving => phy'.outBit = wb'.bits_left - 1
      BY <1>1, <2>2, <2>6, <3>1, <3>2, <3>3 DEF Stepped
    <3> QED BY <1>1, <2>6, <3>2, <3>3, <3>4, <3>5 DEF HearsInv, SameAnswer, Holds
  <2> QED BY <2>3, <2>7, <2>8, <2>9, <2>10 DEF Late
<1> QED BY <1>3, <1>6, <1>7, Widths

LEMMA ExchRisingMoves ==
  ASSUME MdioIInv, MdioIInv', ExchInv, Rising, wb.active, wb.bits_left # 1
  PROVE  ExchInv'
<1>1. /\ wb'.bits_left = wb.bits_left - 1 /\ wb'.active = wb.active
      /\ wb'.is_read = wb.is_read
  BY RisingStation DEF StationMoves
<1>2. req'.over = FALSE /\ req'.r = req.r /\ req.r = Started
  BY <1>1, RisingExch DEF ExchInv, RequestOK
<1>3. RequestOK'
  BY <1>1, <1>2, RisingExch DEF RequestOK, Started
<1>4. OverInv'
  BY <1>2 DEF OverInv
<1>5. ReadsInv'
  <2>1. SUFFICES ASSUME wb.is_read, wb'.bits_left <= DataBits PROVE ReadsInv'
    BY <1>1 DEF ReadsInv
  <2>2. wb.bits_left \in Nat
    BY WireSays
  <2>3. CASE wb.bits_left <= DataBits
    <3>1. Shifted(wb'.rdata, DataBits - wb.bits_left + 1, DataBits, Answer) /\ Answer' = Answer
      BY <2>1, <2>3, ReadBit
    <3>2. DataBits - wb.bits_left + 1 = DataBits - wb'.bits_left
      BY <1>1, <2>2, Widths
    <3> QED BY <3>1, <3>2 DEF ReadsInv
  <2>4. CASE ~(wb.bits_left <= DataBits)
    <3>1. DataBits - wb'.bits_left = 0
      BY <1>1, <2>1, <2>2, <2>4, Widths
    <3> QED BY <3>1, ShiftedNone DEF ReadsInv
  <2> QED BY <2>3, <2>4
<1> QED BY <1>3, <1>4, <1>5, HearsMoves, RisingExch DEF ExchInv

\* The last bit: the write is done, the read complete.
LEMMA ExchRisingLast ==
  ASSUME MdioIInv, ExchInv, Rising, wb.active, wb.bits_left = 1
  PROVE  ExchInv'
<1>1. ~wb'.active /\ wb'.active \in BOOLEAN
  BY DEF Rising, OnRising, MdioIInv, StationInv
<1>2. req'.over = TRUE /\ req'.r = req.r /\ req.r = Started
  BY <1>1, RisingExch DEF ExchInv, RequestOK
<1>3. RequestOK' /\ HearsInv' /\ ReadsInv'
  BY <1>1, <1>2, RisingExch DEF RequestOK, HearsInv, ReadsInv, InRest
<1>4. InRest /\ wb.is_read \in BOOLEAN
  BY Widths DEF InRest, MdioIInv, StationInv
<1>5. /\ phy.st = "Data" /\ phy.count \in Nat /\ phy.count + 1 = DataBits
      /\ DataBits \in Nat
  BY <1>4, InRestAt, Widths DEF Rest
<1>6. /\ phy'.st = "Preamble" /\ SameAnswer(phy, phy') /\ phy'.addr = phy.addr
      /\ phy'.data = IF phy.op = OP_WRITE THEN ShiftIn(phy.data, Wire, DataBits) ELSE phy.data
      /\ phy'.regs = IF Writing(phy) THEN [phy.regs EXCEPT ![phy.regad] = phy'.data]
                     ELSE phy.regs
  BY <1>5, RisingExch DEF Hears, Counts
<1>7. /\ phy.regad = wb.regad /\ (phy.forUs <=> wb.phyad = phy.addr)
      /\ phy.forUs /\ wb.is_read => Holds(phy, wb.regad)
  BY <1>4, <1>5 DEF ExchInv, HearsInv
<1>8. (phy.op = OP_WRITE <=> ~wb.is_read)
  BY <1>4, <1>5 DEF MdioIInv, SyncInv, OP_READ, OP_WRITE, Late
<1>9. /\ req.r.phyad = wb.phyad /\ req.r.regad = wb.regad /\ req.r.value = wb.wdata
      /\ req.r.op = IF wb.is_read THEN OP_READ ELSE OP_WRITE
  BY <1>2 DEF Started
<1>10. CASE ~wb.is_read
  <2>1. req.r.op = OP_WRITE /\ req.r.op # OP_READ
    BY <1>9, <1>10 DEF OP_READ, OP_WRITE
  <2>2. ASSUME wb.phyad = phy.addr
        PROVE  phy'.regs[wb.regad] = wb.wdata
    <3>1. phy'.data = ShiftIn(phy.data, Wire, DataBits)
      BY <1>6, <1>8, <1>10
    <3>2. Shifted(phy.data, phy.count, DataBits, wb.wdata)
      BY <1>4, <1>5, <1>10 DEF ExchInv, HearsInv
    <3>3. Wire = 1 <=> DataBits - phy.count - 1 \in wb.wdata
      BY <1>4, <1>5, <1>10, WordsSay
    <3>4. Shifted(phy'.data, phy.count + 1, DataBits, wb.wdata)
      BY <1>5, <3>1, <3>2, <3>3, ShiftStep
    <3>5. phy'.data \in SUBSET (0..(DataBits - 1)) /\ wb.wdata \in SUBSET (0..(DataBits - 1))
      BY RisingExch DEF Hears, PhyWords, ExchInv, WordsOK, Values, AllOnes
    <3>6. phy'.data = wb.wdata
      BY <1>5, <3>4, <3>5, ShiftDone
    <3>7. Writing(phy)
      BY <1>7, <1>8, <1>10, <2>2 DEF Writing
    <3>8. phy.regs \in [Registers -> Values] /\ wb.regad \in Registers
      BY DEF ExchInv, WordsOK, PhyWords
    <3> QED BY <1>6, <1>7, <3>6, <3>7, <3>8
  <2> QED BY <1>2, <1>3, <1>6, <1>9, <2>1, <2>2, RisingExch DEF ExchInv, OverInv, Done, Holds
<1>11. CASE wb.is_read
  <2>1. req.r.op = OP_READ /\ req.r.op # OP_WRITE
    BY <1>9, <1>11 DEF OP_READ, OP_WRITE
  <2>2. wb'.rdata = Answer
    <3>1. wb.bits_left <= DataBits /\ DataBits - wb.bits_left + 1 = DataBits
      BY Widths
    <3>2. Shifted(wb'.rdata, DataBits, DataBits, Answer)
      BY <1>11, <3>1, ReadBit
    <3>3. wb'.rdata \in SUBSET (0..(DataBits - 1)) /\ Answer \in SUBSET (0..(DataBits - 1))
      BY RisingExch DEF ExchInv, WordsOK, PhyWords, Answer, Values, AllOnes
    <3> QED BY <1>5, <3>2, <3>3, ShiftDone
  <2>3. phy'.regs = phy.regs /\ phy'.out = phy.out
    BY <1>6, <1>8, <1>11 DEF Writing, SameAnswer
  <2>4. Done'
    BY <1>2, <1>6, <1>7, <1>9, <1>11, <2>1, <2>2, <2>3 DEF Done, Answer, Holds, SameAnswer
  <2> QED BY <1>3, <1>6, <2>4, RisingExch DEF ExchInv, OverInv
<1> QED BY <1>4, <1>10, <1>11

\* Between frames the driver changes only what the next one is to carry.
LEMMA DriverExch ==
  ASSUME ExchInv, ~wb.active, ~wb'.active, WordsOK', StepsOK', wb'.rdata = wb.rdata,
         UNCHANGED <<phy, master, mdc, req>>
  PROVE  ExchInv'
<1>1. RequestOK' /\ HearsInv' /\ ReadsInv' /\ HoldsWire'
  BY DEF ExchInv, RequestOK, HearsInv, ReadsInv, HoldsWire, InRest
<1>2. OverInv'
  BY DEF ExchInv, OverInv, Done, Holds
<1> QED BY <1>1, <1>2 DEF ExchInv

LEMMA Sequence ==
  /\ NSTEPS = 4 /\ PHY_ADDR \in Registers /\ MII_BMCR \in Registers
  /\ \A n \in 0..(NSTEPS - 1) : step_reg[n + 1] \in Registers /\ step_val[n + 1] \in Values
<1>1. BMCR_RESET \in Values
  BY Widths DEF BMCR_RESET, Values, AllOnes
<1>2. {MII_BMCR, MII_ADVERTISE, MII_CTRL1000} \subseteq Registers
  BY FrameAssumption DEF Registers
<1>3. ASSUME NEW n \in 0..3
      PROVE  step_reg[n + 1] \in Registers /\ step_val[n + 1] \in Values
  <2>1. n = 0 \/ n = 1 \/ n = 2 \/ n = 3
    OBVIOUS
  <2> QED BY <1>1, <1>2, <2>1, ProgAssumption DEF step_reg, step_val
<1> QED BY <1>2, <1>3, ProgAssumption DEF NSTEPS

LEMMA ExchProgram ==
  ASSUME MdioIInv, ExchInv, Program
  PROVE  ExchInv'
<1>1. /\ ProgStep /\ UNCHANGED <<phy, master, mdc, req>> /\ master = "prog"
      /\ DOMAIN prog = {"state", "step", "polls", "after_reset", "ready", "failed"}
      /\ wb.active \in BOOLEAN
  BY DEF Program, MdioIInv, ProgInv, StationInv
<1>2. /\ prog.step \in 0..(NSTEPS - 1) /\ prog.after_reset \in BOOLEAN /\ NSTEPS = 4
      /\ prog.after_reset \/ prog.state \in {"RESET_WAIT", "RD_CTRL", "RD_WAIT", "RD_DATA"}
           => prog.step = 0
  BY Sequence DEF ExchInv, StepsOK
<1>3. StepsOK'
  <2>1. CASE WR_DATA \/ RESET_WAIT \/ RD_CTRL \/ DONE
    BY <1>1, <1>2, <2>1 DEF WR_DATA, RESET_WAIT, RD_CTRL, DONE, To, StepsOK
  <2>2. CASE WR_CTRL
    BY <1>1, <1>2, <2>2 DEF WR_CTRL, To, StepsOK
  <2>3. CASE WAIT_BUSY
    <3>1. CASE prog' = prog
      BY <1>2, <3>1 DEF StepsOK
    <3>2. CASE prog.after_reset /\ prog' = To("RESET_WAIT")
      BY <1>1, <1>2, <3>2 DEF To, StepsOK
    <3>3. CASE ~prog.after_reset /\ prog' = To("DONE")
      BY <1>1, <1>2, <3>3 DEF To, StepsOK
    <3>4. CASE prog.step # NSTEPS - 1 /\ prog' = NextStep
      <4>1. prog'.state = "WR_DATA" /\ prog'.step = prog.step + 1 /\ prog'.after_reset = FALSE
        BY <1>1, <3>4 DEF NextStep, To
      <4>2. prog'.step \in 0..(NSTEPS - 1)
        BY <1>2, <3>4, <4>1
      <4>3. prog'.state \notin {"RESET_WAIT", "RD_CTRL", "RD_WAIT", "RD_DATA"}
        BY <4>1
      <4>4. prog'.after_reset \in BOOLEAN /\ ~prog'.after_reset
        BY <4>1
      <4> QED BY <4>2, <4>3, <4>4 DEF StepsOK
    <3> QED BY <2>3, <3>1, <3>2, <3>3, <3>4 DEF WAIT_BUSY, AfterWrite
  <2>4. CASE RD_WAIT
    BY <1>1, <1>2, <2>4 DEF RD_WAIT, To, StepsOK
  <2>5. CASE RD_DATA
    <3>1. prog.step = 0
      BY <1>2, <2>5 DEF RD_DATA
    <3>2. CASE prog' = NextStep \/ prog' = [NextStep EXCEPT !.failed = TRUE]
      <4>1. prog'.state = "WR_DATA" /\ prog'.step = prog.step + 1 /\ prog'.after_reset = FALSE
        BY <1>1, <3>2 DEF NextStep, To
      <4>2. prog'.step \in 0..(NSTEPS - 1)
        BY <1>2, <3>1, <4>1
      <4>3. prog'.state \notin {"RESET_WAIT", "RD_CTRL", "RD_WAIT", "RD_DATA"}
        BY <4>1
      <4>4. prog'.after_reset \in BOOLEAN /\ ~prog'.after_reset
        BY <4>1
      <4> QED BY <4>2, <4>3, <4>4 DEF StepsOK
    <3>3. CASE prog' = [To("RESET_WAIT") EXCEPT !.polls = @ + 1]
      <4>1. prog'.step = prog.step /\ prog'.after_reset = prog.after_reset
        BY <1>1, <3>3 DEF To
      <4> QED BY <1>2, <3>1, <4>1 DEF StepsOK
    <3> QED BY <2>5, <3>2, <3>3 DEF RD_DATA
  <2> QED BY <1>1, <2>1, <2>2, <2>3, <2>4, <2>5 DEF ProgStep
<1>4. CASE wb' = wb
  <2>1. WordsOK' /\ RequestOK' /\ HearsInv' /\ ReadsInv' /\ HoldsWire' /\ OverInv'
    BY <1>1, <1>4 DEF ExchInv, WordsOK, RequestOK, Started, HearsInv, ReadsInv, Answer,
                      HoldsWire, OverInv, Done, Holds, InRest
  <2> QED BY <1>3, <2>1 DEF ExchInv
<1>5. CASE WR_DATA \/ WR_CTRL \/ RD_CTRL
  <2>1. ~wb.active
    BY <1>1, <1>5 DEF MdioIInv, ProgInv, WR_DATA, WR_CTRL, RD_CTRL, busy
  <2>2. /\ step_reg[prog.step + 1] \in Registers /\ step_val[prog.step + 1] \in Values
        /\ PHY_ADDR \in Registers /\ MII_BMCR \in Registers
    BY <1>2, Sequence
  <2>3. /\ wb'.active = wb.active /\ wb'.rdata = wb.rdata /\ wb'.phyad \in Registers
        /\ wb'.regad \in Registers /\ wb'.wdata \in Values
    BY <1>5, <2>2 DEF WR_DATA, WR_CTRL, RD_CTRL, WriteWdata, WriteCtrl, MdioIInv, StationInv,
                      ExchInv, WordsOK
  <2>4. WordsOK'
    BY <1>1, <2>3 DEF ExchInv, WordsOK
  <2> QED BY <1>1, <1>3, <2>1, <2>3, <2>4, DriverExch
<1> QED BY <1>1, <1>4, <1>5
    DEF ProgStep, WAIT_BUSY, RESET_WAIT, RD_WAIT, RD_DATA, DONE

LEMMA ExchRestart ==
  ASSUME MdioIInv, ExchInv, Restart
  PROVE  ExchInv'
<1>1. /\ wb' = wb /\ prog' = NewProg /\ UNCHANGED <<phy, master, mdc, req>> /\ ~wb.active
  BY DEF Restart, StartAgain, MdioIInv, ProgInv, busy
<1>2. StepsOK' /\ WordsOK'
  BY <1>1 DEF StepsOK, NewProg, NSTEPS, ExchInv, WordsOK
<1> QED BY <1>1, <1>2, DriverExch

LEMMA ExchHost ==
  ASSUME MdioIInv, ExchInv, Host
  PROVE  ExchInv'
<1>1. /\ ~busy /\ UNCHANGED <<phy, prog, master, mdc, req>>
      /\ \E phyad \in Asked, regad \in Touched :
           \/ \E v \in Offered : wb' = [WriteCtrl(phyad, regad, FALSE) EXCEPT !.wdata = v]
           \/ wb' = WriteCtrl(phyad, regad, TRUE)
  BY DEF Host
<1>2. /\ ~wb.active /\ wb'.active = wb.active /\ wb'.rdata = wb.rdata
      /\ wb'.phyad \in Registers /\ wb'.regad \in Registers /\ wb'.wdata \in Values
  BY <1>1, SystemAssumption DEF busy, WriteCtrl, MdioIInv, StationInv, ExchInv, WordsOK
<1>3. WordsOK' /\ StepsOK'
  BY <1>1, <1>2 DEF ExchInv, WordsOK, StepsOK
<1> QED BY <1>1, <1>2, <1>3, DriverExch

LEMMA ExchCut ==
  ASSUME MdioIInv, ExchInv, Cut
  PROVE  ExchInv'
<1>1. /\ wb' = NewStation /\ prog' = NewProg /\ req' = [r |-> NoRequest, over |-> TRUE]
      /\ phy' = IF mdc = 1 THEN on_falling(phy) ELSE phy
  BY DEF Cut
<1>2. PhyWords(phy')
  BY <1>1, PhyLetsGo DEF MdioIInv, ExchInv, WordsOK, PhyWords
<1>3. ~wb'.active /\ WordsOK'
  BY <1>1, <1>2 DEF NewStation, WordsOK, Registers, Values
<1>4. StepsOK'
  BY <1>1 DEF StepsOK, NewProg, NSTEPS
<1>5. RequestOK' /\ HearsInv' /\ ReadsInv' /\ HoldsWire' /\ OverInv'
  BY <1>1, <1>3 DEF RequestOK, HearsInv, ReadsInv, HoldsWire, OverInv, InRest
<1> QED BY <1>3, <1>4, <1>5 DEF ExchInv
-----------------------------------------------------------------------------
LEMMA ExchInit ==
  ASSUME Init
  PROVE  ExchInv
<1>1. PICK addr \in Present :
        phy = NewPhy([r \in Registers |-> IF r \in Held THEN HeldValue ELSE {}], addr)
  BY DEF Init
<1>2. wb = NewStation /\ prog = NewProg /\ req = [r |-> NoRequest, over |-> TRUE]
  BY DEF Init
<1>3. PhyWords(phy)
  BY <1>1, SystemAssumption DEF NewPhy, PhyWords, Registers, Values
<1>4. ~wb.active /\ WordsOK
  BY <1>2, <1>3 DEF NewStation, WordsOK, Registers, Values
<1>5. StepsOK
  BY <1>2 DEF StepsOK, NewProg, NSTEPS
<1>6. RequestOK /\ HearsInv /\ ReadsInv /\ HoldsWire /\ OverInv
  BY <1>2, <1>4 DEF RequestOK, HearsInv, ReadsInv, HoldsWire, OverInv, InRest
<1> QED BY <1>4, <1>5, <1>6 DEF ExchInv

LEMMA ExchStep ==
  ASSUME PreambleOutlasts, MdioIInv, MdioIInv', ExchInv, [Next]_vars
  PROVE  ExchInv'
<1>1. master # "bitbang"
  BY DEF PreambleOutlasts, MdioIInv, StationInv
<1>2. CASE Rising
  BY <1>2, ExchRisingIdle, ExchRisingMoves, ExchRisingLast
<1>3. CASE UNCHANGED vars
  BY <1>3 DEF vars, ExchInv, WordsOK, StepsOK, RequestOK, Started, HearsInv, ReadsInv,
              Answer, HoldsWire, OverInv, Done, Holds, InRest
<1> QED BY <1>1, <1>2, <1>3, ExchFalling, ExchProgram, ExchRestart, ExchHost, ExchCut
        DEF Next, Call, WriteRead

\* The inductive invariant of the exchange: the words on either side, as far as
\* the frame has come, and what a request left when it was over.
THEOREM ExchInductive == ASSUME PreambleOutlasts PROVE Spec => []ExchInv
<1>1. Init => ExchInv
  BY ExchInit
<1>2. MdioIInv /\ MdioIInv' /\ ExchInv /\ [Next]_vars => ExchInv'
  BY ExchStep
<1> QED BY <1>1, <1>2, MdioInductive, PTL DEF Spec

\* A request wb_mdio has ended did what was asked of the PHY it was for and of no
\* other, for any widths, values, requests and resets in mid-frame, where the
\* preamble outlasts the rest of a frame (wb_mdio's frame and its sampling,
\* mdio_phy's on_rising).
THEOREM ExchangedAlways == ASSUME PreambleOutlasts PROVE Spec => []Exchanged
<1>1. MdioIInv /\ ExchInv => Exchanged
  <2>1. SUFFICES ASSUME MdioIInv, ExchInv, req.over, req.r # NoRequest PROVE Exchanged
    BY DEF Exchanged
  <2>2. Done /\ master # "bitbang"
    BY <2>1 DEF ExchInv, OverInv, PreambleOutlasts, MdioIInv, StationInv
  <2> QED BY <2>2 DEF Done, Holds, Exchanged
<1> QED BY <1>1, MdioInductive, ExchInductive, PTL
-----------------------------------------------------------------------------
\* mdio_prog's sequence.

\* The PHY mdio_prog speaks to is there.
Here == phy.addr = PHY_ADDR
Awaiting == {"RESET_WAIT", "RD_CTRL", "RD_WAIT", "RD_DATA"}
Ended == {"DONE", "IDLE"}

\* The steps whose frame is over.
Written ==
  IF \/ prog.state \in {"WR_DATA", "WR_CTRL"}
     \/ prog.state = "WAIT_BUSY" /\ busy
  THEN prog.step ELSE prog.step + 1

ToldInv ==
  /\ told \in Seq(Registers \X Values)
  /\ Len(told) = IF Here THEN Written ELSE 0
  /\ \A i \in 1..Len(told) : told[i] = <<step_reg[i], step_val[i]>>

\* What is in wb_mdio's registers at each of mdio_prog's states, and what each
\* of them has learnt.
StateInv ==
  /\ prog.state \in {"WR_DATA", "WR_CTRL", "WAIT_BUSY"} \cup Awaiting \cup Ended
  /\ prog.failed \in BOOLEAN /\ prog.ready \in BOOLEAN
  /\ prog.state \in Ended => prog.step = NSTEPS - 1
  /\ prog.ready => prog.state = "IDLE"
  /\ ~Here /\ prog.step > 0 => prog.failed
  /\ prog.state = "WR_CTRL" => wb.wdata = step_val[prog.step + 1]
  /\ prog.state = "WAIT_BUSY" =>
       /\ prog.after_reset <=> prog.step = 0
       /\ wb.phyad = PHY_ADDR /\ ~wb.is_read
       /\ wb.regad = step_reg[prog.step + 1] /\ wb.wdata = step_val[prog.step + 1]
  /\ prog.state = "RD_WAIT" => wb.phyad = PHY_ADDR /\ wb.is_read /\ wb.regad = MII_BMCR
  /\ prog.state = "RD_DATA" \/ (prog.state = "RD_WAIT" /\ ~busy) =>
       IF Here THEN phy.regs[MII_BMCR] \subseteq wb.rdata ELSE wb.rdata = AllOnes

\* Out of reset before anything else is written, unless it was given up.
ResetOver ==
  Here /\ prog.step > 0 /\ ~prog.failed => ~(BMCR_RESET \subseteq phy.regs[MII_BMCR])

\* Once a frame has come whole the PHY waits between frames.
CalmInv == Written > 0 /\ ~InRest => phy.st = "Preamble"

SequenceInv == master = "prog" => ToldInv /\ StateInv /\ ResetOver /\ CalmInv

LEMMA SequenceFalling ==
  ASSUME MdioIInv, SequenceInv, Falling
  PROVE  SequenceInv'
<1>1. /\ wb' = OnFalling /\ phy' = on_falling(phy) /\ prog' = prog /\ master' = master
      /\ told' = told
  BY DEF Falling
<1>2. phy'.addr = phy.addr /\ phy'.st = phy.st /\ phy'.regs = phy.regs
  BY <1>1, PhyLetsGo DEF MdioIInv
<1>3. /\ wb'.phyad = wb.phyad /\ wb'.regad = wb.regad /\ wb'.wdata = wb.wdata
      /\ wb'.rdata = wb.rdata /\ wb'.is_read = wb.is_read /\ busy' = busy
      /\ wb'.active /\ ~wb.active => wb'.bits_left = FRAME_BITS
      /\ wb.active => wb'.bits_left = wb.bits_left /\ wb'.active
  BY <1>1 DEF OnFalling, busy, MdioIInv, StationInv
<1>4. InRest' => InRest
  BY <1>3, Widths DEF InRest, MdioIInv, StationInv
<1>5. InRest => InRest'
  BY <1>3 DEF InRest
<1>6. Here' = Here /\ Written' = Written
  BY <1>1, <1>2, <1>3 DEF Here, Written
<1>7. SUFFICES ASSUME master = "prog" PROVE SequenceInv'
  BY <1>1 DEF SequenceInv
<1>8. ToldInv'
  BY <1>1, <1>6, <1>7 DEF SequenceInv, ToldInv
<1>9. StateInv'
  BY <1>1, <1>2, <1>3, <1>6, <1>7 DEF SequenceInv, StateInv
<1>10. ResetOver' /\ CalmInv'
  BY <1>1, <1>2, <1>4, <1>5, <1>6, <1>7 DEF SequenceInv, ResetOver, CalmInv
<1> QED BY <1>8, <1>9, <1>10 DEF SequenceInv

\* A bit that is not the last of a frame leaves the registers as they are, but
\* for the reset bit.
LEMMA SequenceBit ==
  ASSUME MdioIInv, ExchInv, SequenceInv, Rising, ~wb.active \/ wb.bits_left # 1
  PROVE  SequenceInv'
<1>1. /\ prog' = prog /\ master' = master /\ wb' = OnRising(mdio_i)
      /\ wb.active \in BOOLEAN /\ wb.armed \in BOOLEAN
  BY DEF Rising, MdioIInv, StationInv
<1>2. /\ wb'.phyad = wb.phyad /\ wb'.regad = wb.regad /\ wb'.wdata = wb.wdata
      /\ wb'.is_read = wb.is_read /\ phy'.addr = phy.addr /\ PhyWords(phy)
      /\ ~wb.active => wb'.rdata = wb.rdata
  BY RisingExch DEF Hears, ExchInv, WordsOK
<1>3. wb'.active = wb.active /\ wb'.armed = wb.armed
  BY <1>1, RisingStation DEF OnRising, StationMoves
<1>4. busy' = busy /\ told' = told
  BY <1>3 DEF busy, Rising
<1>5. Here' = Here /\ Written' = Written
  BY <1>1, <1>2, <1>4 DEF Here, Written
<1>6. InRest => InRest'
  <2>1. ASSUME InRest PROVE wb'.bits_left = wb.bits_left - 1 /\ wb.bits_left \in Nat
    BY <2>1, RisingStation DEF InRest, StationMoves
  <2> QED BY <1>3, <2>1, Widths DEF InRest
<1>7. ASSUME Written > 0, ~InRest', master = "prog"
      PROVE  phy'.st = "Preamble"
  <2>1. ~InRest /\ phy.st = "Preamble"
    BY <1>6, <1>7 DEF SequenceInv, CalmInv
  <2>2. CASE ~wb.active
    <3>1. ~phy.driving /\ ~wb.oe /\ master # "bitbang"
      BY <1>7, <2>1, <2>2, RisesNow DEF MdioIInv, StationInv
    <3>2. Wire = 1
      BY <3>1 DEF Wire, Drives
    <3> QED BY <2>1, <3>2, RisesNow DEF Rises
  <2>3. CASE wb.active
    <3>1. wb'.bits_left = wb.bits_left - 1 /\ wb.bits_left \in Nat
      BY <2>3, RisingStation DEF StationMoves
    <3>2. wb.bits_left > DelimBits
      BY <1>3, <1>7, <2>3, <3>1, Widths DEF InRest
    <3>3. wb.bits_left > DataBits + TA_BITS /\ wb.bits_left <= FRAME_BITS
      BY <2>3, <3>1, <3>2, WireSays, Widths
    <3>4. Says(FRAME_BITS - wb.bits_left + 1, Wire)
      BY <2>3, <3>3, WireSays
    <3>5. FRAME_BITS - wb.bits_left + 1 <= PreambleBits
      BY <3>1, <3>2, Widths
    <3>6. Wire = 1
      BY <3>4, <3>5 DEF Says
    <3> QED BY <2>1, <3>6, RisesNow DEF Rises
  <2> QED BY <1>1, <2>2, <2>3
<1>8. ASSUME Written > 0, master = "prog", NEW m \in Registers
      PROVE  phy'.regs[m] \subseteq phy.regs[m]
  <2>1. CASE phy.st # "Data"
    BY <2>1, RisingExch DEF Hears
  <2>2. CASE phy.st = "Data"
    <3>1. InRest
      BY <1>8, <2>2 DEF SequenceInv, CalmInv
    <3>2. wb.bits_left = DataBits - phy.count /\ wb.bits_left # 1 /\ phy.count \in Nat
      BY <2>2, <3>1, InRestAt DEF Rest, InRest
    <3>3. phy.count + 1 < DataBits
      BY <3>1, <3>2, InRestAt, Widths
    <3>4. phy'.st = "Data"
      BY <2>2, <3>3, RisingExch DEF Hears, Counts
    <3> QED BY <2>2, <3>4, RisingExch DEF Hears
  <2> QED BY <2>1, <2>2
<1>9. SUFFICES ASSUME master = "prog" PROVE SequenceInv'
  BY <1>1 DEF SequenceInv
<1>10. /\ prog.step \in Nat /\ prog.step + 1 > 0
  BY Sequence DEF ExchInv, StepsOK
<1>11. prog.step > 0 \/ prog.state \in Awaiting => Written > 0
  BY <1>10 DEF Written, Awaiting
<1>12. MII_BMCR \in Registers
  BY Sequence
<1>13. ToldInv'
  BY <1>4, <1>5, <1>9 DEF SequenceInv, ToldInv
<1>14. StateInv'
  <2>1. ASSUME prog.state = "RD_DATA" \/ (prog.state = "RD_WAIT" /\ ~busy)
        PROVE  IF Here THEN phy'.regs[MII_BMCR] \subseteq wb'.rdata ELSE wb'.rdata = AllOnes
    <3>1. ~busy
      BY <1>9, <2>1 DEF MdioIInv, ProgInv
    <3>2. wb'.rdata = wb.rdata
      BY <1>2, <3>1 DEF busy
    <3>3. phy'.regs[MII_BMCR] \subseteq phy.regs[MII_BMCR]
      BY <1>8, <1>9, <1>11, <1>12, <2>1 DEF Awaiting
    <3>4. IF Here THEN phy.regs[MII_BMCR] \subseteq wb.rdata ELSE wb.rdata = AllOnes
      BY <1>9, <2>1 DEF SequenceInv, StateInv
    <3> QED BY <3>2, <3>3, <3>4
  <2> QED BY <1>1, <1>2, <1>4, <1>5, <1>9, <2>1 DEF SequenceInv, StateInv
<1>15. ResetOver'
  <2>1. SUFFICES ASSUME Here, prog.step > 0, ~prog.failed
                 PROVE  ~(BMCR_RESET \subseteq phy'.regs[MII_BMCR])
    BY <1>1, <1>5 DEF ResetOver
  <2>2. ~(BMCR_RESET \subseteq phy.regs[MII_BMCR])
    BY <1>9, <2>1 DEF SequenceInv, ResetOver
  <2> QED BY <1>8, <1>9, <1>11, <1>12, <2>1, <2>2
<1>16. CalmInv'
  BY <1>5, <1>7, <1>9 DEF CalmInv
<1> QED BY <1>13, <1>14, <1>15, <1>16 DEF SequenceInv

\* The last bit of a frame leaves what was written in the PHY it was for.
LEMMA LastBit ==
  ASSUME MdioIInv, ExchInv, Rising, wb.active, wb.bits_left = 1
  PROVE  /\ phy'.st = "Preamble" /\ phy'.addr = phy.addr /\ ~busy' /\ Done'
         /\ req'.r = Started
         /\ phy'.regs = IF ~wb.is_read /\ wb.phyad = phy.addr
                        THEN [phy.regs EXCEPT ![wb.regad] = wb.wdata] ELSE phy.regs
<1>1. ~wb'.active /\ ~wb'.armed /\ InRest /\ wb.is_read \in BOOLEAN
  BY Widths DEF Rising, OnRising, MdioIInv, StationInv, InRest
<1>2. req'.over = TRUE /\ req'.r = Started /\ Started # NoRequest
  BY <1>1, RisingExch DEF ExchInv, RequestOK, Started, NoRequest, OP_READ, OP_WRITE
<1>3. phy'.st = "Preamble" /\ Done'
  BY <1>2, ExchRisingLast DEF ExchInv, OverInv
<1>4. /\ phy.st = "Data" /\ phy.regad = wb.regad /\ (phy.forUs <=> wb.phyad = phy.addr)
      /\ phy.op = OP_WRITE <=> ~wb.is_read
  <2>1. phy.st = "Data"
    BY <1>1, InRestAt, Widths
  <2>2. phy.regad = wb.regad /\ (phy.forUs <=> wb.phyad = phy.addr)
    BY <1>1, <2>1 DEF ExchInv, HearsInv
  <2>3. phy.op = OP_WRITE <=> ~wb.is_read
    BY <1>1, <2>1 DEF MdioIInv, SyncInv, OP_READ, OP_WRITE, Late
  <2> QED BY <2>1, <2>2, <2>3
<1>5. /\ phy'.addr = phy.addr
      /\ phy'.regs = IF Writing(phy) THEN [phy.regs EXCEPT ![wb.regad] = phy'.data]
                     ELSE phy.regs
  BY <1>3, <1>4, RisingExch DEF Hears
<1>6. Writing(phy) <=> ~wb.is_read /\ wb.phyad = phy.addr
  BY <1>1, <1>4 DEF Writing
<1>7. ASSUME Writing(phy)
      PROVE  phy'.data = wb.wdata
  <2>1. phy'.regs[wb.regad] = wb.wdata
    BY <1>2, <1>3, <1>5, <1>6, <1>7 DEF Done, Started
  <2>2. phy.regs \in [Registers -> Values] /\ wb.regad \in Registers
    BY DEF ExchInv, WordsOK, PhyWords
  <2> QED BY <1>5, <1>7, <2>1, <2>2
<1> QED BY <1>1, <1>2, <1>3, <1>5, <1>6, <1>7 DEF busy

LEMMA SequenceLast ==
  ASSUME MdioIInv, ExchInv, SequenceInv, Rising, wb.active, wb.bits_left = 1
  PROVE  SequenceInv'
<1>1. /\ prog' = prog /\ master' = master
      /\ told' = IF wb.active /\ ~wb'.active /\ ~wb.is_read /\ wb.phyad = phy.addr
                 THEN Append(told, <<req.r.regad, phy'.regs[req.r.regad]>>) ELSE told
  BY DEF Rising
<1>2. SUFFICES ASSUME master = "prog" PROVE SequenceInv'
  BY <1>1 DEF SequenceInv
<1>3. /\ ToldInv /\ StateInv /\ ResetOver
      /\ prog.step \in 0..(NSTEPS - 1) /\ NSTEPS = 4 /\ MII_BMCR \in Registers
      /\ step_reg[prog.step + 1] \in Registers /\ step_val[prog.step + 1] \in Values
  BY <1>2, Sequence DEF SequenceInv, ExchInv, StepsOK
<1>4. /\ wb'.phyad = wb.phyad /\ wb'.regad = wb.regad /\ wb'.wdata = wb.wdata
      /\ wb'.is_read = wb.is_read
      /\ phy.regs \in [Registers -> Values] /\ PhyWords(phy')
  BY RisingExch DEF ExchInv, WordsOK, PhyWords, Hears
<1>5. busy /\ ~busy' /\ ~wb'.active /\ prog.state \in {"WAIT_BUSY", "RD_WAIT"}
  BY <1>2, LastBit DEF busy, MdioIInv, ProgInv
<1>6. Here' = Here /\ CalmInv'
  BY LastBit DEF Here, CalmInv
<1>7. CASE prog.state = "WAIT_BUSY"
  <2>1. /\ wb.phyad = PHY_ADDR /\ ~wb.is_read
        /\ wb.regad = step_reg[prog.step + 1] /\ wb.wdata = step_val[prog.step + 1]
    BY <1>3, <1>7 DEF StateInv
  <2>2. Written = prog.step /\ Written' = prog.step + 1
    BY <1>1, <1>5, <1>7 DEF Written
  <2>3. phy'.regs = IF Here THEN [phy.regs EXCEPT ![wb.regad] = wb.wdata] ELSE phy.regs
    BY <2>1, LastBit DEF Here
  <2>4. req.r.regad = wb.regad
    BY DEF ExchInv, RequestOK, Started
  <2>5. ToldInv'
    <3>1. CASE Here
      <4>1. told' = Append(told, <<wb.regad, wb.wdata>>)
        BY <1>1, <1>3, <1>4, <1>5, <2>1, <2>3, <2>4, <3>1 DEF Here
      <4>2. told \in Seq(Registers \X Values) /\ Len(told) = prog.step
        BY <1>3, <2>2, <3>1 DEF ToldInv
      <4>3. /\ told' \in Seq(Registers \X Values) /\ Len(told') = prog.step + 1
            /\ \A i \in 1..prog.step : told'[i] = told[i]
            /\ told'[prog.step + 1] = <<wb.regad, wb.wdata>>
        BY <1>3, <2>1, <4>1, <4>2
      <4>4. ASSUME NEW i \in 1..Len(told')
            PROVE  told'[i] = <<step_reg[i], step_val[i]>>
        <5>1. i \in 1..prog.step \/ i = prog.step + 1
          BY <1>3, <4>3
        <5>2. \A j \in 1..prog.step : told[j] = <<step_reg[j], step_val[j]>>
          BY <1>3, <4>2 DEF ToldInv
        <5> QED BY <2>1, <4>3, <5>1, <5>2
      <4> QED BY <1>6, <2>2, <3>1, <4>3, <4>4 DEF ToldInv
    <3>2. CASE ~Here
      <4>1. told' = told
        BY <1>1, <2>1, <3>2 DEF Here
      <4> QED BY <1>3, <1>6, <3>2, <4>1 DEF ToldInv
    <3> QED BY <3>1, <3>2
  <2>6. StateInv'
    BY <1>1, <1>3, <1>4, <1>6, <1>7 DEF StateInv, Awaiting, Ended
  <2>7. ResetOver'
    <3>1. SUFFICES ASSUME Here, prog.step > 0, ~prog.failed
                   PROVE  ~(BMCR_RESET \subseteq phy'.regs[MII_BMCR])
      BY <1>1, <1>6 DEF ResetOver
    <3>2. ~(BMCR_RESET \subseteq phy.regs[MII_BMCR])
      BY <1>3, <3>1 DEF ResetOver
    <3>3. prog.step = 1 \/ prog.step = 2 \/ prog.step = 3
      BY <1>3, <3>1
    <3>4. CASE prog.step = 3
      <4>1. wb.regad = MII_BMCR /\ wb.wdata = ANEG_VALUE
        BY <2>1, <3>4 DEF step_reg, step_val
      <4> QED BY <1>3, <1>4, <2>3, <3>1, <4>1, ProgAssumption
    <3>5. CASE prog.step # 3
      <4>1. wb.regad # MII_BMCR
        BY <2>1, <3>3, <3>5, ProgAssumption DEF step_reg
      <4> QED BY <1>3, <1>4, <2>3, <3>1, <3>2, <4>1
    <3> QED BY <3>4, <3>5
  <2> QED BY <1>6, <2>5, <2>6, <2>7 DEF SequenceInv
<1>8. CASE prog.state = "RD_WAIT"
  <2>1. wb.phyad = PHY_ADDR /\ wb.is_read /\ wb.regad = MII_BMCR
    BY <1>3, <1>8 DEF StateInv
  <2>2. told' = told /\ Written' = Written /\ phy'.regs = phy.regs
    BY <1>1, <1>8, <2>1, LastBit DEF Written
  <2>3. IF Here THEN phy'.regs[MII_BMCR] \subseteq wb'.rdata ELSE wb'.rdata = AllOnes
    <3>1. /\ req'.r.phyad = PHY_ADDR /\ req'.r.op = OP_READ /\ req'.r.regad = MII_BMCR
          /\ Done' /\ phy'.addr = phy.addr
      BY <2>1, LastBit DEF Started
    <3> QED BY <3>1 DEF Done, Here, Holds
  <2>4. ToldInv' /\ ResetOver'
    BY <1>1, <1>3, <1>6, <2>2 DEF ToldInv, ResetOver
  <2>5. StateInv'
    BY <1>1, <1>3, <1>4, <1>6, <1>8, <2>3 DEF StateInv, Awaiting, Ended
  <2> QED BY <1>6, <2>4, <2>5 DEF SequenceInv
<1> QED BY <1>5, <1>7, <1>8

LEMMA SequenceProgram ==
  ASSUME MdioIInv, ExchInv, SequenceInv, Program
  PROVE  SequenceInv'
<1>1. /\ ProgStep /\ phy' = phy /\ master' = master /\ told' = told /\ master = "prog"
      /\ DOMAIN prog = {"state", "step", "polls", "after_reset", "ready", "failed"}
  BY DEF Program, MdioIInv, ProgInv
<1>2. /\ ToldInv /\ StateInv /\ ResetOver /\ CalmInv
      /\ prog.step \in 0..(NSTEPS - 1) /\ prog.after_reset \in BOOLEAN /\ NSTEPS = 4
      /\ prog.state \in Awaiting => prog.step = 0
      /\ prog.failed \in BOOLEAN /\ prog.ready \in BOOLEAN
  BY <1>1, Sequence DEF SequenceInv, ExchInv, StepsOK, Awaiting, StateInv
<1>3. /\ DOMAIN wb = {"phyad", "regad", "is_read", "wdata", "rdata", "rvalid", "shifter",
                      "bits_left", "active", "armed", "o", "oe"}
      /\ prog.state \notin {"WAIT_BUSY", "RD_WAIT"} => ~busy
      /\ wb.active \in BOOLEAN /\ wb.armed \in BOOLEAN
  BY <1>1 DEF MdioIInv, StationInv, ProgInv
<1>4. Here' = Here
  BY <1>1 DEF Here
\* It is enough that no step's frame is over by it, and the states' own facts.
<1>5. ASSUME Written' = Written, StateInv', ResetOver', InRest' <=> InRest
      PROVE  SequenceInv'
  BY <1>1, <1>2, <1>4, <1>5 DEF SequenceInv, ToldInv, CalmInv
<1>6. CASE WR_DATA
  <2>1. /\ wb'.wdata = step_val[prog.step + 1] /\ wb'.active = wb.active
        /\ wb'.armed = wb.armed /\ wb'.bits_left = wb.bits_left /\ wb'.rdata = wb.rdata
    BY <1>3, <1>6 DEF WR_DATA, WriteWdata
  <2>2. /\ prog.state = "WR_DATA" /\ prog'.state = "WR_CTRL" /\ prog'.step = prog.step
        /\ prog'.failed = prog.failed /\ prog'.ready = prog.ready
    BY <1>1, <1>6 DEF WR_DATA, To
  <2>3. Written' = Written /\ (InRest' <=> InRest)
    BY <2>1, <2>2 DEF Written, InRest
  <2>4. StateInv' /\ ResetOver'
    BY <1>1, <1>2, <1>4, <2>1, <2>2 DEF StateInv, ResetOver, Ended, Awaiting
  <2> QED BY <1>5, <2>3, <2>4
<1>7. CASE WR_CTRL
  <2>1. /\ wb'.phyad = PHY_ADDR /\ wb'.regad = step_reg[prog.step + 1] /\ ~wb'.is_read
        /\ wb'.wdata = wb.wdata /\ wb'.active = wb.active /\ busy'
        /\ wb'.bits_left = wb.bits_left
    BY <1>3, <1>7 DEF WR_CTRL, WriteCtrl, busy
  <2>2. /\ prog.state = "WR_CTRL" /\ prog'.state = "WAIT_BUSY" /\ prog'.step = prog.step
        /\ prog'.failed = prog.failed /\ prog'.ready = prog.ready
        /\ prog'.after_reset = (prog.step = 0)
    BY <1>1, <1>7 DEF WR_CTRL, To
  <2>3. Written' = Written /\ (InRest' <=> InRest)
    BY <2>1, <2>2 DEF Written, InRest
  <2>4. StateInv' /\ ResetOver'
    BY <1>1, <1>2, <1>4, <2>1, <2>2 DEF StateInv, ResetOver, Ended, Awaiting
  <2> QED BY <1>5, <2>3, <2>4
<1>8. CASE WAIT_BUSY
  <2>1. wb' = wb /\ prog.state = "WAIT_BUSY" /\ (InRest' <=> InRest) /\ busy' = busy
    BY <1>8 DEF WAIT_BUSY, InRest, busy
  <2>2. CASE busy
    <3>1. prog' = prog
      BY <1>8, <2>2 DEF WAIT_BUSY
    <3>2. Written' = Written /\ StateInv' /\ ResetOver'
      BY <1>1, <1>2, <1>4, <2>1, <3>1 DEF Written, StateInv, ResetOver
    <3> QED BY <1>5, <2>1, <3>2
  <2>3. CASE ~busy
    <3>1. /\ prog' = AfterWrite /\ (prog.after_reset <=> prog.step = 0)
          /\ Written = prog.step + 1
      BY <1>2, <1>8, <2>1, <2>3 DEF WAIT_BUSY, StateInv, Written
    <3>2. /\ prog'.failed = prog.failed /\ prog'.ready = prog.ready
          /\ \/ prog'.state = "RESET_WAIT" /\ prog'.step = prog.step
             \/ prog'.state = "DONE" /\ prog'.step = prog.step /\ prog.step = NSTEPS - 1
             \/ /\ prog'.state = "WR_DATA" /\ prog'.step = prog.step + 1
                /\ prog.step # 0
      BY <1>1, <3>1 DEF AfterWrite, NextStep, To
    <3>3. Written' = Written
      BY <1>2, <3>1, <3>2 DEF Written
    <3>4. StateInv'
      BY <1>1, <1>2, <1>4, <2>1, <3>2 DEF StateInv, Ended, Awaiting
    <3>5. ResetOver'
      BY <1>1, <1>2, <1>4, <3>2 DEF ResetOver
    <3> QED BY <1>5, <2>1, <3>3, <3>4, <3>5
  <2> QED BY <2>2, <2>3
<1>9. CASE RESET_WAIT
  <2>1. /\ wb' = wb /\ (InRest' <=> InRest)
        /\ prog.state = "RESET_WAIT" /\ prog'.state = "RD_CTRL" /\ prog'.step = prog.step
        /\ prog'.failed = prog.failed /\ prog'.ready = prog.ready
    BY <1>1, <1>9 DEF RESET_WAIT, To, InRest
  <2>2. Written' = Written
    BY <2>1 DEF Written
  <2>3. StateInv' /\ ResetOver'
    BY <1>1, <1>2, <1>4, <2>1 DEF StateInv, ResetOver, Ended, Awaiting
  <2> QED BY <1>5, <2>1, <2>2, <2>3
<1>10. CASE RD_CTRL
  <2>1. /\ wb'.phyad = PHY_ADDR /\ wb'.regad = MII_BMCR /\ wb'.is_read
        /\ wb'.active = wb.active /\ busy' /\ wb'.bits_left = wb.bits_left
    BY <1>3, <1>10 DEF RD_CTRL, WriteCtrl, busy
  <2>2. /\ prog.state = "RD_CTRL" /\ prog'.state = "RD_WAIT" /\ prog'.step = prog.step
        /\ prog'.failed = prog.failed /\ prog'.ready = prog.ready
    BY <1>1, <1>10 DEF RD_CTRL, To
  <2>3. Written' = Written /\ (InRest' <=> InRest)
    BY <2>1, <2>2 DEF Written, InRest
  <2>4. StateInv' /\ ResetOver'
    BY <1>1, <1>2, <1>4, <2>1, <2>2 DEF StateInv, ResetOver, Ended, Awaiting
  <2> QED BY <1>5, <2>3, <2>4
<1>11. CASE RD_WAIT
  <2>1. /\ wb' = wb /\ prog.state = "RD_WAIT" /\ (InRest' <=> InRest) /\ busy' = busy
    BY <1>11 DEF RD_WAIT, InRest, busy
  <2>2. CASE busy
    <3>1. prog' = prog
      BY <1>11, <2>2 DEF RD_WAIT
    <3>2. Written' = Written /\ StateInv' /\ ResetOver'
      BY <1>1, <1>2, <1>4, <2>1, <3>1 DEF Written, StateInv, ResetOver
    <3> QED BY <1>5, <2>1, <3>2
  <2>3. CASE ~busy
    <3>1. /\ prog'.state = "RD_DATA" /\ prog'.step = prog.step
          /\ prog'.failed = prog.failed /\ prog'.ready = prog.ready
      BY <1>1, <1>11, <2>3 DEF RD_WAIT, To
    <3>2. Written' = Written
      BY <2>1, <3>1 DEF Written
    <3>3. StateInv' /\ ResetOver'
      BY <1>1, <1>2, <1>4, <2>1, <2>3, <3>1 DEF StateInv, ResetOver, Ended, Awaiting
    <3> QED BY <1>5, <2>1, <3>2, <3>3
  <2> QED BY <2>2, <2>3
<1>12. CASE RD_DATA
  <2>1. /\ wb' = wb /\ prog.state = "RD_DATA" /\ (InRest' <=> InRest) /\ prog.step = 0
        /\ Written = prog.step + 1
        /\ IF Here THEN phy.regs[MII_BMCR] \subseteq wb.rdata ELSE wb.rdata = AllOnes
    BY <1>2, <1>12 DEF RD_DATA, InRest, StateInv, Awaiting, Written
  <2>2. BMCR_RESET \subseteq AllOnes
    BY Widths DEF BMCR_RESET, AllOnes
  <2>3. CASE prog' = [To("RESET_WAIT") EXCEPT !.polls = @ + 1]
    <3>1. /\ prog'.state = "RESET_WAIT" /\ prog'.step = prog.step
          /\ prog'.failed = prog.failed /\ prog'.ready = prog.ready
      BY <1>1, <2>3 DEF To
    <3>2. Written' = Written
      BY <2>1, <3>1 DEF Written
    <3>3. StateInv' /\ ResetOver'
      BY <1>1, <1>2, <1>4, <2>1, <3>1 DEF StateInv, ResetOver, Ended, Awaiting
    <3> QED BY <1>5, <2>1, <3>2, <3>3
  <2>4. CASE \/ ~(BMCR_RESET \subseteq wb.rdata) /\ prog' = NextStep
             \/ prog' = [NextStep EXCEPT !.failed = TRUE]
    <3>1. /\ prog'.state = "WR_DATA" /\ prog'.step = prog.step + 1
          /\ prog'.ready = prog.ready
          /\ \/ ~(BMCR_RESET \subseteq wb.rdata) /\ prog'.failed = prog.failed
             \/ prog'.failed = TRUE
      BY <1>1, <2>4 DEF NextStep, To
    <3>2. Written' = Written
      BY <2>1, <3>1 DEF Written
    <3>3. ~Here => prog'.failed = TRUE
      BY <2>1, <2>2, <3>1
    <3>4. prog'.failed \in BOOLEAN
      BY <1>2, <3>1
    <3>5. StateInv'
      BY <1>1, <1>2, <1>4, <2>1, <3>1, <3>3, <3>4 DEF StateInv, Ended, Awaiting
    <3>6. ResetOver'
      BY <1>1, <1>4, <2>1, <3>1 DEF ResetOver
    <3> QED BY <1>5, <2>1, <3>2, <3>5, <3>6
  <2> QED BY <1>12, <2>3, <2>4 DEF RD_DATA
<1>13. CASE DONE
  <2>1. /\ wb' = wb /\ (InRest' <=> InRest)
        /\ prog.state = "DONE" /\ prog'.state = "IDLE" /\ prog'.step = prog.step
        /\ prog'.failed = prog.failed /\ prog'.ready = TRUE
    BY <1>1, <1>13 DEF DONE, To, InRest
  <2>2. Written' = Written
    BY <2>1 DEF Written
  <2>3. StateInv' /\ ResetOver'
    BY <1>1, <1>2, <1>4, <2>1 DEF StateInv, ResetOver, Ended, Awaiting
  <2> QED BY <1>5, <2>1, <2>2, <2>3
<1> QED BY <1>1, <1>6, <1>7, <1>8, <1>9, <1>10, <1>11, <1>12, <1>13 DEF ProgStep

\* From a reset, or a new pulse, nothing has been heard.
LEMMA SequenceNew ==
  ASSUME prog' = NewProg, told' = <<>>
  PROVE  SequenceInv'
<1>1. Written' = 0
  BY DEF Written, NewProg
<1>2. ToldInv' /\ CalmInv'
  BY <1>1 DEF ToldInv, CalmInv
<1>3. StateInv' /\ ResetOver'
  BY DEF NewProg, StateInv, ResetOver, Ended, Awaiting
<1> QED BY <1>2, <1>3 DEF SequenceInv

LEMMA SequenceInit ==
  ASSUME Init
  PROVE  SequenceInv
<1>1. prog = NewProg /\ told = <<>>
  BY DEF Init
<1>2. Written = 0
  BY <1>1 DEF Written, NewProg
<1>3. ToldInv /\ CalmInv
  BY <1>1, <1>2 DEF ToldInv, CalmInv
<1>4. StateInv /\ ResetOver
  BY <1>1 DEF NewProg, StateInv, ResetOver, Ended, Awaiting
<1> QED BY <1>3, <1>4 DEF SequenceInv

LEMMA SequenceStep ==
  ASSUME PreambleOutlasts, MdioIInv, ExchInv, SequenceInv, [Next]_vars
  PROVE  SequenceInv'
<1>1. master # "bitbang"
  BY DEF PreambleOutlasts, MdioIInv, StationInv
<1>2. CASE Rising
  BY <1>2, SequenceBit, SequenceLast DEF MdioIInv, StationInv
<1>3. CASE Restart \/ Cut
  BY <1>3, SequenceNew DEF Restart, StartAgain, Cut
<1>4. CASE Host
  BY <1>4 DEF Host, SequenceInv
<1>5. CASE UNCHANGED vars
  BY <1>5 DEF vars, SequenceInv, ToldInv, StateInv, ResetOver, CalmInv, Written, Here,
              busy, InRest
<1> QED BY <1>1, <1>2, <1>3, <1>4, <1>5, SequenceFalling, SequenceProgram
        DEF Next, Call, WriteRead

\* The inductive invariant of mdio_prog's sequence.
THEOREM SequenceInductive == ASSUME PreambleOutlasts PROVE Spec => []SequenceInv
<1>1. Init => SequenceInv
  BY SequenceInit
<1>2. MdioIInv /\ ExchInv /\ SequenceInv /\ [Next]_vars => SequenceInv'
  BY SequenceStep
<1> QED BY <1>1, <1>2, MdioInductive, ExchInductive, PTL DEF Spec

\* What the PHY hears of mdio_prog, through wb_mdio, is the beginning of its
\* sequence, each step once and in order, out of reset before the second step
\* unless it was given up, and all of it when ready is said of a PHY that is
\* there: the safety half of ProgEnds (step_reg, step_val, RESET_POLLS).
THEOREM HeardInOrder ==
  ASSUME PreambleOutlasts PROVE Spec => [](master = "prog" => Heard)
<1>1. ExchInv /\ SequenceInv => (master = "prog" => Heard)
  <2>1. SUFFICES ASSUME ExchInv, SequenceInv, master = "prog" PROVE Heard
    OBVIOUS
  <2>2. /\ ToldInv /\ StateInv /\ ResetOver
        /\ prog.step \in 0..(NSTEPS - 1) /\ NSTEPS = 4
    BY <2>1, Sequence DEF SequenceInv, ExchInv, StepsOK
  <2>3. Written \in Nat /\ Written <= NSTEPS /\ (Written = 2 => prog.step > 0)
    BY <2>2 DEF Written
  <2>4. Len(told) <= NSTEPS /\ \A i \in DOMAIN told : told[i] = <<step_reg[i], step_val[i]>>
    BY <2>2, <2>3 DEF ToldInv
  <2>5. ASSUME Len(told) = 2, ~prog.failed
        PROVE  ~(BMCR_RESET \subseteq phy.regs[MII_BMCR])
    <3>1. Here /\ Written = 2
      <4>1. Len(told) = IF Here THEN Written ELSE 0
        BY <2>2 DEF ToldInv
      <4>2. IF Here THEN Written = 2 ELSE 0 = 2
        BY <4>1, <2>5
      <4>3. 0 # 2
        OBVIOUS
      <4> QED BY <4>2, <4>3
    <3>2. prog.step > 0
      BY <2>3, <3>1
    <3> QED BY <2>2, <2>5, <3>1, <3>2 DEF ResetOver
  <2>6. ASSUME prog.ready
        PROVE  IF Here THEN Len(told) = NSTEPS ELSE prog.failed
    <3>1. prog.state = "IDLE" /\ prog.step = 3
      BY <2>2, <2>6 DEF StateInv, Ended
    <3>2. Written = NSTEPS
      BY <2>2, <3>1 DEF Written
    <3> QED BY <2>2, <3>1, <3>2 DEF ToldInv, StateInv
  <2> QED BY <2>4, <2>5, <2>6 DEF Heard, Here
<1> QED BY <1>1, ExchInductive, SequenceInductive, PTL
=============================================================================
