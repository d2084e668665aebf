---------------------------- MODULE CommandSystem ----------------------------
(***************************************************************************)
(* The command unit at work: ie_cu, its memory port, the staging RAM, the  *)
(* transmitter in its own clock domain, the loopback FIFO, and the command *)
(* lists the driver built.  Control pulses come at any moment.             *)
(*                                                                         *)
(* Clock is a rising edge of clk and Tick one of tx_clk; neither clock     *)
(* knows the other, except that tx_clk is at most Ratio times slower.      *)
(***************************************************************************)
EXTENDS ScbTypes, Naturals, Sequences, FiniteSets

CONSTANTS
  Blocks, Cb,   \* command blocks, and what the driver put in each
  Tbds, Td,     \* transmit buffer descriptors, likewise
  Heads,        \* blocks a list is started at
  Pulses,       \* control pulses given to the unit
  ResetStates,  \* states of the unit in which a reset may begin (a bound)
  Medium,       \* values carrier and collision can take
  McSlots, RamBytes, LbDepth, DeferLimit, RetryLimit, Ratio, Null

ASSUME ListAssumption ==
  /\ Heads \subseteq Blocks
  /\ Pulses \subseteq Controls
  /\ ResetStates \subseteq STRING
  /\ Medium \subseteq [crs : BOOLEAN, col : BOOLEAN]
  /\ {Ratio, LbDepth, McSlots, RamBytes} \subseteq Nat \ {0}

VARIABLES
  \* ie_cu
  state, cb, cmd, link, idx, ok, suspended, suspend_pending, abort_pending,
  cu_ev, ia, cfg, cfg_words, mc_all, mc_left, mc_off, mc_out, tbd, tx_word,
  tx_bytes, tx_len, tx_go, tx_status, done_s1, done_s2, ram_wr, lb_wr,
  core_rst, cu_ctl, cbl,
  \* the memory port and the memory
  port, access, rdata, status,
  \* the receive unit's multicast list
  mc,
  lb_level,    \* words in the loopback FIFO
  \* the staging RAM and its registered read port
  ram, ram_q,
  \* mii_tx and its reset synchroniser
  tx_state, go_s1, go_s2, tx_idx, attempt, deferred, defer_ctr, tx_done, tx_ok,
  tx_report, txd, tx_rst_q,
  lead,        \* edges of clk since the last one of tx_clk
  \* history
  wire,        \* bytes of the frame now on the wire
  sent,        \* whole frames sent since the block in hand was taken
  looped,      \* words put in the loopback FIFO since then, with their places
  due,         \* the block the list must go on with
  aborted      \* an abort was given, and no start since

bus_ack == port = "ACK"
lb_full == lb_level = LbDepth
tx_rst  == tx_rst_q # 0

Cu == INSTANCE IeCu
Tx == INSTANCE MiiTx WITH
        state <- tx_state, idx <- tx_idx, done <- tx_done, ok <- tx_ok,
        report <- tx_report, rst <- tx_rst, go <- tx_go, len <- tx_len,
        min_len <- Cu!MinLen, no_crc <- Cu!NoCrc

cuVars == <<state, cb, cmd, link, idx, ok, suspended, suspend_pending,
            abort_pending, cu_ev, ia, cfg, cfg_words, mc_all, mc_left, mc_off,
            mc_out, tbd, tx_word, tx_bytes, tx_len, tx_go, tx_status, done_s1,
            done_s2, ram_wr, lb_wr>>
ctlVars  == <<core_rst, cu_ctl, cbl>>
portVars == <<port, access, rdata, status>>
lbVars   == <<lb_level, looped>>
macVars  == <<tx_state, go_s1, go_s2, tx_idx, attempt, deferred, defer_ctr,
              tx_done, tx_ok, tx_report, txd>>
listHist == <<due, aborted>>
vars == <<cuVars, ctlVars, portVars, mc, lbVars, ram, ram_q, macVars, tx_rst_q,
          lead, wire, sent, listHist>>

NoData == "NONE"

Init ==
  /\ Cu!CuInit /\ Tx!TxInit
  /\ core_rst = FALSE /\ cu_ctl = "NOP" /\ cbl = Null
  /\ port = "IDLE" /\ access = Cu!NoRequest /\ rdata = NoData
  /\ status = [b \in Blocks |-> "NEW"]
  /\ mc = <<>>
  /\ lb_level = 0 /\ looped = <<>>
  /\ ram = [a \in 0..RamBytes-1 |-> Cu!NoByte] /\ ram_q = Cu!NoByte
  /\ tx_rst_q = 0
  /\ lead = 0
  /\ wire = <<>> /\ sent = <<>> /\ due = Null /\ aborted = FALSE

-----------------------------------------------------------------------------
\* Shared memory, as the unit reads it.

Byte(of, n) == [of |-> of, n |-> n]

BufBytes(size, a) ==
  IF size = "BYTE" THEN Byte("BUF", a)
  ELSE [k \in 1..4 |-> Byte("BUF", a - (a % 4) + k - 1)]

\* Half of the parameters of a block, from byte 6 on, by what the block is.
Param(b, n) ==
  CASE Cb[b].cmd.op = "CONFIGURE" -> Cb[b].cfg[(n - 6) \div 2]
    [] Cb[b].cmd.op = "MC_SETUP" /\ n = 6 -> Cb[b].mc
    [] Cb[b].cmd.op = "TRANSMIT" /\ n = 6 -> Cb[b].tbd
    [] OTHER -> Byte(b, n)

BlockField(b, n) ==
  IF n = 2 THEN Cb[b].cmd ELSE IF n = 4 THEN Cb[b].link ELSE Param(b, n)

TbdField(t, n) ==
  CASE n = 0 -> [count |-> Td[t].count, eof |-> Td[t].eof]
    [] n = 2 -> Td[t].link
    [] n = 4 -> Td[t].buf % 65536
    [] n = 6 -> Td[t].buf \div 65536

Memory(a) ==
  IF a.of = "BUF" THEN BufBytes(a.size, a.n)
  ELSE IF a.of \in Tbds THEN TbdField(a.of, a.n) ELSE BlockField(a.of, a.n)

\* The memory port as this unit sees it: one access at a time, a cycle of
\* acknowledge, and at times another unit being served instead.
PortIdle ==
  /\ port = "IDLE" /\ Cu!Request = Cu!NoRequest
  /\ UNCHANGED portVars

PortStart ==
  /\ port = "IDLE" /\ Cu!Request # Cu!NoRequest
  /\ port' = "ACTIVE" /\ access' = Cu!Request
  /\ UNCHANGED <<rdata, status>>

PortWait == port \in {"ACTIVE", "OTHER"} /\ UNCHANGED portVars

PortDone ==
  /\ port = "ACTIVE"
  /\ port' = "ACK"
  /\ IF access.data = "READ"
     THEN rdata' = Memory(access) /\ UNCHANGED status
     ELSE /\ rdata' = NoData
          /\ status' = IF access.n = 0
                       THEN [status EXCEPT ![access.of] = access.data]
                       ELSE status
  /\ UNCHANGED access

PortAck ==
  /\ port = "ACK"
  /\ port' = "IDLE" /\ access' = Cu!NoRequest /\ rdata' = NoData
  /\ UNCHANGED status

OtherStart == port = "IDLE" /\ port' = "OTHER" /\ UNCHANGED <<access, rdata, status>>
OtherDone  == port = "OTHER" /\ port' = "IDLE" /\ UNCHANGED <<access, rdata, status>>

PortMoves == PortIdle \/ PortStart \/ PortDone \/ PortAck \/ OtherDone
PortEdge == PortMoves \/ PortWait \/ OtherStart

-----------------------------------------------------------------------------
\* What else moves on clk.

\* The receive unit keeps as many addresses as fit.
McEdge ==
  mc' = IF core_rst \/ mc_out.op = "CLEAR" THEN <<>>
        ELSE IF mc_out.op = "ADD" /\ Len(mc) < McSlots
        THEN Append(mc, mc_out.addr) ELSE mc

\* The loopback FIFO drops what is written to it when full.  The receive unit,
\* on the other side, takes words when it is ready for them.  History: the word
\* is the tx_bytes-th byte handed over, if it is a byte.
LbPush ==
  IF lb_wr.wr /\ ~lb_full
  THEN <<[at |-> tx_bytes, end |-> lb_wr.end, data |-> lb_wr.data]>> ELSE <<>>

LbEdge ==
  /\ IF core_rst THEN lb_level' = 0
     ELSE \E taken \in 0..(IF lb_level > 0 THEN 1 ELSE 0) :
            lb_level' = lb_level - taken + Len(LbPush)
  /\ looped' = IF core_rst \/ state = "CU_WR_BUSY" THEN <<>> ELSE looped \o LbPush

RamEdge ==
  ram' = IF ram_wr.we THEN [ram EXCEPT ![ram_wr.addr] = ram_wr.data] ELSE ram

\* The SCB handler's pulses and the CSR's reset.  A pulse follows an access of
\* the SCB handler's own, so it never meets one of this unit's.
\* (Mutant: it comes whenever it likes.)
PulsesAnyTime == Pulses \cup {"NOP"}
PulsesNow == IF OtherDone THEN Pulses \cup {"NOP"} ELSE {"NOP"}

ControlEdge ==
  /\ core_rst' \in {FALSE, core_rst \/ state \in ResetStates}
  /\ cu_ctl' \in PulsesNow
  /\ IF cu_ctl' = "START" THEN cbl' \in Heads ELSE cbl' = Null

\* A reset reaches the transmitter at once and leaves three symbols later.
ResetEdge == tx_rst_q' = IF core_rst' THEN 3 ELSE tx_rst_q

\* Nothing the transmitter does with its clock would change anything.
TxAtRest ==
  /\ tx_state = "T_IDLE" /\ ~go_s1 /\ ~go_s2 /\ ~tx_go /\ ~tx_done
  /\ tx_rst_q = 0 /\ ~txd.en

\* What the list is due to go on with, and whether it was aborted.
ListHistory ==
  /\ due' = IF state = "CU_IDLE" /\ cu_ctl = "START" THEN cbl
            ELSE IF state = "CU_FINISH" /\ bus_ack THEN Cb[cb].link ELSE due
  /\ aborted' = /\ ~core_rst
                /\ ~(cu_ctl = "START" /\ state = "CU_IDLE")
                /\ aborted \/ cu_ctl = "ABORT"

Clock ==
  /\ TxAtRest \/ lead < Ratio
  /\ Cu!CuEdge
  /\ PortEdge
  /\ McEdge /\ LbEdge /\ RamEdge
  /\ ControlEdge /\ ResetEdge
  /\ ListHistory
  /\ sent' = IF core_rst \/ state = "CU_WR_BUSY" THEN <<>> ELSE sent
  /\ lead' = IF TxAtRest THEN 0 ELSE lead + 1
  /\ UNCHANGED <<macVars, ram_q, wire>>

-----------------------------------------------------------------------------
\* One rising edge of tx_clk.

WireHistory ==
  /\ wire' = IF ~txd'.en THEN <<>>
             ELSE IF tx_state = "T_DATA" THEN Append(wire, txd'.sym) ELSE wire
  /\ sent' = IF tx_state = "T_END" /\ ~tx_rst THEN Append(sent, wire) ELSE sent

Tick ==
  /\ ~TxAtRest
  /\ \E m \in Medium : Tx!TxEdge(m.crs, m.col)
  /\ ram_q' = ram[Tx!RamAddr % RamBytes]
  /\ tx_rst_q' = IF core_rst THEN 3
                 ELSE IF tx_rst_q > 0 THEN tx_rst_q - 1 ELSE 0
  /\ WireHistory
  /\ lead' = 0
  /\ UNCHANGED <<cuVars, ctlVars, portVars, mc, lbVars, ram, listHist>>

Next == Clock \/ Tick

Spec == Init /\ [][Next]_vars

\* Both clocks run, the memory answers, and the port comes round to this unit.
Fairness ==
  /\ WF_vars(Clock /\ PortMoves)
  /\ SF_vars(Clock /\ PortStart)
  /\ WF_vars(Tick)
FairSpec == Spec /\ Fairness
-----------------------------------------------------------------------------
\* Properties.

\* What the SCB handler is promised: ie_cu implements CommandUnit.
cus == Cu!Cus
Unit == INSTANCE CommandUnit
UnitPromise == Unit!CuInit /\ [][Unit!CuEdge]_<<core_rst, cu_ctl, cus, cu_ev>>

\* The unit only ever works on the block a list was started at, or on the one
\* the block it last completed links to, suspended in between or not.
ListOrder == state \in {"CU_FETCH_CMD", "CU_FETCH_LINK", "CU_WR_BUSY"} => cb = due

\* After an abort no further block is begun before the next start: the list
\* does not go on, and a resume does not revive it.
Begins == state \in {"CU_IDLE", "CU_NEXT"} /\ state' = "CU_FETCH_CMD"
AbortHonoured == [][aborted /\ Begins => cu_ctl = "START"]_vars

\* A block reported with CX shows its completion in memory already.
EventAfterCompletion == "CX" \in cu_ev => status[cb] \in {"OK", "FAILED"}

\* The frame a block asks for: the header, unless it is in the buffers, and the
\* buffers of the chain up to the one marked last.
ChainBytes[t \in Tbds \cup {Null}] ==
  IF t = Null THEN <<>>
  ELSE [k \in 1..Td[t].count |-> Byte("BUF", Td[t].buf + k - 1)]
         \o (IF Td[t].eof THEN <<>> ELSE ChainBytes[Td[t].link])

Header(b) ==
  [k \in 1..14 |-> IF k \in 7..12 THEN Cu!SrcByte(k - 7) ELSE Byte(b, 7 + (IF k > 12 THEN k - 6 ELSE k))]

Frame(b) == (IF Cu!AlLoc THEN <<>> ELSE Header(b)) \o ChainBytes[Cb[b].tbd]

Padded(f, n) == [k \in 1..(IF Len(f) > n THEN Len(f) ELSE n) |->
                   IF k <= Len(f) THEN f[k] ELSE Tx!Pad]

\* When the transmitter is told to go, the whole frame is in the staging RAM
\* and its length is right, however the buffers were cut and aligned.
StagedWhole ==
  tx_go => /\ tx_len = Len(Frame(cb))
           /\ \A k \in 1..Len(Frame(cb)) : ram[k - 1] = Frame(cb)[k]

\* The staging RAM is not written while the transmitter may read it.
RamQuiet == ram_wr.we => tx_state \in {"T_IDLE", "T_DONE"}

\* A transmission reported good put that frame on the wire, once, padded; one
\* reported bad put no whole frame there.
ReportedSent ==
  state = "CU_FINISH" /\ cmd.op = "TRANSMIT" /\ ~Cu!Loopback =>
    IF ok THEN sent = <<Padded(Frame(cb), Tx!PadLen)>> ELSE sent = <<>>

\* "The handshake with the system side is four phase: go rises, done rises when
\* the attempt is over, go falls, done falls" (mii_tx.sv).
FourPhase == [][~tx_go /\ tx_go' => ~tx_done /\ ~done_s2]_vars

\* "With loopback configured the frame [...] is handed straight to the receive
\* unit" (ie_cu.sv): all of it, padded, then its end.
LoopedBack == state = "CU_FINISH" /\ Cu!Loopback /\ cmd.op = "TRANSMIT" /\ ok
LoopWords  == looped \o LbPush
LoopData   == [k \in 1..Len(LoopWords)-1 |-> LoopWords[k].data]
LoopFrame  == Padded(Frame(cb), Tx!PadLen)
LoopbackFaithful == LoopedBack => LoopData = LoopFrame

\* Whatever else loopback loses, it never loses or repeats the end of a frame,
\* nor puts bytes out of order or adds any: frames do not run together.
LoopbackFraming ==
  LoopedBack =>
    LET n == Len(LoopWords)
    IN  /\ n > 0 /\ \A k \in 1..n : LoopWords[k].end <=> k = n
        /\ \A k \in 1..n-1 : /\ LoopWords[k].at \in DOMAIN LoopFrame
                            /\ LoopWords[k].data = LoopFrame[LoopWords[k].at]
        /\ \A j, k \in 1..n-1 : j < k => LoopWords[j].at < LoopWords[k].at

\* What a setup block asked for is in force when it completes: a CONFIGURE of so
\* many bytes, the address whole, the multicast list as far as it fits.
SetupApplied ==
  state = "CU_NEXT" =>
    CASE cmd.op = "IA_SETUP" -> \A w \in 0..2 : ia[w] = Byte(cb, 6 + 2 * w)
      [] cmd.op = "CONFIGURE" ->
           \A w \in 0..5 : w = 0 \/ 2 * w < Cb[cb].cfg[0].count => cfg[w] = Cb[cb].cfg[w]
      [] cmd.op = "MC_SETUP" ->
           LET n == Cb[cb].mc \div 6
           IN  /\ mc_all = (Cb[cb].mc > 6 * McSlots)
               /\ Len(mc) = (IF n > McSlots THEN McSlots ELSE n)
               /\ \A k \in 1..Len(mc) : mc[k] = Byte(cb, 6 + 6 * k)
      [] OTHER -> TRUE

\* A unit that is set going on a list that ends stops being active.
ListEnds == cus = "ACTIVE" ~> cus # "ACTIVE"
=============================================================================
