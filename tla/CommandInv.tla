----------------------------- MODULE CommandInv -----------------------------
(***************************************************************************)
(* The inductive invariant behind the command unit's theorems: what the    *)
(* unit has in hand, and how far its access has got, in each state.        *)
(***************************************************************************)
EXTENDS CommandSystem

\* A block that does not end its list links to another block, and a block is
\* neither a buffer descriptor nor the buffers.
ASSUME BlocksAssumption ==
  /\ \A b \in Blocks : Cb[b].cmd.el \/ Cb[b].link \in Blocks
  /\ Blocks \cap (Tbds \cup {"BUF"}) = {}

\* The registers the list is walked with keep their types.
CommandTypeOK ==
  /\ state \in Cu!States
  /\ port \in {"IDLE", "ACTIVE", "ACK", "OTHER"}
  /\ {suspended, suspend_pending, abort_pending, aborted} \subseteq BOOLEAN
  /\ cu_ctl \in Controls
  /\ DOMAIN status = Blocks

\* A control pulse follows the end of another unit's access, so the port is
\* free, and the unit is not between two blocks.
PulseInv ==
  cu_ctl # "NOP" => /\ port = "IDLE" /\ state # "CU_NEXT"
                    /\ cu_ctl = "START" => cbl \in Heads

\* States that ask for no access: nothing of this unit's is on the port.
\* In CU_IDLE what a reset cut short may still be there.
Unasking == {"CU_TX_HDR_SRC", "CU_TX_SEL", "CU_TX_ST_WORD", "CU_TX_GO",
             "CU_TX_LB_PAD", "CU_TX_LB_END", "CU_NEXT"}
PortInv == state \in Unasking => port \in {"IDLE", "OTHER"}

\* An abort is remembered until the unit stops, and leaves nothing to resume.
AbortInv == aborted => IF state = "CU_IDLE" THEN ~suspended ELSE abort_pending

\* The block in hand is the one that is due; its command word and link are the
\* ones in memory from the moment they have been read.
Asking(s) == state = s /\ port = "ACTIVE"
Answered(s) == state = s /\ port = "ACK"
ListInv ==
  /\ state # "CU_IDLE" \/ suspended => cb \in Blocks
  /\ state \notin {"CU_IDLE", "CU_NEXT"} \/ (state = "CU_IDLE" /\ suspended)
       => cb = due
  /\ Asking("CU_FETCH_CMD")  => access = Cu!Half(cb, 2)
  /\ Answered("CU_FETCH_CMD")  => rdata = Cb[cb].cmd
  /\ Asking("CU_FETCH_LINK") => access = Cu!Half(cb, 4)
  /\ Answered("CU_FETCH_LINK") => rdata = Cb[cb].link
  /\ state \notin {"CU_IDLE", "CU_FETCH_CMD"} => cmd = Cb[cb].cmd
  /\ state \notin {"CU_IDLE", "CU_FETCH_CMD", "CU_FETCH_LINK"} => link = Cb[cb].link
  /\ state = "CU_NEXT" => due = link

\* A block's completion is in memory once its write has been acknowledged.
Completion == {"OK", "FAILED"}
FinishInv ==
  /\ Asking("CU_FINISH") => \E s \in Completion : access = Cu!Write(cb, 0, s)
  /\ Answered("CU_FINISH") => status[cb] \in Completion
  /\ "CX" \in cu_ev => state = "CU_NEXT" /\ status[cb] \in Completion

CommandIInv ==
  CommandTypeOK /\ PulseInv /\ PortInv /\ AbortInv /\ ListInv /\ FinishInv
-----------------------------------------------------------------------------
\* What the blocks' parameters do, on top of CommandIInv.

\* Every command word has an opcode, and counts are numbers.
ASSUME ParametersAssumption ==
  \A b \in Blocks :
    /\ Cb[b].cmd.op \in Cu!Opcodes
    /\ Cb[b].cmd.op = "CONFIGURE" => Cb[b].cfg[0].count \in Nat
    /\ Cb[b].cmd.op = "MC_SETUP"  => Cb[b].mc \in Nat

\* A state belongs to one kind of block.
KindInv ==
  /\ state = "CU_IA" => cmd.op = "IA_SETUP"
  /\ state = "CU_CFG" => cmd.op = "CONFIGURE"
  /\ state \in {"CU_MC_RD_CNT", "CU_MC_RD_ADDR"} => cmd.op = "MC_SETUP"
  /\ state = "CU_TDR_WR" => cmd.op = "TDR"
  /\ state \in Cu!HdrStates \cup Cu!BufStates \cup Cu!SendStates => cmd.op = "TRANSMIT"

\* What a state that reads asks for, when there is room in the loopback FIFO.
Wanted ==
  CASE state \in {"CU_IA", "CU_CFG"} -> Cu!Half(cb, 6 + 2 * idx)
    [] state \in {"CU_TX_RD_TBD", "CU_MC_RD_CNT"} -> Cu!Half(cb, 6)
    [] state = "CU_MC_RD_ADDR"   -> Cu!Half(cb, mc_off + 2 * idx)
    [] state = "CU_TX_HDR_DST"   -> Cu!Read("BYTE", cb, 8 + idx)
    [] state = "CU_TX_HDR_LEN"   -> Cu!Read("BYTE", cb, 14 + idx)
    [] state = "CU_TX_RD_CNT"    -> Cu!Half(tbd.at, 0)
    [] state = "CU_TX_NEXT_TBD"  -> Cu!Half(tbd.at, 2)
    [] state = "CU_TX_RD_BUF_LO" -> Cu!Half(tbd.at, 4)
    [] state = "CU_TX_RD_BUF_HI" -> Cu!Half(tbd.at, 6)
    [] state = "CU_TX_RD_BYTE"   -> Cu!Read("BYTE", "BUF", Cu!TxAddr)
    [] state = "CU_TX_RD_WORD"   -> Cu!Read("WORD", "BUF", Cu!TxAddr)
Reading == {"CU_IA", "CU_CFG", "CU_MC_RD_CNT", "CU_MC_RD_ADDR", "CU_TX_HDR_DST",
            "CU_TX_HDR_LEN"} \cup (Cu!BufStates \ {"CU_TX_SEL", "CU_TX_ST_WORD"})
AccessInv ==
  state \in Reading => /\ (port = "ACTIVE" => access = Wanted)
                      /\ (port = "ACK" => rdata = Memory(Wanted))

\* The list as it will be an edge from now.
McSoon ==
  IF mc_out.op = "CLEAR" THEN <<>>
  ELSE IF mc_out.op = "ADD" /\ Len(mc) < McSlots THEN Append(mc, mc_out.addr) ELSE mc
Addresses == [of : Blocks, n : Nat]
McTypeOK ==
  /\ mc \in Seq(Addresses) /\ Len(mc) <= McSlots
  /\ mc_out.op = "ADD" => mc_out.addr \in Addresses
  /\ DOMAIN ia = 0..2 /\ DOMAIN cfg = 0..5

\* How far a setup block has got.
IaDone(n)  == \A w \in 0..2 : w < n => ia[w] = Byte(cb, 6 + 2 * w)
CfgDone(n) == \A w \in 0..5 : w < n => cfg[w] = Cb[cb].cfg[w]
McDone(n)  ==
  /\ mc_all = (Cb[cb].mc > 6 * McSlots)
  /\ Len(McSoon) = n /\ \A k \in 1..n : McSoon[k] = Byte(cb, 6 + 6 * k)
CfgLen == Cu!CfgWords(Cb[cb].cfg[0].count)
McLen  == Cu!McFit(Cb[cb].mc)
SetupInv ==
  /\ state = "CU_IA" => idx \in 0..2 /\ IaDone(idx)
  /\ state = "CU_CFG" => /\ idx \in 0..(CfgLen - 1) /\ CfgDone(idx)
                         /\ (idx > 0 => cfg_words = CfgLen)
  /\ state = "CU_MC_RD_ADDR" =>
       /\ idx \in 0..2
       /\ \E j \in 0..(McLen - 1) :
            McDone(j) /\ mc_left = McLen - j /\ mc_off = 8 + 6 * j
  /\ state \in {"CU_FINISH", "CU_NEXT"} =>
       /\ cmd.op = "IA_SETUP" => IaDone(3)
       /\ cmd.op = "CONFIGURE" => CfgDone(CfgLen)
       /\ cmd.op = "MC_SETUP" => McDone(McLen)
  /\ state = "CU_NEXT" => mc_out = Cu!NoMc

SetupIInv == KindInv /\ AccessInv /\ McTypeOK /\ SetupInv
-----------------------------------------------------------------------------
\* What is staged of a frame, on top of CommandIInv and SetupIInv.

\* What the driver builds: buffer descriptors are places of their own, every
\* chain of them ends, and a frame, its header included, fits the staging RAM.
ASSUME ChainsAssumption ==
  /\ IsFiniteSet(Tbds) /\ Tbds \cap {Null, "BUF"} = {}
  /\ \A t \in Tbds : /\ Td[t].count \in Nat /\ Td[t].buf \in Nat /\ Td[t].eof \in BOOLEAN
                     /\ Td[t].eof \/ Td[t].link \in Tbds \cup {Null}
  /\ \A S \in SUBSET Tbds : (\A t \in S : ~Td[t].eof /\ Td[t].link \in S) => S = {}
  /\ \A b \in Blocks : Cb[b].cmd.op = "TRANSMIT" =>
       /\ Cb[b].tbd \in Tbds \cup {Null}
       /\ 14 + Len(ChainBytes[Cb[b].tbd]) <= RamBytes

StagingTypeOK ==
  /\ tbd \in [at : Tbds \cup {Null}, count : Nat, eof : BOOLEAN, buf : Nat, off : Nat]
  /\ idx \in Nat /\ tx_bytes \in Nat
  /\ DOMAIN ram = 0..RamBytes-1

\* The staging RAM as it will be an edge from now.
RamSoon(n) == IF ram_wr.we /\ ram_wr.addr = n THEN ram_wr.data ELSE ram[n]

\* So many bytes of the frame in hand are followed by those of s, and no more.
FollowedBy(p, s) ==
  /\ Len(Frame(cb)) = p + Len(s)
  /\ \A k \in 1..Len(s) : Frame(cb)[p + k] = s[k]

\* The buffer descriptor in use, from the moment each field has been read.
Counted == {"CU_TX_RD_BUF_LO", "CU_TX_RD_BUF_HI"}
Opened  == {"CU_TX_SEL", "CU_TX_RD_BYTE", "CU_TX_RD_WORD", "CU_TX_ST_WORD"}
TbdInv ==
  /\ state \in Counted \cup Opened \cup {"CU_TX_RD_CNT", "CU_TX_NEXT_TBD"} => tbd.at \in Tbds
  /\ state \in Counted \cup Opened =>
       tbd.count = Td[tbd.at].count /\ tbd.eof = Td[tbd.at].eof /\ tbd.off <= tbd.count
  /\ state \in Counted => tbd.off = 0
  /\ state = "CU_TX_RD_BUF_HI" => tbd.buf = Td[tbd.at].buf % 65536
  /\ state \in Opened => tbd.buf = Td[tbd.at].buf
  /\ state = "CU_TX_NEXT_TBD" => ~Td[tbd.at].eof

\* The next bytes of the buffer are within it, and in a word as they come.
WordInv ==
  /\ state = "CU_TX_RD_BYTE" => tbd.off < tbd.count
  /\ state = "CU_TX_RD_WORD" => tbd.off + 4 <= tbd.count /\ Cu!TxAddr % 4 = 0
  /\ state = "CU_TX_ST_WORD" =>
       /\ tx_word \in Seq([of : {"BUF"}, n : Nat]) /\ tx_word # <<>>
       /\ tbd.off + Len(tx_word) <= tbd.count
       /\ \A k \in 1..Len(tx_word) : tx_word[k] = Byte("BUF", Cu!TxAddr + k - 1)

\* As many bytes as were staged are those the frame begins with.
SoFar ==
  /\ tx_bytes <= Len(Frame(cb))
  /\ \A n \in 0..tx_bytes-1 : RamSoon(n) = Frame(cb)[n + 1]

\* What has been staged is the frame so far, and what is still to be staged
\* follows from the state.
StagedInv ==
  /\ state \in Cu!HdrStates \cup Cu!BufStates \cup {"CU_TX_GO"} => SoFar
  /\ state \in Cu!HdrStates => ~Cu!AlLoc
  /\ state = "CU_TX_HDR_DST" => idx \in 0..5 /\ tx_bytes = idx
  /\ state = "CU_TX_HDR_SRC" => idx \in 0..5 /\ tx_bytes = 6 + idx
  /\ state = "CU_TX_HDR_LEN" => idx \in 0..1 /\ tx_bytes = 12 + idx
  /\ state = "CU_TX_RD_TBD" => FollowedBy(tx_bytes, ChainBytes[Cb[cb].tbd])
  /\ state \in Counted \cup {"CU_TX_RD_CNT"} => FollowedBy(tx_bytes, ChainBytes[tbd.at])
  /\ state \in Opened => /\ tx_bytes >= tbd.off
                         /\ FollowedBy(tx_bytes - tbd.off, ChainBytes[tbd.at])
  /\ state = "CU_TX_NEXT_TBD" => FollowedBy(tx_bytes, ChainBytes[Td[tbd.at].link])

\* The transmitter is told to go when nothing is left to stage.
GoInv ==
  /\ tx_go => state = "CU_TX_GO" /\ tx_len = tx_bytes /\ ~Cu!Loopback
  /\ state = "CU_TX_GO" => tx_bytes = Len(Frame(cb)) /\ ~ram_wr.we

StagedIInv == StagingTypeOK /\ TbdInv /\ WordInv /\ StagedInv /\ GoInv
-----------------------------------------------------------------------------
\* Sending what was staged, on top of all that.

\* No frame is empty (for one that is, mii_tx sends a single byte of padding).
ASSUME SendAssumption ==
  \A b \in Blocks :
    /\ Cb[b].cmd.op = "TRANSMIT" /\ Cb[b].tbd # Null => ChainBytes[Cb[b].tbd] # <<>>
    /\ Cb[b].cmd.op = "CONFIGURE" => Cb[b].cfg[5].min_len \in Nat

\* The clocks are near enough for mii_tx to have let go of the frame before
\* this one when the next has been staged, however short it is.
NearClocks == Ratio <= 8

Reports == [xcoll : BOOLEAN, defer : BOOLEAN, ncoll : Nat]
SendTypeOK ==
  /\ tx_state \in Tx!States /\ tx_idx \in Nat
  /\ {go_s1, go_s2, tx_done, tx_ok, tx_go, done_s1, done_s2, core_rst, deferred} \subseteq BOOLEAN
  /\ tx_report \in Reports
  /\ tx_rst_q \in 0..3 /\ lead \in 0..Ratio
  /\ cfg[5].min_len \in Nat

\* A reset reaches mii_tx with the next edge of its clock (Unreached until then)
\* and holds it for two more.
Unreached == tx_rst_q = 3
ResetInv ==
  /\ core_rst => Unreached
  /\ tx_rst_q \in {1, 2} => tx_state = "T_IDLE" /\ ~go_s1 /\ ~go_s2 /\ ~tx_done

\* Go is seen by mii_tx before it leaves T_IDLE and until it raises done; done
\* is seen by ie_cu before it drops go, and falls after mii_tx has seen that.
Working == {"T_DEFER", "T_PREAMBLE", "T_DATA", "T_FCS", "T_END", "T_JAM", "T_BACKOFF"}
HandInv ==
  /\ tx_go /\ Unreached => core_rst
  /\ ~Unreached =>
       /\ tx_done => tx_state = "T_DONE" /\ (go_s1 => go_s2)
       /\ tx_state = "T_IDLE" => (go_s2 => go_s1) /\ (go_s1 => tx_go)
       /\ tx_state # "T_IDLE" /\ ~tx_done => tx_go
       /\ tx_state # "T_IDLE" /\ tx_go => go_s1 /\ go_s2
       /\ tx_go => (done_s2 => done_s1) /\ (done_s1 => tx_done)

\* Edges of clk until ie_cu has seen done fall, at most.
Unsettled ==
  IF Unreached \/ (tx_done /\ ~go_s1 /\ ~go_s2) THEN Ratio - lead + 2
  ELSE IF tx_done /\ ~go_s1 THEN 2 * Ratio - lead + 2
  ELSE IF tx_done THEN 3 * Ratio - lead + 2
  ELSE IF done_s1 THEN 2 ELSE IF done_s2 THEN 1 ELSE 0

\* Edges of clk until ie_cu raises go again, at least: an access takes three.
AccessLeft == CASE port = "ACK" -> 1 [] port = "ACTIVE" -> 2 [] OTHER -> 3
EdgesFrom(s, left) ==
  CASE s = "CU_FINISH"       -> 24 + left
    [] s \in {"CU_NEXT", "CU_IDLE"} -> 24
    [] s = "CU_FETCH_CMD"    -> 20 + left
    [] s = "CU_FETCH_LINK"   -> 17 + left
    [] s = "CU_WR_BUSY"      -> 14 + left
    [] s \in Cu!HdrStates    -> 14
    [] s = "CU_TX_RD_TBD"    -> 11 + left
    [] s = "CU_TX_RD_CNT"    -> 8 + left
    [] s = "CU_TX_RD_BUF_LO" -> 5 + left
    [] s = "CU_TX_RD_BUF_HI" -> 2 + left
    [] s \in Opened \cup {"CU_TX_NEXT_TBD"} -> 2
    [] s = "CU_TX_GO"        -> 1
    [] OTHER                 -> 27
EdgesToGo == EdgesFrom(state, AccessLeft)
SettleInv == ~tx_go /\ ~core_rst => Unsettled < EdgesToGo

\* The frame as it goes on the wire, and so much of it.
OnTheWire == Padded(Frame(cb), Tx!PadLen)
FirstOf(n, f) == [k \in 1..n |-> f[k]]

\* A frame that comes to be sent has buffers, and one that is looped back does so
\* because the unit is configured to.
PathInv ==
  /\ state \in (Cu!BufStates \ {"CU_TX_RD_TBD"}) \cup {"CU_TX_GO"} => Cb[cb].tbd # Null
  /\ state \in {"CU_TX_LB_PAD", "CU_TX_LB_END"} => Cu!Loopback

\* What is on the wire is how the frame begins, and the byte read ahead for the
\* transmitter is the next one.
WireInv ==
  tx_go /\ ~Unreached =>
    /\ tx_state = "T_DEFER" => ~txd.en
    /\ tx_state = "T_PREAMBLE" => tx_idx = 0 /\ wire = <<>>
    /\ tx_state = "T_DATA" => /\ tx_idx < Tx!SendLen /\ wire = FirstOf(tx_idx, OnTheWire)
                              /\ tx_idx < tx_len => ram_q = ram[tx_idx]
    /\ tx_state \in {"T_FCS", "T_END"} => wire = OnTheWire

\* Nothing has been sent before mii_tx is at the end of it; then it has been, once,
\* unless mii_tx gave up, and that is what it reports.
Staged == Cu!HdrStates \cup Cu!BufStates \cup {"CU_TX_GO"}
SentInv ==
  /\ state \in Staged /\ ~tx_go => sent = <<>>
  /\ tx_go /\ ~Unreached =>
       /\ tx_state # "T_DONE" => sent = <<>>
       /\ tx_state \in Working => ~tx_report.xcoll
       /\ tx_state = "T_DONE" => sent = IF tx_report.xcoll THEN <<>> ELSE <<OnTheWire>>
       /\ tx_done => tx_ok = ~tx_report.xcoll
  /\ ReportedSent

SendIInv == SendTypeOK /\ ResetInv /\ HandInv /\ SettleInv /\ PathInv /\ WireInv /\ SentInv
-----------------------------------------------------------------------------
\* Handing a frame to the receive unit, on top of what is staged of it.

LoopTypeOK == lb_level \in 0..LbDepth /\ cfg[5].min_len \in Nat

\* The words of the bytes handed over so far, of which the FIFO has taken some,
\* and the one that ends them.
Words == {[at |-> n, end |-> FALSE, data |-> OnTheWire[n]] : n \in 1..tx_bytes}
EndWord == [at |-> tx_bytes, end |-> TRUE, data |-> Cu!NoByte]
TakenInOrder(s) == /\ s \in Seq(Words)
                   /\ \A j, k \in 1..Len(s) : j < k => s[j].at < s[k].at

\* The end is written when nothing else is on its way and there is room, so it is
\* the one word that cannot be lost.
Handing == Staged \cup {"CU_TX_LB_PAD", "CU_TX_LB_END"}
LoopInv ==
  /\ state \in Handing => tx_bytes <= Len(OnTheWire) /\ TakenInOrder(LoopWords)
  /\ state = "CU_TX_LB_PAD" => tx_bytes >= Len(Frame(cb))
  /\ state = "CU_TX_LB_END" => ~lb_wr.wr
  /\ LoopedBack => LoopWords \in Seq(Words \cup {EndWord})
  /\ LoopbackFraming

LoopIInv == LoopTypeOK /\ LoopInv
=============================================================================
