-------------------------------- MODULE IeCu --------------------------------
(***************************************************************************)
(* ie_cu: the command unit.                                                *)
(*                                                                         *)
(* The module gives the block's registers and what one rising edge of clk  *)
(* does to them; its inputs are variables it never primes.  An address is  *)
(* an object in shared memory and a byte offset into it, and a byte is     *)
(* known by where it came from.                                            *)
(***************************************************************************)
EXTENDS ScbTypes, Naturals, Sequences

CONSTANTS
  McSlots,    \* multicast addresses the receive unit can hold
  RamBytes,   \* bytes of transmit staging RAM
  Null        \* the link that ends a list of buffer descriptors

VARIABLES
  \* the list being walked
  state, cb, cmd, link, idx, ok, suspended, suspend_pending, abort_pending,
  cu_ev,       \* events pulsed this cycle
  \* what setup commands leave behind
  ia,          \* individual address, three words
  cfg,         \* CONFIGURE parameters, six words
  cfg_words,   \* how many of them this CONFIGURE has
  mc_all, mc_left, mc_off,
  mc_out,      \* pulse to the receive unit: clear the list, or add an address
  \* transmit staging
  tbd,         \* the buffer descriptor in use, by its fields
  tx_word,     \* bytes of the last word read that are still to be stored
  tx_bytes, tx_len, tx_go, tx_status, done_s1, done_s2,
  ram_wr,      \* write port of the staging RAM, one cycle
  lb_wr,       \* write port of the loopback FIFO, one cycle
  \* input wires
  core_rst,
  cu_ctl, cbl,                      \* control pulse, and the list it starts
  tx_done, tx_ok, tx_report,        \* from the transmitter
  lb_full,                          \* from the loopback FIFO
  bus_ack, rdata                    \* from the memory port

listVars  == <<cb, link, suspended>>
pendVars  == <<suspend_pending, abort_pending>>
setupVars == <<ia, cfg, cfg_words, mc_all, mc_left, mc_off>>
bufVars   == <<tbd, tx_word>>
sendVars  == <<tx_len, tx_go, tx_status>>
pulseVars == <<cu_ev, mc_out, ram_wr, lb_wr>>
cuVars == <<state, cb, cmd, link, idx, ok, suspended, suspend_pending,
            abort_pending, cu_ev, ia, cfg, cfg_words, mc_all, mc_left, mc_off,
            mc_out, tbd, tx_word, tx_bytes, tx_len, tx_go, tx_status, done_s1,
            done_s2, ram_wr, lb_wr>>

Opcodes == {"NOP", "IA_SETUP", "CONFIGURE", "MC_SETUP", "TRANSMIT", "TDR",
            "DUMP", "DIAGNOSE"}

\* A command word: opcode, end of list, suspend and interrupt when done.
CmdWords == [op : Opcodes, el : BOOLEAN, s : BOOLEAN, i : BOOLEAN]

ListStates  == {"CU_FETCH_CMD", "CU_FETCH_LINK", "CU_WR_BUSY", "CU_FINISH",
                "CU_NEXT"}
SetupStates == {"CU_IA", "CU_CFG", "CU_MC_RD_CNT", "CU_MC_RD_ADDR", "CU_TDR_WR"}
HdrStates   == {"CU_TX_HDR_DST", "CU_TX_HDR_SRC", "CU_TX_HDR_LEN"}
BufStates   == {"CU_TX_RD_TBD", "CU_TX_RD_CNT", "CU_TX_RD_BUF_LO",
                "CU_TX_RD_BUF_HI", "CU_TX_SEL", "CU_TX_RD_BYTE",
                "CU_TX_RD_WORD", "CU_TX_ST_WORD", "CU_TX_NEXT_TBD"}
SendStates  == {"CU_TX_GO", "CU_TX_LB_PAD", "CU_TX_LB_END"}
States == {"CU_IDLE"} \cup ListStates \cup SetupStates \cup HdrStates
            \cup BufStates \cup SendStates

NoCmd  == [op |-> "NOP", el |-> FALSE, s |-> FALSE, i |-> FALSE]
NoTbd  == [at |-> Null, count |-> 0, eof |-> FALSE, buf |-> 0, off |-> 0]
NoMc   == [op |-> "NONE", addr |-> Null]
NoByte == [of |-> Null, n |-> 0]
Pad    == [of |-> "PAD", n |-> 0]
NoRam  == [we |-> FALSE, addr |-> 0, data |-> NoByte]
NoLb   == [wr |-> FALSE, end |-> FALSE, data |-> NoByte]
NoReport == [xcoll |-> FALSE, defer |-> FALSE, ncoll |-> 0]

\* The fields of the CONFIGURE words that something looks at.
ZeroCfgWord == [count |-> 0, al_loc |-> FALSE, int_lb |-> FALSE,
                no_crc |-> FALSE, min_len |-> 0]

AlLoc   == cfg[1].al_loc
Loopback == cfg[1].int_lb
NoCrc   == cfg[4].no_crc
MinLen  == cfg[5].min_len

CuInit ==
  /\ state = "CU_IDLE" /\ cb = Null /\ cmd = NoCmd /\ link = Null /\ idx = 0
  /\ ok = FALSE
  /\ suspended = FALSE /\ suspend_pending = FALSE /\ abort_pending = FALSE
  /\ ia = [w \in 0..2 |-> NoByte]
  /\ cfg = [w \in 0..5 |-> ZeroCfgWord]
  /\ cfg_words = 1 /\ mc_all = FALSE /\ mc_left = 0 /\ mc_off = 0
  /\ tbd = NoTbd /\ tx_word = <<>> /\ tx_bytes = 0
  /\ tx_len = 0 /\ tx_go = FALSE /\ tx_status = NoReport
  /\ done_s1 = FALSE /\ done_s2 = FALSE
  /\ cu_ev = {} /\ mc_out = NoMc /\ ram_wr = NoRam /\ lb_wr = NoLb

-----------------------------------------------------------------------------
\* Combinational outputs.

Cus == IF state # "CU_IDLE" THEN "ACTIVE"
       ELSE IF suspended THEN "SUSPENDED" ELSE "IDLE"

\* Where the next transmit byte comes from, and whether a whole word of it can
\* be taken in one go.  (Mutant: alignment is forgotten.)
TxAddr    == tbd.buf + tbd.off
TxBufDone == tbd.off >= tbd.count
CanWordAnywhere == tbd.count - tbd.off >= 4
CanWord == tbd.count - tbd.off >= 4 /\ TxAddr % 4 = 0

\* With loopback configured a byte is only fetched when it can be handed on.
LbRoom == ~(Loopback /\ lb_full)

\* An access: how much, where, and the value for a write.
Read(size, at, n) == [size |-> size, of |-> at, n |-> n, data |-> "READ"]
Half(at, n) == Read("HALF", at, n)
Write(at, n, value) == [size |-> "HALF", of |-> at, n |-> n, data |-> value]
NoRequest == [size |-> "NONE", of |-> Null, n |-> 0, data |-> "READ"]

Request ==
  CASE state = "CU_FETCH_CMD"    -> Half(cb, 2)
    [] state = "CU_FETCH_LINK"   -> Half(cb, 4)
    [] state = "CU_WR_BUSY"      -> Write(cb, 0, "BUSY")
    [] state \in {"CU_IA", "CU_CFG"} -> Half(cb, 6 + 2 * idx)
    [] state \in {"CU_TX_RD_TBD", "CU_MC_RD_CNT"} -> Half(cb, 6)
    [] state = "CU_TX_HDR_DST" /\ LbRoom -> Read("BYTE", cb, 8 + idx)
    [] state = "CU_TX_HDR_LEN" /\ LbRoom -> Read("BYTE", cb, 14 + idx)
    [] state = "CU_TX_RD_CNT"    -> Half(tbd.at, 0)
    [] state = "CU_TX_RD_BUF_LO" -> Half(tbd.at, 4)
    [] state = "CU_TX_RD_BUF_HI" -> Half(tbd.at, 6)
    [] state = "CU_TX_NEXT_TBD"  -> Half(tbd.at, 2)
    [] state = "CU_TX_RD_BYTE" /\ LbRoom -> Read("BYTE", "BUF", TxAddr)
    [] state = "CU_TX_RD_WORD"   -> Read("WORD", "BUF", TxAddr)
    [] state = "CU_TDR_WR"       -> Write(cb, 6, "LINK_OK")
    [] state = "CU_MC_RD_ADDR"   -> Half(cb, mc_off + 2 * idx)
    [] state = "CU_FINISH"       -> Write(cb, 0, IF ok THEN "OK" ELSE "FAILED")
    [] OTHER                     -> NoRequest

-----------------------------------------------------------------------------
\* One rising edge of clk, by state.

LatchSuspend == suspend_pending' = (suspend_pending \/ cu_ctl = "SUSPEND")
\* (Mutant: an abort is only seen at the moment the list goes on.)
LatchAbortSampled == abort_pending' = (cu_ctl = "ABORT")
LatchAbort   == abort_pending' = (abort_pending \/ cu_ctl = "ABORT")
Latch        == LatchSuspend /\ LatchAbort

NoPulses == cu_ev' = {} /\ mc_out' = NoMc /\ ram_wr' = NoRam /\ lb_wr' = NoLb
Goto(s)  == state' = s

\* A start forgets what was pending.
StartClears == suspend_pending' = FALSE /\ abort_pending' = FALSE

\* (Mutant: there need be nothing to resume.)
ResumesAnything == cu_ctl = "RESUME"
Resumes == cu_ctl = "RESUME" /\ suspended

Idle ==
  /\ state = "CU_IDLE"
  /\ \/ /\ cu_ctl = "START"
        /\ cb' = cbl
        /\ suspended' = FALSE /\ StartClears
        /\ Goto("CU_FETCH_CMD")
     \/ /\ Resumes
        /\ suspended' = FALSE /\ suspend_pending' = FALSE
        /\ LatchAbort
        /\ Goto("CU_FETCH_CMD")
        /\ UNCHANGED cb
     \/ /\ cu_ctl # "START" /\ ~Resumes
        /\ suspended' = (suspended /\ cu_ctl # "ABORT")
        /\ Latch
        /\ UNCHANGED <<state, cb>>
  /\ NoPulses
  /\ UNCHANGED <<cmd, link, idx, ok, setupVars, bufVars, tx_bytes, sendVars>>

Fetch ==
  /\ bus_ack
  /\ \/ state = "CU_FETCH_CMD" /\ cmd' = rdata /\ Goto("CU_FETCH_LINK")
        /\ UNCHANGED link
     \/ state = "CU_FETCH_LINK" /\ link' = rdata /\ Goto("CU_WR_BUSY")
        /\ UNCHANGED cmd
  /\ Latch /\ NoPulses
  /\ UNCHANGED <<cb, suspended, idx, ok, setupVars, bufVars, tx_bytes, sendVars>>

\* Marked busy in memory; now do what the block asks.  AL-LOC says whether the
\* whole frame is in the buffer or its header is in the command block.
FirstState ==
  CASE cmd.op = "IA_SETUP"  -> "CU_IA"
    [] cmd.op = "CONFIGURE" -> "CU_CFG"
    [] cmd.op = "MC_SETUP"  -> "CU_MC_RD_CNT"
    [] cmd.op = "TDR"       -> "CU_TDR_WR"
    [] cmd.op = "TRANSMIT"  -> IF AlLoc THEN "CU_TX_RD_TBD" ELSE "CU_TX_HDR_DST"
    [] OTHER                -> "CU_FINISH"

Dispatch ==
  /\ state = "CU_WR_BUSY"
  /\ bus_ack
  /\ idx' = 0
  /\ ok' = (cmd.op # "DUMP")
  /\ tx_status' = NoReport
  /\ tx_bytes' = IF cmd.op = "TRANSMIT" THEN 0 ELSE tx_bytes
  /\ Goto(FirstState)
  /\ Latch /\ NoPulses
  /\ UNCHANGED <<listVars, cmd, setupVars, bufVars, tx_len, tx_go>>

-----------------------------------------------------------------------------
\* Setup commands.

SetupIa ==
  /\ state = "CU_IA"
  /\ bus_ack
  /\ ia' = [ia EXCEPT ![idx] = rdata]
  /\ IF idx = 2 THEN Goto("CU_FINISH") /\ UNCHANGED idx
                ELSE idx' = idx + 1 /\ UNCHANGED state
  /\ UNCHANGED <<cfg, cfg_words, mc_all, mc_left, mc_off, mc_out>>

\* How many words to fetch is only known once the first has arrived.
\* (Mutant: an odd byte count is rounded down.)
CfgWordsDown(count) ==
  IF count < 2 THEN 1 ELSE IF count >= 12 THEN 6 ELSE count \div 2
CfgWords(count) ==
  IF count < 2 THEN 1 ELSE IF count >= 12 THEN 6 ELSE (count + 1) \div 2

SetupCfg ==
  /\ state = "CU_CFG"
  /\ bus_ack
  /\ cfg' = [cfg EXCEPT ![idx] = rdata]
  /\ cfg_words' = IF idx = 0 THEN CfgWords(rdata.count) ELSE cfg_words
  /\ IF idx + 1 >= cfg_words' THEN Goto("CU_FINISH") /\ UNCHANGED idx
                              ELSE idx' = idx + 1 /\ UNCHANGED state
  /\ UNCHANGED <<ia, mc_all, mc_left, mc_off, mc_out>>

\* Six bytes an address; more than fit makes the receive unit take them all.
McAll(bytes) == bytes > 6 * McSlots
McFit(bytes) == IF bytes >= 6 * McSlots THEN McSlots ELSE bytes \div 6

SetupMcCount ==
  /\ state = "CU_MC_RD_CNT"
  /\ bus_ack
  /\ mc_out' = [NoMc EXCEPT !.op = "CLEAR"]
  /\ mc_all' = McAll(rdata)
  /\ mc_left' = McFit(rdata)
  /\ mc_off' = 8
  /\ idx' = 0
  /\ IF rdata < 6 THEN Goto("CU_FINISH") ELSE Goto("CU_MC_RD_ADDR")
  /\ UNCHANGED <<ia, cfg, cfg_words>>

\* Three words make an address; the third hands it over.
SetupMcAddr ==
  /\ state = "CU_MC_RD_ADDR"
  /\ bus_ack
  /\ IF idx < 2
     THEN idx' = idx + 1 /\ mc_out' = NoMc /\ UNCHANGED <<state, mc_off, mc_left>>
     ELSE /\ mc_out' = [op |-> "ADD", addr |-> rdata]
          /\ idx' = 0
          /\ mc_off' = mc_off + 6
          /\ mc_left' = mc_left - 1
          /\ IF mc_left = 1 THEN Goto("CU_FINISH") ELSE UNCHANGED state
  /\ UNCHANGED <<ia, cfg, cfg_words, mc_all>>

WriteTdr ==
  /\ state = "CU_TDR_WR"
  /\ bus_ack
  /\ Goto("CU_FINISH")
  /\ mc_out' = NoMc
  /\ UNCHANGED <<idx, setupVars>>

Setup ==
  /\ SetupIa \/ SetupCfg \/ SetupMcCount \/ SetupMcAddr \/ WriteTdr
  /\ Latch
  /\ cu_ev' = {} /\ ram_wr' = NoRam /\ lb_wr' = NoLb
  /\ UNCHANGED <<listVars, cmd, ok, bufVars, tx_bytes, sendVars>>

-----------------------------------------------------------------------------
\* Staging a frame.

\* Store one byte, and hand it to the receive unit under loopback.
Stage(byte) ==
  /\ ram_wr' = [we |-> TRUE, addr |-> tx_bytes % RamBytes, data |-> byte]
  /\ lb_wr' = IF Loopback THEN [wr |-> TRUE, end |-> FALSE, data |-> byte]
                          ELSE NoLb
  /\ tx_bytes' = tx_bytes + 1

StageNothing == ram_wr' = NoRam /\ lb_wr' = NoLb /\ UNCHANGED tx_bytes

\* The last of so many header bytes leads to the next part.
Header(last, next) ==
  /\ IF idx = last THEN idx' = 0 /\ Goto(next)
                   ELSE idx' = idx + 1 /\ UNCHANGED state
  /\ UNCHANGED bufVars

\* The source address needs no reading: octet n is half of word n \div 2.
SrcByte(n) == [ia[n \div 2] EXCEPT !.n = @ + (n % 2)]

StageHeader ==
  \/ /\ state = "CU_TX_HDR_DST" /\ bus_ack
     /\ Stage(rdata)
     /\ Header(5, "CU_TX_HDR_SRC")
  \/ /\ state = "CU_TX_HDR_SRC" /\ LbRoom
     /\ Stage(SrcByte(idx))
     /\ Header(5, "CU_TX_HDR_LEN")
  \/ /\ state = "CU_TX_HDR_LEN" /\ bus_ack
     /\ Stage(rdata)
     /\ Header(1, "CU_TX_RD_TBD")

\* Walking the chain of buffer descriptors.  A chain that ends early sends
\* what there is; a block with no chain at all fails.
OpenTbd ==
  /\ bus_ack
  /\ \/ state = "CU_TX_RD_TBD" /\ tbd' = [tbd EXCEPT !.at = rdata]
        /\ Goto(IF rdata = Null THEN "CU_FINISH" ELSE "CU_TX_RD_CNT")
        /\ ok' = (ok /\ rdata # Null)
     \/ state = "CU_TX_RD_CNT"
        /\ tbd' = [tbd EXCEPT !.count = rdata.count, !.eof = rdata.eof, !.off = 0]
        /\ Goto("CU_TX_RD_BUF_LO") /\ UNCHANGED ok
     \/ state = "CU_TX_RD_BUF_LO" /\ tbd' = [tbd EXCEPT !.buf = rdata]
        /\ Goto("CU_TX_RD_BUF_HI") /\ UNCHANGED ok
     \/ state = "CU_TX_RD_BUF_HI" /\ tbd' = [tbd EXCEPT !.buf = @ + 65536 * rdata]
        /\ Goto("CU_TX_SEL") /\ UNCHANGED ok
     \/ state = "CU_TX_NEXT_TBD" /\ tbd' = [tbd EXCEPT !.at = rdata]
        /\ Goto(IF rdata = Null THEN "CU_TX_GO" ELSE "CU_TX_RD_CNT")
        /\ UNCHANGED ok
  /\ StageNothing
  /\ UNCHANGED <<idx, tx_word>>

\* Take a whole word where the buffer allows it, a byte otherwise.
Select ==
  /\ state = "CU_TX_SEL"
  /\ Goto(IF TxBufDone THEN IF tbd.eof THEN "CU_TX_GO" ELSE "CU_TX_NEXT_TBD"
          ELSE IF CanWord THEN "CU_TX_RD_WORD" ELSE "CU_TX_RD_BYTE")
  /\ StageNothing
  /\ UNCHANGED <<idx, tbd, tx_word>>

StageByte ==
  /\ state = "CU_TX_RD_BYTE" /\ bus_ack
  /\ Stage(rdata)
  /\ tbd' = [tbd EXCEPT !.off = @ + 1]
  /\ Goto("CU_TX_SEL")
  /\ UNCHANGED <<idx, tx_word>>

ReadWord ==
  /\ state = "CU_TX_RD_WORD" /\ bus_ack
  /\ tx_word' = rdata
  /\ Goto("CU_TX_ST_WORD")
  /\ StageNothing
  /\ UNCHANGED <<idx, tbd>>

\* The RAM takes a byte a cycle, so the word goes in over four.
StageWord ==
  /\ state = "CU_TX_ST_WORD" /\ LbRoom
  /\ Stage(Head(tx_word))
  /\ tx_word' = Tail(tx_word)
  /\ tbd' = [tbd EXCEPT !.off = @ + 1]
  /\ IF Len(tx_word) = 1 THEN Goto("CU_TX_SEL") ELSE UNCHANGED state
  /\ UNCHANGED idx

Staging ==
  /\ \/ OpenTbd
     \/ (StageHeader \/ Select \/ StageByte \/ ReadWord \/ StageWord)
        /\ UNCHANGED ok
  /\ Latch
  /\ cu_ev' = {} /\ mc_out' = NoMc
  /\ UNCHANGED <<listVars, cmd, setupVars, sendVars>>

-----------------------------------------------------------------------------
\* Sending what was staged.

AttemptOver == tx_go /\ done_s2

\* Raise go, wait for done, drop go and take the report.
Go ==
  /\ state = "CU_TX_GO"
  /\ tx_len' = tx_bytes
  /\ IF AttemptOver
     THEN /\ tx_go' = FALSE
          /\ ok' = tx_ok
          /\ tx_status' = tx_report
          /\ Goto("CU_FINISH")
     ELSE /\ tx_go' = (tx_go \/ ~Loopback)
          /\ Goto(IF Loopback THEN "CU_TX_LB_PAD" ELSE "CU_TX_GO")
          /\ UNCHANGED <<ok, tx_status>>
  /\ lb_wr' = NoLb
  /\ UNCHANGED tx_bytes

\* (Mutant: the end of a frame goes out unasked.)
EndUnasked == TRUE
EndRoom == ~lb_full

\* Loopback pads the way the wire would, then closes the frame.
PadLoopback ==
  /\ state = "CU_TX_LB_PAD" /\ ~lb_full
  /\ IF tx_bytes + 4 >= MinLen
     THEN Goto("CU_TX_LB_END") /\ lb_wr' = NoLb /\ UNCHANGED tx_bytes
     ELSE /\ lb_wr' = [wr |-> TRUE, end |-> FALSE, data |-> Pad]
          /\ tx_bytes' = tx_bytes + 1
          /\ UNCHANGED state
  /\ UNCHANGED <<ok, sendVars>>

EndLoopback ==
  /\ state = "CU_TX_LB_END" /\ EndRoom
  /\ lb_wr' = [wr |-> TRUE, end |-> TRUE, data |-> NoByte]
  /\ ok' = TRUE
  /\ Goto("CU_FINISH")
  /\ UNCHANGED <<tx_bytes, sendVars>>

Sending ==
  /\ Go \/ PadLoopback \/ EndLoopback
  /\ Latch
  /\ cu_ev' = {} /\ mc_out' = NoMc /\ ram_wr' = NoRam
  /\ UNCHANGED <<listVars, cmd, idx, setupVars, bufVars>>

-----------------------------------------------------------------------------
\* The block's status is written; report it and go on, or stop.

Completed == state = "CU_FINISH" /\ bus_ack

Finish ==
  /\ Completed
  /\ cu_ev' = IF cmd.i THEN {"CX"} ELSE {}
  /\ Goto("CU_NEXT")
  /\ Latch
  /\ mc_out' = NoMc /\ ram_wr' = NoRam /\ lb_wr' = NoLb
  /\ UNCHANGED <<listVars, cmd, idx, ok, setupVars, bufVars, tx_bytes, sendVars>>

\* The unit stops: aborted or at the end of the list, or suspended with the
\* next block already in hand.  (Mutant: suspended on the block just done.)
SuspendHere == UNCHANGED cb
SuspendNext == cb' = link

\* (Mutant: only an abort ends a list.)
StopsAborted == abort_pending
Stops == abort_pending \/ cmd.el

StopOrSuspend ==
  \/ /\ Stops
     /\ abort_pending' = FALSE /\ LatchSuspend
     /\ suspended' = FALSE
     /\ cu_ev' = {"CNA"}
     /\ Goto("CU_IDLE")
     /\ UNCHANGED cb
  \/ /\ ~Stops
     /\ cmd.s \/ suspend_pending
     /\ SuspendNext
     /\ suspend_pending' = FALSE /\ LatchAbort
     /\ suspended' = TRUE
     /\ cu_ev' = {"CNA"}
     /\ Goto("CU_IDLE")

GoOn ==
  /\ ~Stops /\ ~(cmd.s \/ suspend_pending)
  /\ cb' = link
  /\ Latch
  /\ cu_ev' = {}
  /\ Goto("CU_FETCH_CMD")
  /\ UNCHANGED suspended

NextBlock ==
  /\ state = "CU_NEXT"
  /\ StopOrSuspend \/ GoOn
  /\ mc_out' = NoMc /\ ram_wr' = NoRam /\ lb_wr' = NoLb
  /\ UNCHANGED <<cmd, link, idx, ok, setupVars, bufVars, tx_bytes, sendVars>>

-----------------------------------------------------------------------------
\* Every other state waits: for its access, or for room in the loopback FIFO.
OwnPace == {"CU_IDLE", "CU_TX_SEL", "CU_TX_GO", "CU_NEXT"}
LbPace  == {"CU_TX_LB_PAD", "CU_TX_LB_END"}
RoomPace == {"CU_TX_HDR_SRC", "CU_TX_ST_WORD"}

Wait ==
  /\ \/ state \in LbPace /\ lb_full
     \/ state \in RoomPace /\ ~LbRoom
     \/ state \notin OwnPace \cup LbPace \cup RoomPace /\ ~bus_ack
  /\ Latch /\ NoPulses
  /\ UNCHANGED <<state, listVars, cmd, idx, ok, setupVars, bufVars, tx_bytes,
                 sendVars>>

CuReset ==
  /\ core_rst
  /\ state' = "CU_IDLE" /\ cb' = Null /\ cmd' = NoCmd /\ link' = Null /\ idx' = 0
  /\ ok' = FALSE
  /\ suspended' = FALSE /\ suspend_pending' = FALSE /\ abort_pending' = FALSE
  /\ ia' = [w \in 0..2 |-> NoByte]
  /\ cfg' = [w \in 0..5 |-> ZeroCfgWord]
  /\ cfg_words' = 1 /\ mc_all' = FALSE /\ mc_left' = 0 /\ mc_off' = 0
  /\ tbd' = NoTbd /\ tx_word' = <<>> /\ tx_bytes' = 0
  /\ tx_len' = 0 /\ tx_go' = FALSE /\ tx_status' = NoReport
  /\ done_s1' = FALSE /\ done_s2' = FALSE
  /\ cu_ev' = {} /\ mc_out' = NoMc /\ ram_wr' = NoRam /\ lb_wr' = NoLb

Sync == done_s1' = tx_done /\ done_s2' = done_s1

CuEdge ==
  \/ CuReset
  \/ /\ ~core_rst
     /\ Sync
     /\ \/ Idle \/ Fetch \/ Dispatch \/ Setup \/ Staging \/ Sending
        \/ Finish \/ NextBlock \/ Wait
=============================================================================
