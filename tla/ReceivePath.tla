---------------------------- MODULE ReceivePath ----------------------------
(***************************************************************************)
(* From the wire to the receive unit: the PHY, mii_rx, the FIFO, and the   *)
(* reset that reaches its two sides through a synchroniser on one of them. *)
(* The two clocks have nothing to do with each other.  The receive unit is *)
(* whatever takes a word when there is one; it begins some time after a    *)
(* reset, when the driver has started it.                                  *)
(***************************************************************************)
EXTENDS AsyncFifo, MiiRx, FiniteSets

CONSTANTS
  Frames, Fr,  \* frames that may be sent, and what each is
  MinGap,      \* symbols of silence between frames
  MaxSent,     \* frames in all
  MaxResets,
  StartsLate   \* the driver starts the unit only when both sides are at rest

ASSUME PathAssumption ==
  /\ MinGap \in Nat /\ MaxSent \in Nat /\ MaxResets \in Nat /\ StartsLate \in BOOLEAN

\* A frame is so many octets of preamble, a delimiter or not, so many bytes and a
\* half or not; the PHY may see an error in it; one sent right has its FCS.
ASSUME FramesAssumption ==
  /\ Junk \notin Frames
  /\ Fr \in [Frames -> [pre : Nat, sfd : BOOLEAN, bytes : Nat, half : BOOLEAN,
                        er : BOOLEAN, ok : BOOLEAN]]
  /\ \A f \in Frames : Fr[f].ok => Fr[f].bytes >= 4

VARIABLES
  air,       \* the frame on the wire, if any, and symbols into it or into the gap
  sent,
  core_rst,  \* as the read side has it
  rx_rst_q,  \* edges of rx_clk the write side's reset has yet to last
  resets,
  calm,      \* edges of clk since the write side was reset
  started,   \* the receive unit takes words
  taken,     \* words it took since the last end word, that one included
  owed       \* frames begun whose end word it has not taken

pathVars == <<air, sent, core_rst, rx_rst_q, resets, calm, started, taken, owed>>
vars == <<fifoVars, rx, pathVars>>

Silence(n) == [of |-> Junk, n |-> n]

Init ==
  /\ FifoInit /\ rx = NewRx
  /\ air = Silence(MinGap) /\ sent = 0
  /\ core_rst = FALSE /\ rx_rst_q = 0 /\ resets = 0 /\ calm = 2
  /\ started = FALSE /\ taken = <<>> /\ owed = 0
-----------------------------------------------------------------------------
\* The wire.  A frame is preamble, a delimiter unless it was lost, and data.

Lead(f) == Fr[f].pre + IF Fr[f].sfd THEN 1 ELSE 0
Symbols(f) == (IF HALF THEN 2 ELSE 1) * Fr[f].bytes + IF Fr[f].half THEN 1 ELSE 0

dv == air.of # Junk
InData == dv /\ air.n > Lead(air.of)
Symbol == IF InData THEN [air EXCEPT !.n = @ - Lead(air.of)] ELSE NoSymbols
\* What a symbol may look like, to a receiver that looks.  Any of the data may
\* look like preamble.
Looks ==
  IF ~dv \/ rx.state # "RX_PREAMBLE" THEN {"PRE"}
  ELSE IF InData THEN {"PRE", "SFD", "OTHER"}
  ELSE IF air.n > Fr[air.of].pre THEN {"SFD"} ELSE {"PRE"}
er == InData /\ Fr[air.of].er
\* The residue comes right when a whole frame that was sent right has gone by.
crc_ok ==
  /\ rx.crc.of # Junk
  /\ Fr[rx.crc.of].ok /\ ~Fr[rx.crc.of].half /\ rx.crc.n = Symbols(rx.crc.of)

AirMoves ==
  IF dv
  THEN /\ air' = IF air.n = Lead(air.of) + Symbols(air.of)
                 THEN Silence(1) ELSE [air EXCEPT !.n = @ + 1]
       /\ sent' = sent
  ELSE \/ /\ air' = IF air.n < MinGap THEN Silence(air.n + 1) ELSE air
          /\ sent' = sent
       \/ /\ air.n >= MinGap /\ sent < MaxSent
          /\ \E f \in Frames : air' = [of |-> f, n |-> 1]
          /\ sent' = sent + 1
-----------------------------------------------------------------------------
rx_rst == rx_rst_q > 0

\* An edge of rx_clk.
RxSide(seen) ==
  /\ WriteEdge(rx_rst, rx.fifo_wr_o, rx.fifo_data_o, seen)
  /\ \E looks \in Looks : RxEdge(rx_rst, dv, er, looks, Symbol, crc_ok, wfull)
  /\ AirMoves

\* The reset is not waited for on this side: it is at once as long as it can be.
SyncMoves == IF core_rst THEN 3 ELSE IF rx_rst THEN rx_rst_q - 1 ELSE 0

Begun == IF rx.state # "RX_DATA" /\ rx'.state = "RX_DATA" THEN 1 ELSE 0

\* What the receive unit does at an edge of clk.
rd_en == started /\ ~rempty
Took == IF taken # <<>> /\ taken[Len(taken)].end THEN <<rd_data>> ELSE Append(taken, rd_data)
Ended(takes) == IF takes /\ rd_data.end THEN 1 ELSE 0

AtRest == rx_rst_q < 3 /\ calm = 2

\* An edge of clk, with the receive unit taking a word if it wants one.
ClkSide(seen, takes) ==
  /\ takes => rd_en
  /\ ReadEdge(core_rst, takes, seen)
  /\ taken' = IF core_rst THEN <<>> ELSE IF takes THEN Took ELSE taken
  /\ started' = (~core_rst /\ (started \/ AtRest \/ ~StartsLate))
  /\ calm' = IF core_rst \/ rx_rst_q = 3 THEN 0 ELSE IF calm < 2 THEN calm + 1 ELSE calm
  /\ \/ core_rst' = FALSE /\ resets' = resets
     \/ core_rst /\ core_rst' = TRUE /\ resets' = resets
     \/ ~core_rst /\ resets < MaxResets /\ core_rst' = TRUE /\ resets' = resets + 1

RxClk ==
  /\ RxSide(rgray)
  /\ rx_rst_q' = SyncMoves
  /\ owed' = IF core_rst \/ rx_rst THEN 0 ELSE owed + Begun
  /\ UNCHANGED <<rVars, core_rst, resets, calm, started, taken>>

Clk ==
  /\ \E takes \in BOOLEAN :
       /\ ClkSide(wgray, takes)
       /\ owed' = IF core_rst' THEN 0 ELSE owed - Ended(takes)
  /\ rx_rst_q' = IF core_rst' THEN 3 ELSE rx_rst_q
  /\ UNCHANGED <<wVars, rx, air, sent>>

\* Both at once: each side samples the other's pointer as it moves.
Both ==
  \E takes \in BOOLEAN :
    /\ \E seen \in Caught(rgray, rbin_next(core_rst, takes)) : RxSide(seen)
    /\ \E seen \in Caught(wgray, wbin_next(rx_rst, rx.fifo_wr_o)) : ClkSide(seen, takes)
    /\ owed' = IF core_rst' \/ rx_rst THEN 0 ELSE owed + Begun - Ended(takes)
    /\ rx_rst_q' = IF core_rst' THEN 3 ELSE SyncMoves

Next == RxClk \/ Clk \/ Both

Spec == Init /\ [][Next]_vars

-----------------------------------------------------------------------------
Bytes(f) == [i \in 1..(Fr[f].bytes - 4) |-> [of |-> f, n |-> i]]
Clean(f) == Fr[f].ok /\ ~Fr[f].half /\ ~Fr[f].er /\ Fr[f].bytes >= 4

\* A frame whose end word says that nothing was wrong is a frame that was sent,
\* whole, all of its bytes in their order and nothing else: whatever was lost to
\* a full FIFO, cut by a reset or begun too early is said to be bad (mii_rx's
\* overrun_q, its delay line, RX_END's wait).
Complete == taken # <<>> /\ taken[Len(taken)].end
GoodIsWhole ==
  Complete /\ taken[Len(taken)].err = {} =>
    \E f \in Frames :
      /\ Clean(f) /\ Len(taken) = Len(Bytes(f)) + 1
      /\ \A i \in 1..Len(Bytes(f)) : taken[i].byte = Bytes(f)[i]

\* The FIFO is a queue: the Gray pointers, the lag of what each side sees of the
\* other and the resets of two clocks lose, repeat and invent nothing.
Resetting == core_rst \/ rx_rst
Promise ==
  INSTANCE FifoQueue
  WITH Capacity <- DEPTH,
       q <- IF Resetting THEN <<>> ELSE Contents,
       offered <- IF rx.fifo_wr_o THEN <<rx.fifo_data_o>> ELSE <<>>,
       last <- IF taken = <<>> THEN <<>> ELSE <<taken[Len(taken)]>>,
       clear <- Resetting
QueuePromise == Promise!Queue

\* Once all is quiet, what has begun to be taken has been reported, with one end
\* word each, unless a reset came first: the end word waits for room where data do
\* not (RX_END).
AllQuiet == rx.state = "RX_IDLE" /\ ~rx.fifo_wr_o /\ Contents = <<>> /\ ~Resetting
Reported == AllQuiet => owed = 0
-----------------------------------------------------------------------------
\* Frames for TLC: one that fills the FIFO, one with an error on the wire that
\* stops in mid-byte, and one whose delimiter was lost.
PathFrames == {"long", "bad", "blind"}
PathFr ==
  [f \in PathFrames |->
     [pre |-> 1, sfd |-> f # "blind", bytes |-> IF f = "long" THEN 9 ELSE 5,
      half |-> f = "bad", er |-> f = "bad", ok |-> TRUE]]
=============================================================================
