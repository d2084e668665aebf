-------------------------------- MODULE MiiRx --------------------------------
(***************************************************************************)
(* mii_rx: the receiver, in the clock domain of the PHY.  One edge of      *)
(* rx_clk, with a symbol or silence on the wire.  A data symbol is known   *)
(* by its frame and its place in it; what it looks like to a receiver that *)
(* is waiting for a delimiter is another matter.                           *)
(***************************************************************************)
EXTENDS Integers, Sequences

CONSTANTS DATA_W, Junk

ASSUME WidthAssumption == DATA_W \in {4, 8}

VARIABLE rx

HALF == DATA_W = 4
None == [end |-> FALSE, err |-> {}, byte |-> Junk]
NoSymbols == [of |-> Junk, n |-> 0]

\* The output register: whether it writes, and the word.
NewRx ==
  [state |-> "RX_IDLE", lo_nibble |-> NoSymbols, odd |-> FALSE, crc |-> NoSymbols,
   crc_err_q |-> FALSE, dribble_q |-> FALSE, overrun_q |-> FALSE, rx_er_q |-> FALSE,
   dl |-> <<>>, fifo_wr_o |-> FALSE, fifo_data_o |-> None]

\* The CRC register: how many symbols of one frame it has seen from the first
\* without a gap, or none of them when it cannot come right any more.
Crc(s) == IF rx.crc.n = s.n - 1 THEN s ELSE [of |-> Junk, n |-> 0 - 1]

\* A byte: the one its symbols belong to, if they are the two halves of one.
NewByte(s) ==
  IF ~HALF THEN s
  ELSE IF s.n % 2 = 0 /\ rx.lo_nibble = [s EXCEPT !.n = @ - 1]
  THEN [of |-> s.of, n |-> s.n \div 2] ELSE [of |-> Junk, n |-> 0]
byte_now == HALF => rx.odd

Quiet == [rx EXCEPT !.fifo_wr_o = FALSE]
Goes(st) == [Quiet EXCEPT !.state = st]

\* Any symbol is carrier, and the first one is not looked at.
Idle(dv) ==
  LET fresh == [Quiet EXCEPT !.odd = FALSE, !.dl = <<>>, !.rx_er_q = FALSE,
                             !.crc = NoSymbols]
  IN  IF ~dv THEN fresh
      ELSE [fresh EXCEPT !.state = "RX_PREAMBLE", !.overrun_q = FALSE,
                         !.dribble_q = FALSE, !.crc_err_q = FALSE]

\* What is neither preamble nor delimiter is taken for data.
Preamble(dv, looks, s) ==
  IF ~dv THEN Goes("RX_IDLE")
  ELSE CASE looks = "PRE" -> Quiet
         [] looks = "SFD" -> [Goes("RX_DATA") EXCEPT !.odd = FALSE, !.crc = NoSymbols]
         [] OTHER -> [Goes("RX_DATA") EXCEPT !.odd = HALF, !.lo_nibble = s]

\* The word for a byte that four more have followed.  Full is looked at now, and
\* the word is written on the next edge.
Passed(byte) ==
  IF Len(rx.dl) = 4
  THEN [Quiet EXCEPT !.fifo_wr_o = TRUE,
                     !.fifo_data_o = [end |-> FALSE, err |-> {}, byte |-> Head(rx.dl)],
                     !.dl = Append(Tail(@), byte)]
  ELSE [Quiet EXCEPT !.dl = Append(@, byte)]

\* (Mutant: only a frame that lost its first byte is overrun.)
OverrunAtFirst(full) == rx.overrun_q \/ (full /\ Len(rx.dl) < 4)

Overrun(full) == rx.overrun_q \/ (full /\ Len(rx.dl) = 4)

Data(dv, er, s, crc_ok, full) ==
  LET seen == [rx EXCEPT !.odd = ~@, !.crc = Crc(s), !.rx_er_q = @ \/ er]
  IN  IF ~dv THEN [Goes("RX_END") EXCEPT !.dribble_q = HALF /\ rx.odd,
                                         !.crc_err_q = ~crc_ok,
                                         !.rx_er_q = @ \/ er]
      ELSE IF ~byte_now
      THEN [seen EXCEPT !.lo_nibble = s, !.fifo_wr_o = FALSE]
      ELSE [Passed(NewByte(s)) EXCEPT !.odd = seen.odd, !.crc = seen.crc,
                                      !.rx_er_q = seen.rx_er_q,
                                      !.overrun_q = Overrun(full)]

EndWord ==
  [end |-> TRUE, byte |-> Junk,
   err |-> (IF rx.crc_err_q \/ rx.rx_er_q THEN {"bad"} ELSE {})
             \cup (IF rx.dribble_q THEN {"dribble"} ELSE {})
             \cup (IF rx.overrun_q THEN {"overrun"} ELSE {})]

\* (Mutant: the end word is not waited for.)
EndAnyway(full) ==
  [Goes("RX_IDLE") EXCEPT !.fifo_wr_o = TRUE, !.fifo_data_o = EndWord]

\* The end word cannot be dropped, so it waits for room.
End(full) ==
  IF full THEN Quiet
  ELSE [Goes("RX_IDLE") EXCEPT !.fifo_wr_o = TRUE, !.fifo_data_o = EndWord]

RxEdge(rst, dv, er, looks, s, crc_ok, full) ==
  rx' = IF rst THEN NewRx
        ELSE CASE rx.state = "RX_IDLE"     -> Idle(dv)
               [] rx.state = "RX_PREAMBLE" -> Preamble(dv, looks, s)
               [] rx.state = "RX_DATA"     -> Data(dv, er, s, crc_ok, full)
               [] rx.state = "RX_END"      -> End(full)
=============================================================================
