------------------------------ MODULE AsyncFifo ------------------------------
(***************************************************************************)
(* async_fifo: one edge of each of its clocks.  The pointers cross over    *)
(* Gray coded, and a pointer that moves as it is sampled is seen with each *)
(* of its bits old or new.                                                 *)
(***************************************************************************)
EXTENDS Integers, Sequences

CONSTANTS AW,    \* DEPTH is two to the AW
          Noise  \* what the memory holds when nothing was written

ASSUME FifoAssumption == AW \in Nat /\ AW >= 2

VARIABLES mem, wbin, wgray, rgray_w1, rgray_w2, rbin, rgray, wgray_r1, wgray_r2

wVars == <<mem, wbin, wgray, rgray_w1, rgray_w2>>
rVars == <<rbin, rgray, wgray_r1, wgray_r2>>
fifoVars == <<wVars, rVars>>

DEPTH == 2^AW
Bit(b, i) == (b \div 2^i) % 2

\* (Mutant: the pointers cross in binary.)
bin2same(b) == [i \in 0..AW |-> Bit(b, i)]

bin2gray(b) == [i \in 0..AW |-> (Bit(b, i) + Bit(b, i + 1)) % 2]

Zero == [i \in 0..AW |-> 0]

FifoInit ==
  /\ mem = [i \in 0..(DEPTH - 1) |-> Noise]
  /\ wbin = 0 /\ wgray = Zero /\ rgray_w1 = Zero /\ rgray_w2 = Zero
  /\ rbin = 0 /\ rgray = Zero /\ wgray_r1 = Zero /\ wgray_r2 = Zero

\* Full when the pointers match except for the two most significant bits.
wfull ==
  wgray = [i \in 0..AW |-> IF i >= AW - 1 THEN 1 - rgray_w2[i] ELSE rgray_w2[i]]
rempty == rgray = wgray_r2
rd_data == mem[rbin % DEPTH]

Moved(bin, does) == IF does THEN (bin + 1) % (2 * DEPTH) ELSE bin
do_wr(wr_en) == wr_en /\ ~wfull
do_rd(rd_en) == rd_en /\ ~rempty
wbin_next(wrst, wr_en) == IF wrst THEN 0 ELSE Moved(wbin, do_wr(wr_en))
rbin_next(rrst, rd_en) == IF rrst THEN 0 ELSE Moved(rbin, do_rd(rd_en))

\* An edge of wclk that samples `seen' of the read pointer.
WriteEdge(wrst, wr_en, wr_data, seen) ==
  /\ mem' = IF do_wr(wr_en) THEN [mem EXCEPT ![wbin % DEPTH] = wr_data] ELSE mem
  /\ wbin' = wbin_next(wrst, wr_en)
  /\ wgray' = bin2gray(wbin_next(wrst, wr_en))
  /\ rgray_w1' = IF wrst THEN Zero ELSE seen
  /\ rgray_w2' = IF wrst THEN Zero ELSE rgray_w1

\* An edge of rclk that samples `seen' of the write pointer.
ReadEdge(rrst, rd_en, seen) ==
  /\ rbin' = rbin_next(rrst, rd_en)
  /\ rgray' = bin2gray(rbin_next(rrst, rd_en))
  /\ wgray_r1' = IF rrst THEN Zero ELSE seen
  /\ wgray_r2' = IF rrst THEN Zero ELSE wgray_r1

\* What a register may catch of a pointer that moves from g to that of b.
Caught(g, b) ==
  LET new == bin2gray(b)
  IN  {[i \in 0..AW |-> IF i \in late THEN g[i] ELSE new[i]] :
         late \in SUBSET {i \in 0..AW : g[i] # new[i]}}

\* What is in the FIFO, first word first.
Level == (wbin - rbin) % (2 * DEPTH)
Contents == [i \in 1..Level |-> mem[(rbin + i - 1) % DEPTH]]
=============================================================================
