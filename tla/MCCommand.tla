------------------------------ MODULE MCCommand ------------------------------
(***************************************************************************)
(* Command lists for CommandSystem.  The setup list has every block that   *)
(* transmits nothing, one of them suspending; the transmit lists send a    *)
(* frame cut into unaligned buffers, with the header in the block or in    *)
(* the buffers, on the wire or looped back, and frames of no length.       *)
(***************************************************************************)
EXTENDS CommandInv

Cmd(op) == [op |-> op, el |-> FALSE, s |-> FALSE, i |-> FALSE]
Last(c) == [c EXCEPT !.el = TRUE]
Susp(c) == [c EXCEPT !.s = TRUE]
Intr(c) == [c EXCEPT !.i = TRUE]

\* Six CONFIGURE words, of which so many bytes are to be used.
Zero == Cu!ZeroCfgWord
Config(count, al_loc, int_lb, min_len) ==
  [w \in 0..5 |->
     CASE w = 0 -> [Zero EXCEPT !.count = count]
       [] w = 1 -> [Zero EXCEPT !.al_loc = al_loc, !.int_lb = int_lb]
       [] w = 5 -> [Zero EXCEPT !.min_len = min_len]
       [] OTHER -> Zero]

Block(cmd0, link0) ==
  [cmd |-> cmd0, link |-> link0, tbd |-> Null, mc |-> 0,
   cfg |-> Config(0, FALSE, FALSE, 0)]

\* Setup: IA, CONFIGURE of an odd number of bytes, exactly as many addresses as
\* fit (and suspend), DUMP, TDR, NOP.
SetupBlocks == {"ia", "cfg", "mc", "dump", "tdr", "nop"}
SetupHeads  == {"ia", "dump"}
SetupCb ==
  [b \in SetupBlocks |->
     CASE b = "ia"   -> Block(Intr(Cmd("IA_SETUP")), "cfg")
       [] b = "cfg"  -> [Block(Cmd("CONFIGURE"), "mc")
                           EXCEPT !.cfg = Config(11, TRUE, FALSE, 9)]
       [] b = "mc"   -> [Block(Susp(Intr(Cmd("MC_SETUP"))), "dump") EXCEPT !.mc = 12]
       [] b = "dump" -> Block(Intr(Cmd("DUMP")), "tdr")
       [] b = "tdr"  -> Block(Intr(Cmd("TDR")), "nop")
       [] b = "nop"  -> Block(Last(Cmd("NOP")), "dump")]

NoTbds == {}
NoTd   == [t \in {} |-> 0]

\* Transmission, one list: a header from the block, a block with no buffers,
\* two frames back to back from the buffers alone, one looped back.
SendBlocks == {"hdr", "none", "alloc", "whole", "short", "loop", "inner", "plain"}
SendHeads  == {"hdr"}
SendCb ==
  [b \in SendBlocks |->
     CASE b = "hdr"   -> [Block(Cmd("TRANSMIT"), "none") EXCEPT !.tbd = "t2"]
       [] b = "none"  -> Block(Intr(Cmd("TRANSMIT")), "alloc")
       [] b = "alloc" -> [Block(Cmd("CONFIGURE"), "whole")
                            EXCEPT !.cfg = Config(12, TRUE, FALSE, 13)]
       [] b = "whole" -> [Block(Cmd("TRANSMIT"), "short") EXCEPT !.tbd = "t1"]
       [] b = "short" -> [Block(Cmd("TRANSMIT"), "loop") EXCEPT !.tbd = "t2"]
       [] b = "loop"  -> [Block(Cmd("CONFIGURE"), "inner")
                            EXCEPT !.cfg = Config(12, TRUE, TRUE, 13)]
       [] b = "inner" -> [Block(Cmd("TRANSMIT"), "plain") EXCEPT !.tbd = "t1"]
       [] b = "plain" -> [Block(Last(Cmd("CONFIGURE")), Null)
                            EXCEPT !.cfg = Config(12, FALSE, FALSE, 0)]]

\* Two buffers: bytes 3 to 8, a word and its ragged ends, then byte 13.
SendTbds == {"t1", "t2"}
SendTd ==
  [t \in SendTbds |->
     CASE t = "t1" -> [count |-> 6, eof |-> FALSE, link |-> "t2", buf |-> 3]
       [] t = "t2" -> [count |-> 1, eof |-> TRUE, link |-> "t1", buf |-> 13]]

AnyPulse  == {"START", "RESUME", "SUSPEND", "ABORT"}
StartOnly == {"START"}

NoResets    == {}
ResetAtSend == {"CU_TX_GO"}
ResetAtSetup == {"CU_IDLE", "CU_MC_RD_ADDR"}

QuietMedium == {[crs |-> FALSE, col |-> FALSE]}
AnyMedium == {[crs |-> b, col |-> b] : b \in BOOLEAN}
=============================================================================
