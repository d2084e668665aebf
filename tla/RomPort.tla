------------------------------ MODULE RomPort ------------------------------
(***************************************************************************)
(* What the two boot PROM drivers, Sun2Rom and Sun3Rom, have in common:    *)
(* the softc, the call under way, and the accesses to the chip.  Calls are *)
(* kept on a stack of return labels.  RomSystem adds the chip and the      *)
(* program that boots.                                                     *)
(***************************************************************************)
EXTENDS ChipPort, Integers

CONSTANTS
  Kinds,     \* which of "mb", "ob" (Sun-2/120) and "3280"
  Speeds,    \* may the handler be taken to outrun the driver's accesses?
  Tries,     \* attempts at an initialisation: ten in the code
  Sends      \* frames the program gives to iexmit

ASSUME RomAssumption ==
  /\ Kinds \subseteq {"mb", "ob", "3280"} /\ Speeds \subseteq BOOLEAN
  /\ Tries \in Nat \ {0} /\ Sends \in Nat
  /\ Rfds = {0} /\ Rbds = {0, 1} /\ Cbs = 0..2

VARIABLES
  es,      \* the softc, and the board's control register
  th,      \* the call under way: where it is, what it returns to, its locals
  faults   \* how many misfortunes are still to come

romVars == <<es, th, faults>>
mem == <<scb, busy, rfds, rbds, cbs>>
ghosts == <<filed, owed, wire>>

Softc(kind, prompt) ==
  [kind |-> kind, prompt |-> prompt, open |-> FALSE, wire |-> FALSE,
   held |-> TRUE, sent |-> 0, handed |-> -1, early |-> FALSE]

\* The blocks es_iaddr, es_ic and es_tfd.
Block(op) == CASE op = "IASETUP" -> 0 [] op = "CONFIG" -> 1 [] OTHER -> 2

AtRest == [pc |-> "idle", ret |-> <<>>, ok |-> TRUE, op |-> "NOP", tries |-> 0,
           frame |-> Null]
At(l) == th.pc = l
Goto(l) == [th EXCEPT !.pc = l]
Call(t, l, back) == [t EXCEPT !.pc = l, !.ret = <<back>> \o @]
Return(ok) ==
  IF Head(th.ret) = "idle" THEN AtRest
  ELSE [th EXCEPT !.pc = Head(th.ret), !.ret = Tail(th.ret), !.ok = ok]

\* When a bus access of the driver's may fall.  That the handler has by then
\* told what it has to tell is an assumption, made or not.
Settled ==
  /\ ch.cuStep # "end"
  /\ es.prompt => ~HandlerOwes /\ (ch.up /\ ~ch.deaf => scb.status = ShownStatus)

\* The command word is read as zero; the block's status as complete.
Accepted == scb.cmd = NoCommand
DoneBlock == cbs[Block(th.op)].done

Shown(fl) == [NoCommand EXCEPT !.ack = scb.status.flags \cap fl]

\* A block of the driver's, its status cleared, the only one of its list.
Fresh == [op |-> th.op, i |-> FALSE, done |-> FALSE, data |-> th.frame]

\* A chip held in reset does nothing at all.
HeldChip == ResetChip(TRUE)

\* A frame is there when the descriptor is done and it fitted the buffer.
Got == rfds[0].done /\ rbds[0].used /\ rbds[0].last
=============================================================================
