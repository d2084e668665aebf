------------------------------ MODULE Sun2Rom ------------------------------
(***************************************************************************)
(* The Sun-2/120 boot PROM driver: the Multibus board and the on-board     *)
(* Ethernet, polled.  It gives up nothing it waits for but the first       *)
(* answer of a chip it has reset.                                          *)
(***************************************************************************)
EXTENDS RomPort

OnBoard == es.kind = "ob"

\* ieca: an attention, with what is in the command word.
ieca(cmd) == scb' = [scb EXCEPT !.cmd = cmd] /\ Attention

-----------------------------------------------------------------------------
\* iesimple.

\* (Mutant: the status of the block is what the last command left.)
ClearBlockNot ==
  /\ At("simple")
  /\ cbs' = [cbs EXCEPT ![Block(th.op)] = [Fresh EXCEPT !.done = DoneBlock]]
  /\ th' = Goto("simple.start")
  /\ UNCHANGED <<scb, busy, rfds, rbds, ch, ghosts, es, faults>>

ClearBlock ==
  /\ At("simple")
  /\ cbs' = [cbs EXCEPT ![Block(th.op)] = Fresh]
  /\ th' = Goto("simple.start")
  /\ UNCHANGED <<scb, busy, rfds, rbds, ch, ghosts, es, faults>>

StartBlock ==
  /\ At("simple.start") /\ Accepted /\ Settled
  /\ scb' = [scb EXCEPT !.cmd = [NoCommand EXCEPT !.cuc = "START"],
                        !.cbl = Block(th.op)]
  /\ Attention
  /\ th' = Goto("simple.done")
  /\ UNCHANGED <<busy, rfds, rbds, cbs, ghosts, es, faults>>

BlockDone ==
  /\ At("simple.done") /\ DoneBlock
  /\ th' = Goto("simple.ack")
  /\ UNCHANGED <<portVars, es, faults>>

\* What the block has caused is acknowledged, if it shows yet; the attention
\* is given all the same.
AckBlock ==
  /\ At("simple.ack") /\ Accepted /\ Settled
  /\ ieca(Shown({"CX", "CNA"}))
  /\ th' = Return(TRUE)
  /\ UNCHANGED <<busy, rfds, rbds, cbs, ghosts, es, faults>>

iesimple == ClearBlock \/ StartBlock \/ BlockDone \/ AckBlock

-----------------------------------------------------------------------------
\* ierustart.

\* "Stop the RU, since we're sharing buffers with it.  Then wait until it has
\* really stopped."
RuLook ==
  /\ At("ru") /\ Settled
  /\ th' = Goto(IF scb.status.rus = "READY" THEN "ru.abort" ELSE "ru.wait")
  /\ UNCHANGED <<portVars, es, faults>>

RuStop ==
  /\ At("ru.abort") /\ Accepted /\ Settled
  /\ ieca([NoCommand EXCEPT !.ruc = "ABORT"])
  /\ th' = Goto("ru")
  /\ UNCHANGED <<busy, rfds, rbds, cbs, ghosts, es, faults>>

\* The buffer, and a second one that ends the list.
RuBuffers ==
  /\ At("ru.wait") /\ Accepted
  /\ rbds' = [b \in Rbds |-> [rbds[b] EXCEPT !.used = FALSE, !.last = FALSE,
                                !.el = b = 1, !.next = IF b = 0 THEN 1 ELSE Null]]
  /\ th' = Goto("ru.frame")
  /\ UNCHANGED <<scb, busy, rfds, cbs, ch, ghosts, es, faults>>

\* The descriptor; and the receiver is started, with nothing waited for.
RuFrame ==
  /\ At("ru.frame") /\ Settled
  /\ rfds' = [rfds EXCEPT ![0] = [done |-> FALSE, el |-> TRUE, next |-> Null, rbd |-> 0]]
  /\ scb' = [scb EXCEPT !.rfa = 0, !.cmd = [NoCommand EXCEPT !.ruc = "START"]]
  /\ Attention
  /\ filed' = <<>>
  /\ th' = Return(TRUE)
  /\ UNCHANGED <<busy, rbds, cbs, owed, wire, es, faults>>

ierustart == RuLook \/ RuStop \/ RuBuffers \/ RuFrame

-----------------------------------------------------------------------------
\* iexmit and iepoll.

XmitStart ==
  /\ At("xmit")
  /\ owed' = Append(owed, th.frame)
  /\ th' = Call([th EXCEPT !.op = "XMIT"], "simple", "xmit.end")
  /\ UNCHANGED <<mem, ch, filed, wire, es, faults>>

XmitEnd ==
  /\ At("xmit.end")
  /\ th' = AtRest
  /\ UNCHANGED <<portVars, es, faults>>

iexmit == XmitStart \/ XmitEnd

\* Still ready: no packet yet.  Not ready: a packet, or "randomness zapped it".
PollLook ==
  /\ At("poll") /\ Settled
  /\ th' = CASE scb.status.rus = "READY" -> Return(TRUE)
             [] scb.status.rus # "READY" /\ ~Got -> Goto("ru")
             [] OTHER -> Goto("poll.copy")
  /\ UNCHANGED <<portVars, es, faults>>

PollCopy ==
  /\ At("poll.copy")
  /\ th' = [Goto("poll.ack") EXCEPT !.frame = rbds[0].data.id]
  /\ UNCHANGED <<portVars, es, faults>>

PollAck ==
  /\ At("poll.ack") /\ Accepted /\ Settled
  /\ ieca(Shown({"FR", "RNR"}))
  /\ filed' = Without(filed, [id : {th.frame}, len : 1..MaxLen])
  /\ es' = [es EXCEPT !.handed = th.frame]
  /\ th' = Goto("ru")
  /\ UNCHANGED <<busy, rfds, rbds, cbs, owed, wire, faults>>

iepoll == PollLook \/ PollCopy \/ PollAck

-----------------------------------------------------------------------------
\* ieinit, iereset and ieclose.

\* ieinit takes the Multibus board off the wire, and iereset never does.
Init120 ==
  /\ At("open")
  /\ es' = [es EXCEPT !.wire = @ /\ OnBoard]
  /\ th' = Goto("reset")
  /\ UNCHANGED <<portVars, faults>>

\* The control blocks are laid out anew and the chip reset, the on-board
\* interface in loopback; the chip may come up without an ear.
ResetChips ==
  /\ At("reset")
  /\ scb' = ZeroScb /\ busy' = TRUE
  /\ \E deaf \in BOOLEAN :
       /\ deaf => faults > 0
       /\ faults' = IF deaf THEN faults - 1 ELSE faults
       /\ ch' = ResetChip(deaf)
  /\ es' = [es EXCEPT !.wire = @ /\ ~OnBoard, !.held = FALSE]
  /\ filed' = <<>> /\ owed' = <<>>
  /\ th' = Goto("zap")
  /\ UNCHANGED <<rfds, rbds, cbs, wire>>

Zap ==
  /\ At("zap")
  /\ Attention
  /\ th' = Goto("busy")
  /\ UNCHANGED <<mem, ghosts, es, faults>>

\* No answer: on board the chip is put back into reset; then another try.
Busy ==
  /\ At("busy") /\ (~busy \/ ~HandlerOwes)
  /\ th' = CASE ~busy -> Call([th EXCEPT !.op = "IASETUP"], "simple", "reset.iaddr")
             [] busy /\ th.tries = 1 -> Return(FALSE)
             [] OTHER -> [Goto("reset") EXCEPT !.tries = @ - 1]
  /\ ch' = IF busy /\ OnBoard THEN HeldChip ELSE ch
  /\ es' = [es EXCEPT !.held = busy /\ OnBoard]
  /\ UNCHANGED <<mem, ghosts, faults>>

ResetConf ==
  /\ At("reset.iaddr")
  /\ th' = Call([th EXCEPT !.op = "CONFIG"], "simple", "reset.conf")
  /\ UNCHANGED <<portVars, es, faults>>

\* Only now, configured, does the interface go on the wire.
OnTheWire ==
  /\ At("reset.conf")
  /\ es' = [es EXCEPT !.wire = TRUE]
  /\ th' = Goto("ru")
  /\ UNCHANGED <<portVars, faults>>

iereset == ResetChips \/ Zap \/ Busy \/ ResetConf \/ OnTheWire

\* A failed open closes: "Make sure we kill chip".
ieopen ==
  /\ At("opened")
  /\ es' = [es EXCEPT !.open = th.ok]
  /\ th' = IF th.ok THEN AtRest ELSE Goto("close")
  /\ UNCHANGED <<portVars, faults>>

\* On board the chip is reset and off the wire; on the Multibus it runs on.
ieclose ==
  /\ At("close")
  /\ ch' = IF OnBoard THEN HeldChip ELSE ch
  /\ es' = [es EXCEPT !.open = FALSE, !.held = OnBoard, !.wire = @ /\ ~OnBoard]
  /\ th' = AtRest
  /\ UNCHANGED <<mem, ghosts, faults>>

Driver == \/ iesimple \/ ierustart \/ iexmit \/ iepoll
          \/ Init120 \/ iereset \/ ieopen \/ ieclose
=============================================================================
