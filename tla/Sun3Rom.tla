------------------------------ MODULE Sun3Rom ------------------------------
(***************************************************************************)
(* The Sun-3/280 boot PROM driver: as the Sun-2's, but every wait is       *)
(* counted down, a command that hangs during initialisation is another try *)
(* for iereset, and a frame is copied before it is sent.                   *)
(***************************************************************************)
EXTENDS RomPort

\* (Mutant: it waits for ever.)
NoTimebomb == FALSE

\* The count runs out on what will not come.
Timebomb == ~HandlerOwes /\ ~(ch.cuStep # "none" /\ ch.cb = Block(th.op))

\* ieca: an attention, with what is in the command word.
ieca(cmd) == scb' = [scb EXCEPT !.cmd = cmd] /\ Attention

-----------------------------------------------------------------------------
\* iesimple.

ClearBlock ==
  /\ At("simple")
  /\ cbs' = [cbs EXCEPT ![Block(th.op)] = Fresh]
  /\ th' = Goto("simple.start")
  /\ UNCHANGED <<scb, busy, rfds, rbds, ch, ghosts, es, faults>>

\* With the start goes an acknowledgement of what a command that timed out may
\* have left behind.
StartBlock ==
  /\ At("simple.start") /\ Accepted /\ Settled
  /\ scb' = [scb EXCEPT !.cmd = [Shown({"CX", "CNA"}) EXCEPT !.cuc = "START"],
                        !.cbl = Block(th.op)]
  /\ Attention
  /\ th' = Goto("simple.done")
  /\ UNCHANGED <<busy, rfds, rbds, cbs, ghosts, es, faults>>

BlockDone ==
  /\ At("simple.done") /\ DoneBlock
  /\ th' = Goto("simple.ack")
  /\ UNCHANGED <<portVars, es, faults>>

AckBlock ==
  /\ At("simple.ack") /\ Accepted /\ Settled
  /\ ieca(Shown({"CX", "CNA"}))
  /\ th' = Return(TRUE)
  /\ UNCHANGED <<busy, rfds, rbds, cbs, ghosts, es, faults>>

SimpleTimeout ==
  /\ \/ (At("simple.start") \/ At("simple.ack")) /\ ~Accepted
     \/ At("simple.done") /\ ~DoneBlock
  /\ Timebomb
  /\ th' = Return(FALSE)
  /\ UNCHANGED <<portVars, es, faults>>

\* A transmission may have to wait for the wire longer than the driver does.
XmitTooLate ==
  /\ At("simple.done") /\ th.op = "XMIT" /\ ch.cuStep = "run" /\ faults > 0
  /\ faults' = faults - 1 /\ es' = [es EXCEPT !.early = TRUE]
  /\ th' = Return(FALSE)
  /\ UNCHANGED portVars

iesimple == \/ ClearBlock \/ StartBlock \/ BlockDone \/ AckBlock
            \/ SimpleTimeout \/ XmitTooLate

-----------------------------------------------------------------------------
\* ierustart.

\* "Stop the RU, since we're sharing buffers with it.  Then wait until it has
\* really stopped."
RuLook ==
  /\ At("ru") /\ Settled
  /\ th' = Goto(IF scb.status.rus = "READY" THEN "ru.abort" ELSE "ru.wait")
  /\ UNCHANGED <<portVars, es, faults>>

RuStop ==
  /\ At("ru.abort") /\ Accepted /\ Settled
  /\ ieca([NoCommand EXCEPT !.ruc = "ABORT"])
  /\ th' = Goto("ru")
  /\ UNCHANGED <<busy, rfds, rbds, cbs, ghosts, es, faults>>

RuTimeout ==
  /\ At("ru.abort") \/ At("ru.wait")
  /\ ~Accepted /\ Timebomb
  /\ th' = Return(FALSE)
  /\ UNCHANGED <<portVars, es, faults>>

\* The buffer, and a second one that ends the list.
RuBuffers ==
  /\ At("ru.wait") /\ Accepted
  /\ rbds' = [b \in Rbds |-> [rbds[b] EXCEPT !.used = FALSE, !.last = FALSE,
                                !.el = b = 1, !.next = IF b = 0 THEN 1 ELSE Null]]
  /\ th' = Goto("ru.frame")
  /\ UNCHANGED <<scb, busy, rfds, cbs, ch, ghosts, es, faults>>

\* The descriptor; and the receiver is started, with nothing waited for.
RuFrame ==
  /\ At("ru.frame") /\ Settled
  /\ rfds' = [rfds EXCEPT ![0] = [done |-> FALSE, el |-> TRUE, next |-> Null, rbd |-> 0]]
  /\ scb' = [scb EXCEPT !.rfa = 0, !.cmd = [NoCommand EXCEPT !.ruc = "START"]]
  /\ Attention
  /\ filed' = <<>>
  /\ th' = Return(TRUE)
  /\ UNCHANGED <<busy, rbds, cbs, owed, wire, es, faults>>

ierustart == RuLook \/ RuStop \/ RuTimeout \/ RuBuffers \/ RuFrame

-----------------------------------------------------------------------------
\* iexmit and iepoll.

XmitStart ==
  /\ At("xmit")
  /\ owed' = Append(owed, th.frame)
  /\ th' = Call([th EXCEPT !.op = "XMIT"], "simple", "xmit.end")
  /\ UNCHANGED <<mem, ch, filed, wire, es, faults>>

XmitEnd ==
  /\ At("xmit.end")
  /\ th' = AtRest
  /\ UNCHANGED <<portVars, es, faults>>

iexmit == XmitStart \/ XmitEnd

\* (Mutant: a frame that fits is not told from one that does not.)
PollLookShort ==
  /\ At("poll") /\ Settled
  /\ th' = CASE scb.status.rus = "READY" -> Return(TRUE)
             [] scb.status.rus # "READY" /\ ~rfds[0].done -> Goto("ru")
             [] OTHER -> Goto("poll.copy")
  /\ UNCHANGED <<portVars, es, faults>>

PollLook ==
  /\ At("poll") /\ Settled
  /\ th' = CASE scb.status.rus = "READY" -> Return(TRUE)
             [] scb.status.rus # "READY" /\ ~Got -> Goto("ru")
             [] OTHER -> Goto("poll.copy")
  /\ UNCHANGED <<portVars, es, faults>>

PollCopy ==
  /\ At("poll.copy")
  /\ th' = [Goto("poll.ack") EXCEPT !.frame = rbds[0].data.id]
  /\ UNCHANGED <<portVars, es, faults>>

\* Nothing is handed over, and the descriptor left as it is.
PollTimeout ==
  /\ At("poll.ack") /\ ~Accepted /\ Timebomb
  /\ th' = Return(FALSE)
  /\ UNCHANGED <<portVars, es, faults>>

\* What ierustart says then is not looked at.
PollAck ==
  /\ At("poll.ack") /\ Accepted /\ Settled
  /\ ieca(Shown({"FR", "RNR"}))
  /\ filed' = Without(filed, [id : {th.frame}, len : 1..MaxLen])
  /\ es' = [es EXCEPT !.handed = th.frame]
  /\ th' = Goto("ru")
  /\ UNCHANGED <<busy, rfds, rbds, cbs, owed, wire, faults>>

iepoll == PollLook \/ PollCopy \/ PollTimeout \/ PollAck

-----------------------------------------------------------------------------
\* iereset and ieclose.

ieinit ==
  /\ At("open")
  /\ th' = Goto("reset")
  /\ UNCHANGED <<portVars, es, faults>>

\* obie_reset releases loopback, and it is asserted again before the chip is
\* let out of reset.
WireAfterReset == FALSE

\* The control blocks are laid out anew and the chip reset; it may come up
\* without an ear.
ResetChips ==
  /\ At("reset")
  /\ scb' = ZeroScb /\ busy' = TRUE
  /\ \E deaf \in BOOLEAN :
       /\ deaf => faults > 0
       /\ faults' = IF deaf THEN faults - 1 ELSE faults
       /\ ch' = ResetChip(deaf)
  /\ es' = [es EXCEPT !.wire = WireAfterReset, !.held = FALSE]
  /\ filed' = <<>> /\ owed' = <<>>
  /\ th' = Goto("zap")
  /\ UNCHANGED <<rfds, rbds, cbs, wire>>

Zap ==
  /\ At("zap")
  /\ Attention
  /\ th' = Goto("busy")
  /\ UNCHANGED <<mem, ghosts, es, faults>>

\* No answer: the chip is put back into reset; then another try.
Busy ==
  /\ At("busy") /\ (~busy \/ ~HandlerOwes)
  /\ th' = IF busy THEN Goto("again")
           ELSE Call([th EXCEPT !.op = "IASETUP"], "simple", "reset.iaddr")
  /\ ch' = IF busy THEN HeldChip ELSE ch
  /\ es' = [es EXCEPT !.held = busy]
  /\ UNCHANGED <<mem, ghosts, faults>>

Again ==
  /\ At("again")
  /\ th' = IF th.tries = 1 THEN Return(FALSE) ELSE [Goto("reset") EXCEPT !.tries = @ - 1]
  /\ UNCHANGED <<portVars, es, faults>>

ResetConf ==
  /\ At("reset.iaddr")
  /\ th' = IF ~th.ok THEN Goto("again")
           ELSE Call([th EXCEPT !.op = "CONFIG"], "simple", "reset.conf")
  /\ UNCHANGED <<portVars, es, faults>>

\* Only now, configured, does the interface go on the wire.
OnTheWire ==
  /\ At("reset.conf")
  /\ es' = [es EXCEPT !.wire = @ \/ th.ok]
  /\ th' = IF th.ok THEN Call(th, "ru", "reset.end") ELSE Goto("again")
  /\ UNCHANGED <<portVars, faults>>

ResetEnd ==
  /\ At("reset.end")
  /\ th' = IF th.ok THEN Return(TRUE) ELSE Goto("again")
  /\ UNCHANGED <<portVars, es, faults>>

iereset == ResetChips \/ Zap \/ Busy \/ Again \/ ResetConf \/ OnTheWire \/ ResetEnd

\* A failed open closes: "Make sure we kill chip".
ieopen ==
  /\ At("opened")
  /\ es' = [es EXCEPT !.open = th.ok]
  /\ th' = IF th.ok THEN AtRest ELSE Goto("close")
  /\ UNCHANGED <<portVars, faults>>

\* The chip goes into reset, and loopback is released.
ieclose ==
  /\ At("close")
  /\ ch' = HeldChip
  /\ es' = [es EXCEPT !.open = FALSE, !.held = TRUE, !.wire = TRUE]
  /\ th' = AtRest
  /\ UNCHANGED <<mem, ghosts, faults>>

Driver == \/ iesimple \/ ierustart \/ iexmit \/ iepoll
          \/ ieinit \/ iereset \/ ieopen \/ ieclose
=============================================================================
