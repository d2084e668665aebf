------------------------------ MODULE NetBsdIe ------------------------------
(***************************************************************************)
(* The NetBSD driver: its softc, the interrupt routine, the receive ring,  *)
(* the transmit slots, reset and initialisation, over three boards' glue.  *)
(* One control flow runs at a time, at splnet; its calls are kept on a     *)
(* stack of return labels.  A step is one group of accesses the chip       *)
(* cannot be in the middle of.  NetBsdSystem adds the chip and the host.   *)
(***************************************************************************)
EXTENDS ChipPort, Integers

CONSTANTS
  nframes, nrxbuf,  \* the receive rings, sized by setup_bufs
  NTXBUF,           \* transmit slots
  Sends,            \* the host gives at most this many frames
  Boards,           \* which of "ef" (3C507), "ai" (StarLAN), "ob2" (Sun-2)
  Prompt            \* the handler outruns the driver's bus accesses

ASSUME RingAssumption ==
  /\ nframes \in Nat \ {0, 1} /\ nrxbuf \in Nat /\ NTXBUF \in Nat \ {0}
  /\ MaxLen < nrxbuf   \* a frame never takes the whole ring
  /\ Rfds = 0..(nframes - 1) /\ Rbds = 0..(nrxbuf - 1) /\ Cbs = 0..NTXBUF
  /\ Boards \subseteq {"ef", "ai", "ob2"}

VARIABLES
  sc,      \* the softc
  th,      \* the control flow: where it is, what it returns to, its locals
  irq,     \* the board's interrupt latch and enable, and the host's pending
  board,   \* the board found
  faults   \* how many misfortunes are still to come

drvVars == <<sc, th, irq, board, faults>>
mem == <<scb, busy, rfds, rbds, cbs>>
ghosts == <<filed, owed, wire>>

Cmd == NTXBUF   \* the block the simple commands use

\* No flow: its locals die with it.
AtRest == [pc |-> "idle", ret |-> <<>>, ok |-> TRUE, op |-> "NOP",
            st |-> [flags |-> {}, rus |-> "IDLE"], n |-> 0, tries |-> 0,
            cmd |-> NoCommand, buf |-> Null, async |-> FALSE]

At(l) == th.pc = l
Goto(l) == [th EXCEPT !.pc = l]
Call(t, l, back) == [t EXCEPT !.pc = l, !.ret = <<back>> \o @]
Return(ok) ==
  IF Head(th.ret) = "idle" THEN AtRest
  ELSE [th EXCEPT !.pc = Head(th.ret), !.ret = Tail(th.ret), !.ok = ok]

-----------------------------------------------------------------------------
\* Interrupts.

\* i is the interrupt state after the step's own doing.  The 3C507 latches a
\* rising line and interrupts when latch and enable first agree, StarLAN on
\* the edge, the Sun-2 for as long as the line is up.
Wired(i) ==
  LET rises == ~Line /\ Line'
      latch == i.latch \/ rises
  IN [i EXCEPT !.latch = latch,
               !.pend = \/ @
                        \/ board = "ai" /\ rises
                        \/ /\ board = "ef" /\ latch /\ i.ien
                           /\ ~(irq.latch /\ irq.ien)]

InterruptWanted == IF board = "ob2" THEN Line /\ irq.ien ELSE irq.pend

\* What the hooks do: only the 3C507 has one.
HookEnter == IF board = "ef" THEN [latch |-> FALSE, ien |-> FALSE, pend |-> FALSE]
             ELSE [irq EXCEPT !.pend = FALSE]
HookLoop  == IF board = "ef" THEN [irq EXCEPT !.latch = FALSE] ELSE irq
\* (Mutant: new interrupts acknowledged on the way out.)
HookExitAcking == IF board = "ef" THEN [irq EXCEPT !.ien = TRUE, !.latch = FALSE]
                  ELSE irq

HookExit  == IF board = "ef" THEN [irq EXCEPT !.ien = TRUE] ELSE irq

hwinit == IF board = "ef" THEN [irq EXCEPT !.latch = FALSE]
          ELSE IF board = "ob2" THEN [irq EXCEPT !.ien = TRUE] ELSE irq

-----------------------------------------------------------------------------
\* i82586_start_cmd and i82586_cmd_wait.

Ack(fl)    == [NoCommand EXCEPT !.ack = fl]
Cuc(c)     == [NoCommand EXCEPT !.cuc = c]
Ruc(c)     == [NoCommand EXCEPT !.ruc = c]
BothUnits(c) == [NoCommand EXCEPT !.cuc = c, !.ruc = c]

\* Control goes to start_cmd, and from there to back.
StartCmd(t, c, buf, async, back) ==
  [Call(t, "issue", back) EXCEPT !.cmd = c, !.buf = buf, !.async = async]

\* A unit is off a block within cycles of its status word; the driver's next
\* word is several bus accesses away.  That the handler too has told by then
\* what it has to tell is an assumption, Prompt.
Settled ==
  /\ ch.cuStep # "end"
  /\ Prompt => ~HandlerOwes /\ (ch.up /\ ~ch.deaf => scb.status = ShownStatus)

\* What the flow is spinning on: the command word, or the block's status.
Awaited ==
  CASE At("issue") -> sc.async => scb.cmd = NoCommand
    [] At("wait") /\ th.cmd.cuc = "START" /\ th.buf # Null -> cbs[th.buf].done
    [] OTHER -> scb.cmd = NoCommand

\* Spinning ends without it only when it will not come.
Hopeless ==
  ~Awaited /\ ~HandlerOwes /\ ~(ch.cuStep # "none" /\ ch.cb = th.buf)

\* (Mutant: the last command is not waited for.)
IssueAtOnce ==
  /\ At("issue")
  /\ scb' = [scb EXCEPT !.cmd = th.cmd]
  /\ Attention
  /\ sc' = [sc EXCEPT !.async = th.async]
  /\ th' = IF th.async THEN Return(TRUE) ELSE Goto("wait")
  /\ UNCHANGED <<busy, rfds, rbds, cbs, ghosts, board, faults>>
  /\ irq' = Wired(irq)

Issue ==
  /\ At("issue") /\ Awaited /\ Settled
  /\ scb' = [scb EXCEPT !.cmd = th.cmd]
  /\ Attention
  /\ sc' = [sc EXCEPT !.async = th.async]
  /\ th' = IF th.async THEN Return(TRUE) ELSE Goto("wait")
  /\ UNCHANGED <<busy, rfds, rbds, cbs, ghosts, board, faults>>
  /\ irq' = Wired(irq)

Waited ==
  /\ At("wait") /\ (Awaited \/ Hopeless)
  /\ th' = Return(Awaited)
  /\ UNCHANGED <<portVars, sc, irq, board, faults>>

GaveUp ==
  /\ At("issue") /\ Hopeless
  /\ th' = Return(FALSE)
  /\ UNCHANGED <<portVars, sc, irq, board, faults>>

\* ie_ack: what the status word shows is acknowledged, whatever comes of it.
IeAck ==
  /\ At("ack") /\ Settled
  /\ th' = StartCmd(th, Ack(scb.status.flags), Null, FALSE, "fine")
  /\ UNCHANGED <<portVars, sc, irq, board, faults>>

Fine ==
  /\ At("fine")
  /\ th' = Return(TRUE)
  /\ UNCHANGED <<portVars, sc, irq, board, faults>>

-----------------------------------------------------------------------------
\* i82586_intr.

\* (Mutant: either the receiver or the transmitter is looked after.)
AfterRintElse(fl) == "hook"

AfterRint(fl) ==
  IF "CX" \in fl THEN "tint" ELSE "hook"
AfterAck(fl)  == IF fl \cap {"FR", "RNR"} # {} THEN "rint" ELSE AfterRint(fl)

\* The pass begins: acknowledge first, without waiting.
Pass(st) ==
  StartCmd([th EXCEPT !.st = st], Ack(st.flags), Null, TRUE, AfterAck(st.flags))

IntrEnter ==
  /\ At("idle") /\ InterruptWanted
  /\ th' = Goto("read")
  /\ UNCHANGED <<portVars, sc, board, faults>>
  /\ irq' = Wired(HookEnter)

\* The first look at the status keeps only its four flags.
FirstLook == [flags |-> scb.status.flags, rus |-> "IDLE"]

IntrRead ==
  /\ At("read")
  /\ th' = IF scb.status.flags = {} THEN Goto("exit") ELSE Pass(FirstLook)
  /\ UNCHANGED <<portVars, sc, irq, board, faults>>

IntrHook ==
  /\ At("hook")
  /\ th' = Goto("reread")
  /\ UNCHANGED <<portVars, sc, board, faults>>
  /\ irq' = Wired(HookLoop)

\* The acknowledgement is waited for, and the status read again, whole.
IntrLoop ==
  /\ At("reread") /\ (Awaited \/ Hopeless)
  /\ th' = IF ~Awaited THEN Call(th, "reset", "exit")
           ELSE IF scb.status.flags = {} THEN Goto("exit")
           ELSE Pass([flags |-> scb.status.flags, rus |-> scb.status.rus])
  /\ UNCHANGED <<portVars, sc, irq, board, faults>>

IntrExit ==
  /\ At("exit")
  /\ th' = AtRest
  /\ UNCHANGED <<portVars, sc, board, faults>>
  /\ irq' = Wired(HookExit)

Intr == IntrEnter \/ IntrRead \/ IntrHook \/ IntrLoop \/ IntrExit

-----------------------------------------------------------------------------
\* i82586_rint and ie_readframe.

After(n, i) == (i + 1) % n

\* A frame has been filed in the descriptor at the head: its status cleared,
\* the fence put there, the buffer link cut.
Fence ==
  /\ At("rint") /\ rfds[sc.rfhead].done
  /\ rfds' = [rfds EXCEPT ![sc.rfhead] =
                [@ EXCEPT !.done = FALSE, !.el = TRUE, !.rbd = Null]]
  /\ th' = Goto("unfence")
  /\ UNCHANGED <<scb, busy, rbds, cbs, ch, ghosts, sc, irq, board, faults>>

\* The fence comes off the old tail, and both ends move on.
Unfence ==
  /\ At("unfence")
  /\ rfds' = [rfds EXCEPT ![sc.rftail].el = FALSE]
  /\ sc' = [sc EXCEPT !.rftail = After(nframes, @), !.rfhead = After(nframes, @)]
  /\ th' = Goto("gather")
  /\ UNCHANGED <<scb, busy, rbds, cbs, ch, ghosts, irq, board, faults>>

\* The k-th buffer of the ring from the head.
Nth(k) == (sc.rbhead + k - 1) % nrxbuf

\* get_rbd_list: the buffers up to the one marked last, all of them used.
Counts == {k \in 1..nrxbuf : /\ rbds[Nth(k)].last
                             /\ \A j \in 1..(k - 1) : ~rbds[Nth(j)].last
                             /\ \A j \in 1..k : rbds[Nth(j)].used}

\* ieget may find no mbuf; then the frame is lost and its buffers go back.
Gather ==
  /\ At("gather")
  /\ IF Counts = {} THEN th' = Call(th, "reset", "exit") /\ faults' = faults
     ELSE \E kept \in BOOLEAN :
            /\ kept \/ faults > 0
            /\ faults' = IF kept THEN faults ELSE faults - 1
            /\ th' = [Goto("free") EXCEPT !.n = CHOOSE k \in Counts : TRUE]
  /\ UNCHANGED <<portVars, sc, irq, board>>

\* (Mutant: the new tail is not marked.)
FreeUnmarked ==
  /\ At("free")
  /\ LET run == {Nth(k) : k \in 1..th.n}
     IN rbds' = [b \in Rbds |->
                  IF b \in run
                  THEN [rbds[b] EXCEPT !.used = FALSE, !.last = FALSE, !.data = NoData]
                  ELSE rbds[b]]
  /\ th' = Goto("unmark")
  /\ UNCHANGED <<scb, busy, rfds, cbs, ch, ghosts, sc, irq, board, faults>>

\* release_rbd_list: the buffers are cleared, what is in them being nobody's,
\* and the new tail marked...
Free ==
  /\ At("free")
  /\ LET run == {Nth(k) : k \in 1..th.n}
     IN rbds' = [b \in Rbds |->
                  IF b \in run
                  THEN [rbds[b] EXCEPT !.used = FALSE, !.last = FALSE, !.data = NoData,
                                       !.el = @ \/ b = Nth(th.n)]
                  ELSE rbds[b]]
  /\ th' = Goto("unmark")
  /\ UNCHANGED <<scb, busy, rfds, cbs, ch, ghosts, sc, irq, board, faults>>

\* (Mutant: the next head is one short.)
UnmarkShort ==
  /\ At("unmark")
  /\ rbds' = [rbds EXCEPT ![sc.rbtail].el = FALSE]
  /\ sc' = [sc EXCEPT !.rbhead = Nth(2), !.rbtail = Nth(th.n)]
  /\ filed' = IF filed = <<>> THEN <<>> ELSE Tail(filed)
  /\ th' = Goto("rint")
  /\ UNCHANGED <<scb, busy, rfds, cbs, ch, owed, wire, irq, board, faults>>

\* ...then the mark comes off the old one; the frame is the stack's.
Unmark ==
  /\ At("unmark")
  /\ rbds' = [rbds EXCEPT ![sc.rbtail].el = FALSE]
  /\ sc' = [sc EXCEPT !.rbhead = Nth(th.n + 1), !.rbtail = Nth(th.n)]
  /\ filed' = IF filed = <<>> THEN <<>> ELSE Tail(filed)
  /\ th' = Goto("rint")
  /\ UNCHANGED <<scb, busy, rfds, cbs, ch, owed, wire, irq, board, faults>>

\* chk_rx_ring: marked exactly where the tails point.
RingChecked == /\ \A b \in Rbds : rbds[b].el <=> b = sc.rbtail
               /\ \A f \in Rfds : rfds[f].el <=> f = sc.rftail

\* (Mutant: the receiver is seen to before the frames are.)
DrainedLater ==
  /\ At("rint") /\ (~rfds[sc.rfhead].done \/ "RNR" \in th.st.flags)
  /\ LET on == AfterRint(th.st.flags)
     IN th' = CASE "RNR" \notin th.st.flags -> Goto(on)
                [] th.st.rus = "SUSPENDED" ->
                     StartCmd(th, Ruc("RESUME"), Null, FALSE, "resumed")
                [] th.st.rus = "NO_RESOURCE" /\ RingChecked ->
                     Call(th, "restart", on)
                [] OTHER -> Call(th, "reset", "exit")
  /\ UNCHANGED <<portVars, sc, irq, board, faults>>

\* The frames are drained; then, was the receiver not ready?  A suspended one
\* is resumed, one without resources restarted over a sound ring, and for
\* anything else the driver asks for a reset.
Drained ==
  /\ At("rint") /\ ~rfds[sc.rfhead].done
  /\ LET on == AfterRint(th.st.flags)
     IN th' = CASE "RNR" \notin th.st.flags -> Goto(on)
                [] th.st.rus = "SUSPENDED" ->
                     StartCmd(th, Ruc("RESUME"), Null, FALSE, "resumed")
                [] th.st.rus = "NO_RESOURCE" /\ RingChecked ->
                     Call(th, "restart", on)
                [] OTHER -> Call(th, "reset", "exit")
  /\ UNCHANGED <<portVars, sc, irq, board, faults>>

Resumed ==
  /\ At("resumed")
  /\ th' = IF th.ok THEN Goto(AfterRint(th.st.flags)) ELSE Call(th, "reset", "exit")
  /\ UNCHANGED <<portVars, sc, irq, board, faults>>

\* start_transceiver: the receiver starts at the heads.
Restart ==
  /\ At("restart")
  /\ rfds' = [rfds EXCEPT ![sc.rfhead].rbd = sc.rbhead]
  /\ scb' = [scb EXCEPT !.rfa = sc.rfhead]
  /\ th' = StartCmd(th, Ruc("START"), Null, FALSE, "fine")
  /\ UNCHANGED <<busy, rbds, cbs, ch, ghosts, sc, board, faults>>
  /\ irq' = Wired(irq)

Rint == Fence \/ Unfence \/ Gather \/ Free \/ Unmark \/ Drained \/ Resumed \/ Restart

-----------------------------------------------------------------------------
\* i82586_tint, iexmit and i82586_start.

\* iexmit: the slot at the tail becomes a list of one.
XmitBlock(c)  == [cbs EXCEPT ![c] = [@ EXCEPT !.op = "XMIT", !.i = TRUE, !.done = FALSE]]
Iexmit(c, back) ==
  /\ cbs' = XmitBlock(c)
  /\ scb' = [scb EXCEPT !.cbl = c]
  /\ th' = StartCmd(th, Cuc("START"), Null, TRUE, back)

\* A command of the driver's is done.  A multicast list that changed while the
\* transmitter was busy is loaded first.
Tint ==
  /\ At("tint")
  /\ sc' = [sc EXCEPT !.timer = FALSE]
  /\ th' = IF sc.want_mcsetup /\ sc.mcast_count > 0
           THEN Call([th EXCEPT !.op = "MCAST"], "setup", "txdone")
           ELSE Goto("txdone")
  /\ UNCHANGED <<portVars, irq, board, faults>>

\* (Mutant: the tail stays where it is.)
XmitNextSame == sc.xctail

\* The slot is free, and the next, if any, goes out.
XmitNext == After(NTXBUF, sc.xctail)

TxDone ==
  /\ At("txdone")
  /\ sc' = [sc EXCEPT !.want_mcsetup = FALSE, !.xctail = XmitNext,
                      !.xmit_busy = @ - 1, !.timer = sc.xmit_busy > 1]
  /\ IF sc.xmit_busy > 1 THEN Iexmit(XmitNext, "hook")
     ELSE th' = Goto("hook") /\ UNCHANGED <<cbs, scb>>
  /\ UNCHANGED <<busy, rfds, rbds, ch, ghosts, board, faults>>
  /\ irq' = Wired(irq)

\* i82586_start copies a frame into the slot at the head, with interrupts
\* open.  The stack gives frames only to an interface that is up.
StartFill ==
  /\ At("idle") /\ ~sc.filling /\ sc.up /\ sc.running /\ sc.xmit_busy < NTXBUF
  /\ sc.taken < Sends
  /\ cbs' = [cbs EXCEPT ![sc.xchead].data = sc.taken]
  /\ owed' = Append(owed, sc.taken)
  /\ sc' = [sc EXCEPT !.xchead = After(NTXBUF, @), !.taken = @ + 1, !.filling = TRUE]
  /\ UNCHANGED <<scb, busy, rfds, rbds, ch, filed, wire, th, irq, board, faults>>

\* Then, with interrupts closed, it goes out if nothing else is.
StartGo ==
  /\ At("idle") /\ sc.filling
  /\ sc' = [sc EXCEPT !.filling = FALSE, !.xmit_busy = @ + 1,
                      !.timer = @ \/ sc.xmit_busy = 0]
  /\ IF sc.xmit_busy = 0 THEN Iexmit(sc.xctail, "idle")
     ELSE UNCHANGED <<cbs, scb, th>>
  /\ UNCHANGED <<busy, rfds, rbds, ch, ghosts, board, faults>>
  /\ irq' = Wired(irq)

Transmit == Tint \/ TxDone \/ StartFill \/ StartGo

-----------------------------------------------------------------------------
\* i82586_reset, i82586_init and what they call.

\* Five seconds and no interrupt.
Watchdog ==
  /\ At("idle") /\ sc.timer /\ faults > 0
  /\ faults' = faults - 1
  /\ th' = Call(th, "reset", "idle")
  /\ UNCHANGED <<portVars, sc, irq, board>>

Reset ==
  /\ At("reset")
  /\ sc' = [sc EXCEPT !.timer = FALSE]
  /\ th' = StartCmd(th, BothUnits("ABORT"), Null, FALSE, "aborted")
  /\ UNCHANGED <<portVars, irq, board, faults>>

\* Only the Sun-2 board resets the chip, which may not survive it; interrupts
\* are then off until hwinit.
HwReset ==
  /\ At("aborted")
  /\ UNCHANGED <<mem, ghosts, sc, board>>
  /\ IF board = "ob2"
     THEN \E deaf \in BOOLEAN :
            /\ deaf => faults > 0
            /\ faults' = IF deaf THEN faults - 1 ELSE faults
            /\ ch' = ResetChip(deaf)
            /\ irq' = Wired([irq EXCEPT !.ien = FALSE])
     ELSE UNCHANGED <<faults, ch, irq>>
  /\ th' = Call(th, "ack", "reinit")

\* An interface that is up is initialised, at most twice.
Reinit ==
  /\ At("reinit")
  /\ th' = IF sc.up THEN Call([th EXCEPT !.tries = 1], "init", "inited")
           ELSE Return(TRUE)
  /\ UNCHANGED <<portVars, sc, irq, board, faults>>

Inited ==
  /\ At("inited")
  /\ th' = IF th.ok \/ th.tries = 2 THEN Return(TRUE)
           ELSE Call([th EXCEPT !.tries = 2], "init", "inited")
  /\ UNCHANGED <<portVars, sc, irq, board, faults>>

Init1 ==
  /\ At("init")
  /\ sc' = [sc EXCEPT !.async = FALSE]
  /\ th' = Call([th EXCEPT !.op = "CONFIG"], "setup", "initstep")
  /\ UNCHANGED <<portVars, irq, board, faults>>

\* setup_simple_command, and its start.
Setup ==
  /\ At("setup")
  /\ cbs' = [cbs EXCEPT ![Cmd] = [op |-> th.op, i |-> FALSE, done |-> FALSE, data |-> Null]]
  /\ scb' = [scb EXCEPT !.cbl = Cmd]
  /\ th' = StartCmd(th, Cuc("START"), Cmd, FALSE, "ran")
  /\ UNCHANGED <<busy, rfds, rbds, ch, ghosts, sc, board, faults>>
  /\ irq' = Wired(irq)

\* What it caused is acknowledged; a reflectometer that failed is put up with.
Ran ==
  /\ At("ran")
  /\ th' = IF th.ok \/ th.op = "TDR" THEN Goto("ack") ELSE Return(FALSE)
  /\ UNCHANGED <<portVars, sc, irq, board, faults>>

InitStep ==
  /\ At("initstep")
  /\ LET next == CASE th.op = "CONFIG" -> "IASETUP"
                   [] th.op = "IASETUP" -> "TDR"
                   [] th.op = "TDR" /\ sc.mcast_count > 0 -> "MCAST"
                   [] OTHER -> "none"
     IN th' = IF ~th.ok THEN Return(FALSE)
              ELSE IF next = "none" THEN Call(th, "ack", "bufs")
              ELSE Call([th EXCEPT !.op = next], "setup", "initstep")
  /\ UNCHANGED <<portVars, sc, irq, board, faults>>

\* setup_bufs lays out both rings and empties the slots; then the receiver is
\* started.  What was filed or accepted before is forgotten.
Bufs ==
  /\ At("bufs")
  /\ rfds' = [f \in Rfds |-> [BlankRfd EXCEPT !.next = After(nframes, f),
                                             !.el = f = nframes - 1]]
  /\ rbds' = [b \in Rbds |-> [BlankRbd EXCEPT !.next = After(nrxbuf, b), !.el = b = nrxbuf - 1]]
  /\ sc' = [sc EXCEPT !.xchead = 0, !.xctail = 0, !.xmit_busy = 0,
                      !.rfhead = 0, !.rftail = nframes - 1,
                      !.rbhead = 0, !.rbtail = nrxbuf - 1, !.running = TRUE,
                      !.torn = @ \/ sc.filling]
  /\ filed' = <<>> /\ owed' = <<>>
  /\ th' = Goto("restart")
  /\ UNCHANGED <<scb, busy, cbs, ch, wire, board, faults>>
  /\ irq' = Wired(hwinit)

Initialise == Reset \/ HwReset \/ Reinit \/ Inited \/ Init1 \/ Setup \/ Ran \/ InitStep \/ Bufs
=============================================================================
