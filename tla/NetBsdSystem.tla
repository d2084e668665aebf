---------------------------- MODULE NetBsdSystem ----------------------------
(***************************************************************************)
(* The NetBSD driver, its chip, the network and the host's requests.       *)
(***************************************************************************)
EXTENDS NetBsdIe

CONSTANTS
  UpWhileReady,  \* an interface may come up again with its receiver running
  MaxFaults      \* misfortunes and reconfigurations in a behaviour

ASSUME SystemAssumption ==
  UpWhileReady \in BOOLEAN /\ Prompt \in BOOLEAN /\ MaxFaults \in Nat

vars == <<portVars, drvVars>>

\* i82586_proberam has set the busy word, reset the chip and given it an
\* attention; the board may not be there.
Softc == [rfhead |-> 0, rftail |-> 0, rbhead |-> 0, rbtail |-> 0,
          xchead |-> 0, xctail |-> 0, xmit_busy |-> 0, timer |-> FALSE,
          async |-> FALSE, want_mcsetup |-> FALSE, mcast_count |-> 0,
          running |-> FALSE, up |-> FALSE, filling |-> FALSE, taken |-> 0,
          torn |-> FALSE]

Init ==
  /\ scb = ZeroScb /\ busy = TRUE
  /\ rfds = [f \in Rfds |-> BlankRfd]
  /\ rbds = [b \in Rbds |-> BlankRbd]
  /\ cbs = [c \in Cbs |-> BlankCb]
  /\ \E deaf \in BOOLEAN : ch = [ResetChip(deaf) EXCEPT !.ca = TRUE]
  /\ filed = <<>> /\ owed = <<>> /\ wire = 0
  /\ sc = Softc /\ th = [AtRest EXCEPT !.pc = "probing"]
  /\ board \in Boards
  /\ irq = [latch |-> FALSE, ien |-> board # "ob2", pend |-> FALSE]
  /\ faults = MaxFaults

-----------------------------------------------------------------------------
\* The host.

\* The busy word is looked at, and interrupts acknowledged; a board that left
\* the word set is not attached.
Probe ==
  /\ At("probing") /\ (ch.deaf \/ ~busy)
  /\ th' = Call(th, "ack", IF busy THEN "absent" ELSE "idle")
  /\ UNCHANGED <<portVars, sc, irq, board, faults>>

\* ether_ioctl calls i82586_init and does not repeat it.
IoctlUp ==
  /\ At("idle") /\ ~sc.up /\ ~sc.filling
  /\ UpWhileReady \/ ch.rus # "READY"
  /\ sc' = [sc EXCEPT !.up = TRUE]
  /\ th' = [Call([th EXCEPT !.tries = 2], "init", "idle") EXCEPT !.ret = <<"inited", "idle">>]
  /\ UNCHANGED <<portVars, irq, board, faults>>

\* i82586_stop suspends both units, and that is all.
IoctlDown ==
  /\ At("idle") /\ sc.up /\ ~sc.filling /\ faults > 0
  /\ faults' = faults - 1
  /\ sc' = [sc EXCEPT !.up = FALSE]
  /\ th' = StartCmd(th, BothUnits("SUSPEND"), Null, FALSE, "idle")
  /\ UNCHANGED <<portVars, irq, board>>

\* ie_mc_reset: the list is taken over, the chip told later.
IoctlMulti ==
  /\ At("idle") /\ sc.running /\ ~sc.filling /\ faults > 0
  /\ faults' = faults - 1
  /\ \E n \in {0, 1} :
       sc' = [sc EXCEPT !.mcast_count = n, !.want_mcsetup = TRUE]
  /\ UNCHANGED <<portVars, th, irq, board>>

Host == Probe \/ IoctlUp \/ IoctlDown \/ IoctlMulti \/ Watchdog

-----------------------------------------------------------------------------
Driver ==
  Issue \/ Waited \/ GaveUp \/ IeAck \/ Fine \/ Intr \/ Rint \/ Transmit \/ Initialise

\* The chip's own steps, and a frame from the network.
Chip ==
  /\ ChipStep \/ \E len \in 1..MaxLen : Arrive(len)
  /\ UNCHANGED <<sc, th, board, faults>>
  /\ irq' = Wired(irq)

\* The lockups i82586_reset resets some boards for.
Lockup ==
  /\ ch.up /\ ~ch.deaf /\ sc.running /\ faults > 0
  /\ faults' = faults - 1
  /\ ch' = [ch EXCEPT !.deaf = TRUE]
  /\ UNCHANGED <<mem, ghosts, sc, th, irq, board>>

Next == Driver \/ Host \/ Chip \/ Lockup
Spec == Init /\ [][Next]_vars

-----------------------------------------------------------------------------
\* Properties.

\* What has been filed and not handed over is whole, in order, in the ring
\* buffers that follow the head: nothing the driver gives back or the chip
\* takes ever overlaps a frame still to be read.
Offset(k) == LET len[j \in 0..k] == IF j = 0 THEN 0 ELSE len[j - 1] + filed[j].len
             IN len[k - 1]
Released == IF At("unmark") THEN {1} ELSE {}
FiledKept ==
  sc.running =>
    \A k \in DOMAIN filed \ Released : \A j \in 1..filed[k].len :
      rbds[Nth(Offset(k) + j)].data = [id |-> filed[k].id, part |-> j]

\* The frame the driver is about to hand up is the oldest one filed: as many
\* buffers, and the descriptors are never found out of step with the chip.
DeliveredWhole ==
  At("gather") => filed # <<>> /\ Head(filed).len \in Counts

\* A receiver that stopped for want of resources is restarted where it
\* stopped: no frame between the heads and the chip's own place.
RestartWhereStopped ==
  At("restart") /\ th.ret # <<>> /\ Head(th.ret) \in {"tint", "hook"} =>
    filed = <<>> /\ ch.rus = "NO_RESOURCE" /\ ch.rfd = sc.rfhead

\* A lone RNR means what the comment in rint says: the ring is checked and the
\* receiver restarted at the current point, not the whole chip reset.
RnrRestarts ==
  (At("reset") /\ th.ret = <<"exit">> /\ "RNR" \in th.st.flags
     /\ ch.rus = "NO_RESOURCE" /\ sc.up) => ~RingChecked

\* The frame being sent is the oldest the host gave and the chip has not sent.
TransmitInOrder ==
  ch.cuStep = "run" /\ cbs[ch.cb].op = "XMIT" =>
    owed # <<>> /\ cbs[ch.cb].data = Head(owed)
TransmitInOrderUncut == sc.torn \/ TransmitInOrder

\* While the driver waits for a transmission there is one: the command is on
\* its way to the chip, under way, or over with its completion still to be
\* told.  Otherwise only the watchdog would notice, five seconds later.  The
\* slots in use are never more than there are, nor fewer than none.
NoLostTransmission ==
  At("idle") /\ sc.up /\ sc.running /\ ch.up /\ ~ch.deaf /\ ~sc.torn =>
    /\ sc.xmit_busy \in 0..NTXBUF
    /\ sc.xmit_busy > 0 => \/ ch.ca /\ scb.cmd.cuc = "START"
                           \/ ch.cuStep # "none"
                           \/ "CX" \in ch.flags

\* When the driver is back at rest a line that is up has interrupted.
NoLostInterrupt ==
  At("idle") /\ sc.up /\ sc.running /\ ~ch.deaf /\ Line => InterruptWanted

\* The bound of the run: three frames in all, received or sent.
FewFrames == wire + sc.taken < 4
=============================================================================
