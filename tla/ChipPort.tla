------------------------------ MODULE ChipPort ------------------------------
(***************************************************************************)
(* The chip as its driver meets it: shared memory, the attention line and  *)
(* the order in which the three units touch the descriptors.  The cycles   *)
(* of ie_core, ie_cu and ie_ru are the subject of Scb, CommandSystem and   *)
(* ReceiveSystem; here a step is one group of accesses that no driver can  *)
(* see halfway.  The module has no Next: NetBsdSystem and RomSystem own    *)
(* the variables and add the driver.                                       *)
(***************************************************************************)
EXTENDS ScbTypes, Naturals, Sequences

CONSTANTS
  Rfds,       \* receive frame descriptors
  Rbds,       \* receive buffer descriptors
  Cbs,        \* command blocks
  Frames,     \* the network offers at most this many frames
  MaxLen,     \* the longest frame, in receive buffers
  Null        \* the link 0xFFFF

ASSUME PortAssumption ==
  /\ Frames \in Nat /\ MaxLen \in Nat \ {0}
  /\ Null \notin Rfds \cup Rbds \cup Cbs

VARIABLES
  scb,     \* the System Control Block
  busy,    \* the busy word of the ISCP
  rfds,    \* [Rfds -> ...]
  rbds,    \* [Rbds -> ...]
  cbs,     \* [Cbs -> ...]
  ch,      \* the chip's registers
  filed,   \* ghost: frames filed and not yet given to the host's stack
  owed,    \* ghost: frames the host accepted and the chip has not yet sent
  wire     \* ghost: how many frames have arrived; the next one's identity

portVars == <<scb, busy, rfds, rbds, cbs, ch, filed, owed, wire>>

\* The sequence s but for what is in gone.
Without(s, gone) ==
  LET kept[n \in 0..Len(s)] ==
        IF n = 0 THEN <<>>
        ELSE IF s[n] \in gone THEN kept[n - 1] ELSE Append(kept[n - 1], s[n])
  IN  kept[Len(s)]

NoData == [id |-> Null, part |-> 0]
Nobody == [id |-> Null, len |-> 0]

\* The registers after reset.  A deaf chip does not answer attentions: a board
\* that is not there, one the reset left hanging, one that has locked up.
ResetChip(deaf) ==
  [up |-> FALSE, deaf |-> deaf, ca |-> FALSE, core |-> "idle", flags |-> {},
   cus |-> "IDLE", cb |-> Null, cuStep |-> "none", abort |-> FALSE,
   rus |-> "IDLE", rfd |-> Null, rbd |-> Null, el |-> FALSE, rx |-> "none",
   frame |-> Nobody, part |-> 0, first |-> Null, firstEl |-> FALSE,
   last |-> FALSE, suspend |-> FALSE]

\* What the driver's attention does: latched, and lost on a deaf chip.
Attention == ch' = [ch EXCEPT !.ca = TRUE]

ZeroScb == [status |-> ZeroStatus, cmd |-> NoCommand, cbl |-> Null, rfa |-> Null]
BlankRfd == [done |-> FALSE, el |-> FALSE, next |-> Null, rbd |-> Null]
BlankRbd == [used |-> FALSE, last |-> FALSE, el |-> FALSE, next |-> Null,
             data |-> NoData]
BlankCb  == [op |-> "NOP", i |-> FALSE, done |-> FALSE, data |-> Null]

ShownStatus == [flags |-> ch.flags, cus |-> ch.cus, rus |-> ch.rus]

\* The interrupt line follows the flags last published.
Line == ch.up /\ scb.status.flags # {}

-----------------------------------------------------------------------------
\* The SCB handler.

\* The first attention after reset: the chip reads SCP and ISCP and clears
\* the busy word; then it announces CX and CNA.
Wake ==
  /\ ch.ca /\ ~ch.deaf /\ ~ch.up /\ ch.core = "idle"
  /\ busy' = FALSE
  /\ ch' = [ch EXCEPT !.ca = FALSE, !.core = "waking"]
  /\ UNCHANGED <<scb, rfds, rbds, cbs, filed, owed, wire>>

Announce ==
  /\ ch.core = "waking"
  /\ ch' = [ch EXCEPT !.up = TRUE, !.core = "idle", !.flags = {"CX", "CNA"}]
  /\ scb' = [scb EXCEPT !.status = [ZeroStatus EXCEPT !.flags = {"CX", "CNA"}]]
  /\ UNCHANGED <<busy, rfds, rbds, cbs, filed, owed, wire>>

\* What a control does to the command unit: START only when it is not
\* active, and ABORT only once the command under way is over.
CuTold(c) ==
  CASE c.cuc = "START" /\ ch.cus # "ACTIVE" ->
         [ch EXCEPT !.cus = "ACTIVE", !.cb = scb.cbl, !.cuStep = "run",
                    !.abort = FALSE]
    [] c.cuc = "ABORT" /\ ch.cus = "ACTIVE" -> [ch EXCEPT !.abort = TRUE]
    [] OTHER -> ch

\* Between frames the registers of the last one mean nothing.
Cleared(r) == [r EXCEPT !.frame = Nobody, !.part = 0, !.first = Null,
                    !.firstEl = FALSE, !.last = FALSE]

\* And to the receive unit, on the registers r: START is not looked at while
\* it is ready, SUSPEND waits for the end of a frame, ABORT is immediate.
RuTold(c, r) ==
  CASE c.ruc = "START" /\ r.rus # "READY" ->
         [r EXCEPT !.rus = "READY", !.rfd = scb.rfa, !.rx = "arm",
                   !.suspend = FALSE]
    [] c.ruc = "RESUME" /\ r.rus \in {"SUSPENDED", "NO_RESOURCE"} ->
         [r EXCEPT !.rus = "READY", !.rx = "arm"]
    [] c.ruc = "SUSPEND" /\ r.rus = "READY" -> [r EXCEPT !.suspend = TRUE]
    [] c.ruc = "ABORT" ->
         [Cleared(r) EXCEPT !.rus = "IDLE", !.rx = "none", !.suspend = FALSE]
    [] OTHER -> r

\* A receive unit that an abort stops says so.
Stopped(c) ==
  IF c.ruc = "ABORT" /\ ch.rus \notin {"IDLE", "SUSPENDED"} THEN {"RNR"} ELSE {}

\* An attention: the command word is read, its acknowledgements and controls
\* take effect; an event of the same moment wins over its acknowledgement.
TakeCommand ==
  /\ ch.up /\ ch.ca /\ ~ch.deaf /\ ch.core = "idle"
  /\ LET c == scb.cmd
     IN ch' = [RuTold(c, CuTold(c)) EXCEPT
                 !.ca = FALSE, !.core = "answer",
                 !.flags = (@ \ c.ack) \cup Stopped(c)]
  /\ UNCHANGED <<scb, busy, rfds, rbds, cbs, filed, owed, wire>>

\* The status is written, then the command word is cleared.
Answer ==
  /\ ch.core = "answer"
  /\ scb' = [scb EXCEPT !.status = ShownStatus, !.cmd = NoCommand]
  /\ ch' = [ch EXCEPT !.core = "idle"]
  /\ UNCHANGED <<busy, rfds, rbds, cbs, filed, owed, wire>>

\* A status that has gone stale is written when nothing is asked.
Publish ==
  /\ ch.up /\ ch.core = "idle" /\ ~ch.ca /\ scb.status # ShownStatus
  /\ scb' = [scb EXCEPT !.status = ShownStatus]
  /\ UNCHANGED <<busy, rfds, rbds, cbs, ch, filed, owed, wire>>

HandlerOwes == ch.core # "idle" \/ (ch.ca /\ ~ch.deaf)

Handler == Wake \/ Announce \/ TakeCommand \/ Answer \/ Publish

-----------------------------------------------------------------------------
\* The command unit.  Its drivers give it lists of one block.

\* The command is done: its status word is written.  The handler's two writes
\* are over long before.
CuComplete ==
  /\ ch.cuStep = "run" /\ ch.core # "answer"
  /\ cbs' = [cbs EXCEPT ![ch.cb].done = TRUE]
  /\ owed' = IF cbs[ch.cb].op = "XMIT"
             THEN Without(owed, {cbs[ch.cb].data}) ELSE owed
  /\ ch' = [ch EXCEPT !.cuStep = "end"]
  /\ UNCHANGED <<scb, busy, rfds, rbds, filed, wire>>

\* CX if the block asks for it; the list is at its end, or aborted: CNA.
CuEnd ==
  /\ ch.cuStep = "end"
  /\ ch' = [ch EXCEPT !.cuStep = "none", !.cus = "IDLE", !.abort = FALSE,
                      !.flags = @ \cup {"CNA"}
                                  \cup (IF cbs[ch.cb].i THEN {"CX"} ELSE {})]
  /\ UNCHANGED <<scb, busy, rfds, rbds, cbs, filed, owed, wire>>

CommandUnit == CuComplete \/ CuEnd

-----------------------------------------------------------------------------
\* The receive unit.

\* After a start: the descriptor's buffer list.  EL is latched with the size
\* when a buffer is armed, which may be long before it is used.
ArmFirst ==
  /\ ch.rx = "arm"
  /\ LET b == rfds[ch.rfd].rbd
     IN ch' = IF b = Null
              THEN [ch EXCEPT !.rus = "NO_RESOURCE", !.rx = "none"]
              ELSE [ch EXCEPT !.rbd = b, !.el = rbds[b].el, !.rx = "ready"]
  /\ UNCHANGED <<scb, busy, rfds, rbds, cbs, filed, owed, wire>>

\* A frame begins; where it starts is kept, to go back to.
Arrive(len) ==
  /\ ch.rx = "ready" /\ wire < Frames
  /\ ch' = [ch EXCEPT !.rx = "fill", !.frame = [id |-> wire, len |-> len],
                      !.part = 1, !.first = ch.rbd, !.firstEl = ch.el]
  /\ wire' = wire + 1
  /\ UNCHANGED <<scb, busy, rfds, rbds, cbs, filed, owed>>

Filled(last) ==
  rbds' = [rbds EXCEPT ![ch.rbd] =
             [@ EXCEPT !.used = TRUE, !.last = last,
                       !.data = [id |-> ch.frame.id, part |-> ch.part]]]

\* A buffer is full and the frame goes on: into the next one, or, when this
\* was the last of the list, nowhere: the frame is dropped and rewound.
FillOn ==
  /\ ch.rx = "fill" /\ ch.part < ch.frame.len
  /\ Filled(FALSE)
  /\ LET b == rbds[ch.rbd].next
     IN ch' = IF ch.el
              THEN [Cleared(ch) EXCEPT !.rx = "ready", !.rbd = ch.first,
                                   !.el = ch.firstEl]
              ELSE [ch EXCEPT !.rbd = b, !.el = rbds[b].el, !.part = @ + 1]
  /\ UNCHANGED <<scb, busy, rfds, cbs, filed, owed, wire>>

\* The frame is over: its last buffer is closed, the descriptor is given its
\* buffers and its own EL is read.
FillEnd ==
  /\ ch.rx = "fill" /\ ch.part = ch.frame.len
  /\ Filled(TRUE)
  /\ rfds' = [rfds EXCEPT ![ch.rfd].rbd = ch.first]
  /\ ch' = [ch EXCEPT !.rx = "file", !.last = rfds[ch.rfd].el]
  /\ UNCHANGED <<scb, busy, cbs, filed, owed, wire>>

\* The descriptor's status is written, and FR tells.
File ==
  /\ ch.rx = "file"
  /\ rfds' = [rfds EXCEPT ![ch.rfd].done = TRUE]
  /\ filed' = Append(filed, ch.frame)
  /\ ch' = [ch EXCEPT !.rx = "link", !.flags = @ \cup {"FR"},
                      !.frame = Nobody, !.part = 0]
  /\ UNCHANGED <<scb, busy, rbds, cbs, owed, wire>>

\* On to the next descriptor and the next buffer, unless a list has ended or
\* the unit was told to suspend.
Advance ==
  /\ ch.rx = "link"
  /\ LET r == [Cleared(ch) EXCEPT !.rfd = rfds[ch.rfd].next]
         b == rbds[ch.rbd].next
     IN ch' = IF ch.last \/ ch.el
              THEN [r EXCEPT !.rx = "none", !.rus = "NO_RESOURCE", !.el = FALSE,
                             !.flags = @ \cup {"RNR"}]
              ELSE IF ch.suspend
              THEN [r EXCEPT !.rx = "none", !.rus = "SUSPENDED",
                             !.suspend = FALSE, !.flags = @ \cup {"RNR"}]
              ELSE [r EXCEPT !.rx = "ready", !.rbd = b, !.el = rbds[b].el]
  /\ UNCHANGED <<scb, busy, rfds, rbds, cbs, filed, owed, wire>>

Filing == ArmFirst \/ FillOn \/ FillEnd \/ File \/ Advance

\* Everything the chip does without being given anything.
ChipStep == Handler \/ CommandUnit \/ Filing
=============================================================================
