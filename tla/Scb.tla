-------------------------------- MODULE Scb --------------------------------
(***************************************************************************)
(* The System Control Block dialogue: ie_core, the two units by what they  *)
(* promise it, its memory port, the CSR that carries RESET and CA, the     *)
(* shared memory, and the driver on the other side.                        *)
(*                                                                         *)
(* Everything on clk moves together in Clock.  The driver runs at its own  *)
(* pace between edges; the memory answers when it likes.                   *)
(***************************************************************************)
EXTENDS ScbTypes

CONSTANTS
  CuRequests,   \* command unit controls the driver uses
  RuRequests,   \* receive unit controls the driver uses
  SoftReset,    \* whether the driver uses the software reset bit
  HardReset     \* whether the driver resets a chip that is running

ASSUME RequestsAssumption ==
  /\ CuRequests \subseteq Controls
  /\ RuRequests \subseteq Controls
  /\ SoftReset \in BOOLEAN
  /\ HardReset \in BOOLEAN

VARIABLES
  \* ie_core
  state, scb_cmd, status_tx, flags, status_pub, ca_pending, cu_ctl, ru_ctl,
  \* the units
  cus, cu_ev, rus, ru_ev,
  \* the memory port, as the core sees it
  port,        \* "IDLE", "ACTIVE" with an access under way, "ACK" for a cycle
  access,      \* what that access is: a request and its write data
  rdata,       \* the command word, in the cycle that acknowledges its read
  \* the CSR
  csr,         \* a CTRL write presented by the driver, or "NONE"
  core_rst, ca,
  \* shared memory
  mem_busy, mem_cmd, mem_status,
  \* the driver
  pc,          \* where the driver is
  request,     \* the command it waits for, or NoCommand
  \* history
  fresh,       \* kinds of event whose work the driver has not looked at
  renewed      \* kinds of event pulsed since the command it waits for was taken

bus_ack == port = "ACK"
ev == cu_ev \cup ru_ev

Core == INSTANCE IeCore
Cu == INSTANCE CommandUnit
Ru == INSTANCE ReceiveUnit

coreVars == <<state, scb_cmd, status_tx, flags, status_pub, ca_pending,
              cu_ctl, ru_ctl>>
unitVars == <<cus, cu_ev, rus, ru_ev>>
portVars == <<port, access, rdata>>
csrVars  == <<csr, core_rst, ca>>
memVars  == <<mem_busy, mem_cmd, mem_status>>
hostVars == <<pc, request>>
histVars == <<fresh, renewed>>
vars == <<state, scb_cmd, status_tx, flags, status_pub, ca_pending, cu_ctl,
          ru_ctl, cus, cu_ev, rus, ru_ev, port, access, rdata, csr, core_rst,
          ca, mem_busy, mem_cmd, mem_status, pc, request, fresh, renewed>>

Kinds == {"NONE", "READ", "READ_CMD", "CLEAR_BUSY", "WRITE_STATUS", "CLEAR_CMD"}

HostStates == {"BUILD", "RELEASE", "ATTENTION", "INIT_BUSY", "INIT_STATUS",
               "READY", "RING", "WAIT"}

NoAccess == [kind |-> "NONE", data |-> ZeroStatus]

TypeOK ==
  /\ Core!CoreTypeOK /\ Cu!CuTypeOK /\ Ru!RuTypeOK
  /\ port \in {"IDLE", "ACTIVE", "ACK"}
  /\ access \in [kind : Kinds, data : Statuses]
  /\ rdata \in Commands
  /\ csr \in {"NONE", "HOLD", "RELEASE", "CA"}
  /\ core_rst \in BOOLEAN /\ ca \in BOOLEAN
  /\ mem_busy \in BOOLEAN /\ mem_cmd \in Commands /\ mem_status \in Statuses
  /\ pc \in HostStates
  /\ request \in Commands
  /\ fresh \in SUBSET Flags /\ renewed \in SUBSET Flags

\* Power on: the CSR comes up holding the core in reset.
Init ==
  /\ Core!CoreInit /\ Cu!CuInit /\ Ru!RuInit
  /\ port = "IDLE"
  /\ access = NoAccess
  /\ rdata = NoCommand
  /\ csr = "NONE" /\ core_rst = TRUE /\ ca = FALSE
  /\ mem_busy = FALSE /\ mem_cmd = NoCommand /\ mem_status = ZeroStatus
  /\ pc = "BUILD" /\ request = NoCommand
  /\ fresh = {} /\ renewed = {}

-----------------------------------------------------------------------------
\* The memory port: one access at a time, started when the core asks and no
\* other port is being served, finished when the memory answers.  A reset of
\* the core does not reach it: an access under way runs to its end.

PortIdle ==
  /\ port = "IDLE"
  /\ UNCHANGED <<portVars, memVars>>

PortStart ==
  /\ port = "IDLE"
  /\ Core!Request # "NONE"
  /\ port' = "ACTIVE"
  /\ access' = [kind |-> Core!Request, data |-> status_tx]
  /\ UNCHANGED <<rdata, memVars>>

PortWait ==
  /\ port = "ACTIVE"
  /\ UNCHANGED <<portVars, memVars>>

PortDone ==
  /\ port = "ACTIVE"
  /\ port' = "ACK"
  /\ rdata' = IF access.kind = "READ_CMD" THEN mem_cmd ELSE NoCommand
  /\ mem_busy' = IF access.kind = "CLEAR_BUSY" THEN FALSE ELSE mem_busy
  /\ mem_cmd' = IF access.kind = "CLEAR_CMD" THEN NoCommand ELSE mem_cmd
  /\ mem_status' = IF access.kind = "WRITE_STATUS" THEN access.data
                                                   ELSE mem_status
  /\ UNCHANGED access

PortAck ==
  /\ port = "ACK"
  /\ port' = "IDLE"
  /\ access' = NoAccess
  /\ rdata' = NoCommand
  /\ UNCHANGED memVars

PortMoves == PortStart \/ PortDone \/ PortAck
PortEdge == PortMoves \/ PortIdle \/ PortWait

\* A CTRL write takes effect on an edge: RST is a level and CA a pulse.
CsrEdge ==
  /\ csr' = "NONE"
  /\ core_rst' = IF csr = "NONE" THEN core_rst ELSE csr = "HOLD"
  /\ ca' = (csr = "CA")

History ==
  /\ fresh' = fresh \cup cu_ev' \cup ru_ev'
  /\ renewed' = IF Core!TakingCmd THEN ev
                ELSE IF pc = "WAIT" THEN renewed \cup ev ELSE {}

\* One rising edge of clk.
Clock ==
  /\ Core!CoreEdge /\ Cu!CuEdge /\ Ru!RuEdge
  /\ PortEdge
  /\ CsrEdge
  /\ History
  /\ UNCHANGED hostVars

-----------------------------------------------------------------------------
\* The driver.

ChipUnchanged == UNCHANGED <<coreVars, unitVars, portVars, core_rst, ca>>
HostUnchanged == ChipUnchanged /\ UNCHANGED renewed

\* A CTRL write is accepted before the driver goes on to anything else.
CsrFree == csr = "NONE"
WriteCtrl(write) == CsrFree /\ csr' = write

\* Give up whatever is going on and hold the chip in reset.
HoldReset ==
  /\ HardReset
  /\ pc # "BUILD"
  /\ WriteCtrl("HOLD")
  /\ pc' = "BUILD"
  /\ request' = NoCommand
  /\ HostUnchanged
  /\ UNCHANGED <<memVars, fresh>>

\* Build SCP, ISCP and SCB; whatever the chip had reported is forgotten.
Build ==
  /\ pc = "BUILD"
  /\ CsrFree
  /\ mem_busy' = TRUE
  /\ mem_cmd' = NoCommand
  /\ mem_status' = ZeroStatus
  /\ fresh' = {}
  /\ pc' = "RELEASE"
  /\ HostUnchanged
  /\ UNCHANGED <<csr, request>>

Release ==
  /\ pc = "RELEASE"
  /\ WriteCtrl("RELEASE")
  /\ pc' = "ATTENTION"
  /\ HostUnchanged
  /\ UNCHANGED <<memVars, request, fresh>>

FirstAttention ==
  /\ pc = "ATTENTION"
  /\ WriteCtrl("CA")
  /\ pc' = "INIT_BUSY"
  /\ HostUnchanged
  /\ UNCHANGED <<memVars, request, fresh>>

BusyCleared ==
  /\ pc = "INIT_BUSY"
  /\ CsrFree
  /\ ~mem_busy
  /\ pc' = "INIT_STATUS"
  /\ HostUnchanged
  /\ UNCHANGED <<memVars, csr, request, fresh>>

InitReported ==
  /\ pc = "INIT_STATUS"
  /\ {"CX", "CNA"} \subseteq mem_status.flags
  /\ pc' = "READY"
  /\ HostUnchanged
  /\ UNCHANGED <<memVars, csr, request, fresh>>

\* issue_scb: the previous command has been accepted, so write the word and
\* then pulse channel attention.
Issue(cmd) ==
  /\ pc = "READY"
  /\ CsrFree
  /\ cmd # NoCommand
  /\ mem_cmd' = cmd
  /\ request' = cmd
  /\ pc' = "RING"
  /\ HostUnchanged
  /\ UNCHANGED <<csr, mem_busy, mem_status, fresh>>

\* A request of the driver's own, with nothing to acknowledge.
IssueRequest ==
  \E cuc \in CuRequests, ruc \in RuRequests, reset \in {FALSE, SoftReset} :
    Issue([ack |-> {}, cuc |-> cuc, ruc |-> ruc, reset |-> reset])

\* The interrupt handler: acknowledge exactly what the status word shows.
HandleInterrupt ==
  /\ Core!Int
  /\ mem_status.flags # {}
  /\ Issue([NoCommand EXCEPT !.ack = mem_status.flags])

Ring ==
  /\ pc = "RING"
  /\ WriteCtrl("CA")
  /\ pc' = "WAIT"
  /\ renewed' = {}
  /\ ChipUnchanged
  /\ UNCHANGED <<memVars, request, fresh>>

\* The command word reads zero: accepted.  Look at the work behind the flags
\* just acknowledged; after a software reset start again from the SCP.
Accepted ==
  /\ pc = "WAIT"
  /\ CsrFree
  /\ mem_cmd = NoCommand
  /\ fresh' = fresh \ request.ack
  /\ pc' = IF request.reset THEN "BUILD" ELSE "READY"
  /\ request' = NoCommand
  /\ HostUnchanged
  /\ UNCHANGED <<memVars, csr>>

HostWaits == BusyCleared \/ InitReported \/ Accepted
HostStep == Build \/ Release \/ FirstAttention \/ Ring \/ HostWaits

Host == HostStep \/ HoldReset \/ IssueRequest \/ HandleInterrupt

Next == Clock \/ Host

Spec == Init /\ [][Next]_vars

\* clk does not stop, the memory answers every access, the driver carries
\* through what it began and answers an interrupt that keeps being raised.
\* Nothing obliges it to issue a request or to reset the chip.
ClockServes == Clock /\ (PortMoves \/ (port = "IDLE" /\ Core!Request = "NONE"))

Fairness ==
  /\ WF_vars(ClockServes)
  /\ WF_vars(HostStep)
  /\ SF_vars(HandleInterrupt)

FairSpec == Spec /\ Fairness
-----------------------------------------------------------------------------
\* Properties.

\* The interrupt follows the published status, so a driver woken by it finds
\* the status already in memory: whenever INT rises, the status word in memory
\* shows the very flags that raised it.  (ie_core, int_o and status_pub.)
InterruptAfterStatus ==
  [][~Core!Int /\ Core!Int' => mem_status'.flags = status_pub'.flags]_vars

\* Work the driver has not looked at still has a wake-up coming: the event is
\* on its way into the flags, is in the flags, or the driver is waiting for the
\* command that acknowledges it and looks afterwards.  (ie_core, flags_next.)
BeingHandled ==
  CASE pc = "BUILD" -> Flags
    [] pc \in {"RING", "WAIT"} /\ request.reset -> Flags
    [] pc \in {"RING", "WAIT"} /\ ~request.reset -> request.ack
    [] OTHER -> {}

NoLostWork == fresh \subseteq ev \cup flags \cup BeingHandled

\* Setting wins over acknowledging: an event that happens on the edge a command
\* is taken, or later, still shows in the flags when the driver sees the
\* command accepted, whatever that command acknowledged.  (ie_core, flags_next.)
SettingWins == pc = "WAIT" /\ ~request.reset => renewed \subseteq flags

\* A driver that sees its command word cleared and then reads the status finds
\* none of the flags it acknowledged, unless the event happened again after
\* the chip had taken the command.
AcknowledgedIsGone ==
  pc = "WAIT" /\ csr = "NONE" /\ mem_cmd = NoCommand /\ ~request.reset
    => mem_status.flags \cap request.ack \subseteq renewed

\* The command under the core's hands: read, and its word not yet zeroed.  In
\* the cycle the clearing write is acknowledged the word is the driver's again.
Taken ==
  /\ state \in Core!TakenStates
  /\ ~(state = "S_SCB_CLR_CMD" /\ bus_ack)

\* A read of the command word is going to see the command now posted.
AboutToRead ==
  /\ state = "S_SCB_RD_CMD"
  /\ bus_ack => rdata = mem_cmd

\* An attention is never forgotten: once the driver has rung for a command,
\* the attention is in the CSR, in flight or in ca_pending, or the core is
\* about to read the command word or has read it.
AttentionKept ==
  pc = "WAIT" /\ mem_cmd # NoCommand =>
    csr = "CA" \/ ca \/ ca_pending \/ AboutToRead \/ Taken

\* The mailbox: see ScbMailbox.  A box is down from the moment the driver
\* starts a reset until it has built the SCB again.
Box ==
  IF pc = "BUILD" THEN "DOWN"
  ELSE IF mem_cmd = NoCommand THEN "EMPTY"
  ELSE IF Taken THEN "TAKEN" ELSE "POSTED"

Mailbox == INSTANCE ScbMailbox WITH box <- Box

\* Every command is taken exactly once before its word is cleared.
MailboxSafety == Mailbox!Spec

\* And every command is eventually taken and cleared.
MailboxServed == Mailbox!FairSpec

\* Work the units completed is eventually looked at by a driver that only
\* acts on interrupts.
WorkNoticed == \A f \in Flags : f \in fresh ~> f \notin fresh

\* "Software reset: behave as if RESET had been pulled" (ie_core.sv): the
\* edge that ends one leaves what the edge of a reset leaves.
SoftResetIsReset ==
  [][state = "S_SCB_CLR_CMD" /\ state' = "S_UNINIT" /\ ~core_rst =>
       /\ flags' = {} /\ ~Core!Int'
       /\ cus' = "IDLE" /\ rus' = "IDLE"]_vars
=============================================================================
