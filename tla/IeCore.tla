------------------------------- MODULE IeCore -------------------------------
(***************************************************************************)
(* ie_core: the initialisation sequencer and the SCB handler.              *)
(*                                                                         *)
(* The module gives the block's registers and what one rising edge of clk  *)
(* does to them.  Its inputs are variables it never primes; whatever       *)
(* composes it says who drives them.  Addresses and pointers are left out: *)
(* there is one SCB, and a memory access is named by what it is for.       *)
(***************************************************************************)
EXTENDS ScbTypes

VARIABLES
  \* registers of the block
  state,       \* the sequencer
  scb_cmd,     \* the fields of the command word that outlive its reading
  status_tx,   \* the status word being written back
  flags,       \* the event flags as the chip knows them
  status_pub,  \* the status word the host can currently see
  ca_pending,  \* a channel attention not yet looked at
  cu_ctl,      \* control pulse to the command unit, one cycle
  ru_ctl,      \* control pulse to the receive unit, one cycle
  \* input wires
  core_rst,    \* rst || core_rst_i
  ca,          \* channel attention pulse
  ev,          \* events pulsed by the two units this cycle
  cus, rus,    \* state of the two units
  bus_ack,     \* the access requested below has been done
  rdata        \* the command word, when that is what was read

coreVars == <<state, scb_cmd, status_tx, flags, status_pub, ca_pending,
              cu_ctl, ru_ctl>>

\* The pointer walk after the first channel attention: each state is one read
\* of the SCP or the ISCP and is followed by the next.
WalkNext == [S_SCP_SYSBUS  |-> "S_SCP_ISCP_LO",
             S_SCP_ISCP_LO |-> "S_SCP_ISCP_HI",
             S_SCP_ISCP_HI |-> "S_ISCP_SCB",
             S_ISCP_SCB    |-> "S_ISCP_CB_LO",
             S_ISCP_CB_LO  |-> "S_ISCP_CB_HI",
             S_ISCP_CB_HI  |-> "S_ISCP_CLR_BUSY"]

WalkStates == {"S_SCP_SYSBUS", "S_SCP_ISCP_LO", "S_SCP_ISCP_HI",
               "S_ISCP_SCB", "S_ISCP_CB_LO", "S_ISCP_CB_HI"}

\* States in which a command word has been read and not yet cleared.
TakenStates == {"S_SCB_RD_CBL", "S_SCB_RD_RFA", "S_SCB_WR_STATUS",
                "S_SCB_CLR_CMD"}

PublishStates == {"S_SCB_WR_STATUS", "S_WR_STATUS"}

CoreStates == {"S_UNINIT", "S_ISCP_CLR_BUSY", "S_IDLE", "S_SCB_RD_CMD",
               "S_WR_STATUS"} \cup WalkStates \cup TakenStates

KeptFields == [ruc : Controls, reset : BOOLEAN]
Kept(cmd) == [ruc |-> cmd.ruc, reset |-> cmd.reset]

CoreTypeOK ==
  /\ state \in CoreStates
  /\ scb_cmd \in KeptFields
  /\ status_tx \in Statuses
  /\ flags \in SUBSET Flags
  /\ status_pub \in Statuses
  /\ ca_pending \in BOOLEAN
  /\ cu_ctl \in Controls
  /\ ru_ctl \in Controls

CoreInit ==
  /\ state = "S_UNINIT"
  /\ scb_cmd = Kept(NoCommand)
  /\ status_tx = ZeroStatus
  /\ flags = {}
  /\ status_pub = ZeroStatus
  /\ ca_pending = FALSE
  /\ cu_ctl = "NOP"
  /\ ru_ctl = "NOP"

-----------------------------------------------------------------------------
\* Combinational outputs.

\* What the block asks of the memory port in its present state.
Request ==
  CASE state \in WalkStates \cup {"S_SCB_RD_CBL", "S_SCB_RD_RFA"} -> "READ"
    [] state = "S_SCB_RD_CMD"    -> "READ_CMD"
    [] state = "S_ISCP_CLR_BUSY" -> "CLEAR_BUSY"
    [] state \in PublishStates   -> "WRITE_STATUS"
    [] state = "S_SCB_CLR_CMD"   -> "CLEAR_CMD"
    [] OTHER                     -> "NONE"

\* The interrupt follows the published flags, never the internal ones.
\* (Mutant: it follows the internal ones.)
IntFromFlags == flags # {}
Int == status_pub.flags # {}

MkStatus(f) == [flags |-> f, cus |-> cus, rus |-> rus]

TakingCmd == state = "S_SCB_RD_CMD" /\ bus_ack
InitDone  == state = "S_ISCP_CLR_BUSY" /\ bus_ack

\* Acknowledgements clear, events set, and setting wins.
\* (Mutant: taking a command clears every flag.)
AckAppliedToAll == IF TakingCmd /\ ~rdata.reset THEN Flags ELSE {}
AckApplied == IF TakingCmd /\ ~rdata.reset THEN rdata.ack ELSE {}
InitEvents == IF InitDone THEN {"CX", "CNA"} ELSE {}

\* (Mutant: clearing wins.)
FlagsNextAckWins == (flags \cup InitEvents \cup ev) \ AckApplied
FlagsNext == (flags \ AckApplied) \cup InitEvents \cup ev

\* The status word in memory no longer says what it should.
\* (Mutant: only a change of a unit's state is noticed.)
StatusStaleUnits == status_pub.cus # cus \/ status_pub.rus # rus
StatusStale == status_pub # MkStatus(flags)

-----------------------------------------------------------------------------
\* One rising edge of clk.

\* The flags and the published status move in every state.
FlagsEdge ==
  /\ flags' = IF TakingCmd /\ rdata.reset THEN {} ELSE FlagsNext
  /\ status_pub' = IF bus_ack /\ state \in PublishStates
                   THEN status_tx ELSE status_pub

\* (Mutant: the attention is sampled instead of latched.)
LatchCaSampled == ca_pending' = ca
LatchCa == ca_pending' = (ca_pending \/ ca)
NoPulse == cu_ctl' = "NOP" /\ ru_ctl' = "NOP"

\* Consuming the pending attention absorbs one arriving on the same edge.
\* (Mutant: it is not consumed.)
ConsumeCaKept(to) == LatchCa /\ state' = to
ConsumeCa(to) == ca_pending' = FALSE /\ state' = to

Uninit ==
  /\ state = "S_UNINIT"
  /\ IF ca_pending THEN ConsumeCa("S_SCP_SYSBUS")
                   ELSE LatchCa /\ UNCHANGED state
  /\ NoPulse
  /\ UNCHANGED <<scb_cmd, status_tx>>

Walk ==
  /\ state \in WalkStates
  /\ bus_ack
  /\ state' = WalkNext[state]
  /\ LatchCa
  /\ NoPulse
  /\ UNCHANGED <<scb_cmd, status_tx>>

\* Initialisation is over: CX and CNA are what the drivers poll for.
ClearBusy ==
  /\ state = "S_ISCP_CLR_BUSY"
  /\ bus_ack
  /\ status_tx' = MkStatus(FlagsNext)
  /\ state' = "S_WR_STATUS"
  /\ LatchCa
  /\ NoPulse
  /\ UNCHANGED scb_cmd

\* An attention comes before a status write that is owed.
Idle ==
  /\ state = "S_IDLE"
  /\ \/ /\ ca_pending
        /\ ConsumeCa("S_SCB_RD_CMD")
        /\ UNCHANGED status_tx
     \/ /\ ~ca_pending
        /\ StatusStale
        /\ status_tx' = MkStatus(flags)
        /\ state' = "S_WR_STATUS"
        /\ LatchCa
     \/ /\ ~ca_pending
        /\ ~StatusStale
        /\ LatchCa
        /\ UNCHANGED <<state, status_tx>>
  /\ NoPulse
  /\ UNCHANGED scb_cmd

\* The command word arrives.  A start needs its list pointer first; every
\* other control goes to its unit on the next cycle.
PulseOf(control) == IF control = "START" THEN "NOP" ELSE control

AfterCommand(cmd) ==
  IF cmd.cuc = "START" THEN "S_SCB_RD_CBL"
  ELSE IF cmd.ruc = "START" THEN "S_SCB_RD_RFA" ELSE "S_SCB_WR_STATUS"

\* (Mutant: the status goes out with the flags of before the acknowledgement.)
TakeCommandEarlyStatus ==
  /\ TakingCmd
  /\ scb_cmd' = Kept(rdata)
  /\ status_tx' = MkStatus(flags)
  /\ IF rdata.reset
     THEN state' = "S_SCB_CLR_CMD" /\ NoPulse
     ELSE /\ state' = AfterCommand(rdata)
          /\ cu_ctl' = PulseOf(rdata.cuc)
          /\ ru_ctl' = PulseOf(rdata.ruc)
  /\ LatchCa

TakeCommand ==
  /\ TakingCmd
  /\ scb_cmd' = Kept(rdata)
  /\ status_tx' = MkStatus(FlagsNext)
  /\ IF rdata.reset
     THEN state' = "S_SCB_CLR_CMD" /\ NoPulse
     ELSE /\ state' = AfterCommand(rdata)
          /\ cu_ctl' = PulseOf(rdata.cuc)
          /\ ru_ctl' = PulseOf(rdata.ruc)
  /\ LatchCa

StartCu ==
  /\ state = "S_SCB_RD_CBL"
  /\ bus_ack
  /\ cu_ctl' = "START"
  /\ ru_ctl' = "NOP"
  /\ state' = IF scb_cmd.ruc = "START" THEN "S_SCB_RD_RFA"
                                       ELSE "S_SCB_WR_STATUS"
  /\ LatchCa
  /\ UNCHANGED <<scb_cmd, status_tx>>

StartRu ==
  /\ state = "S_SCB_RD_RFA"
  /\ bus_ack
  /\ cu_ctl' = "NOP"
  /\ ru_ctl' = "START"
  /\ state' = "S_SCB_WR_STATUS"
  /\ LatchCa
  /\ UNCHANGED <<scb_cmd, status_tx>>

\* The status is written back before the command word is cleared.
StatusWritten ==
  /\ state \in PublishStates
  /\ bus_ack
  /\ state' = IF state = "S_WR_STATUS" THEN "S_IDLE" ELSE "S_SCB_CLR_CMD"
  /\ LatchCa
  /\ NoPulse
  /\ UNCHANGED <<scb_cmd, status_tx>>

CommandCleared ==
  /\ state = "S_SCB_CLR_CMD"
  /\ bus_ack
  /\ state' = IF scb_cmd.reset THEN "S_UNINIT" ELSE "S_IDLE"
  /\ LatchCa
  /\ NoPulse
  /\ UNCHANGED <<scb_cmd, status_tx>>

\* Every other state waits for its access.
AwaitBus ==
  /\ Request # "NONE"
  /\ ~bus_ack
  /\ LatchCa
  /\ NoPulse
  /\ UNCHANGED <<state, scb_cmd, status_tx>>

CoreReset ==
  /\ core_rst
  /\ state' = "S_UNINIT"
  /\ scb_cmd' = Kept(NoCommand)
  /\ status_tx' = ZeroStatus
  /\ flags' = {}
  /\ status_pub' = ZeroStatus
  /\ ca_pending' = FALSE
  /\ NoPulse

Sequencer ==
  \/ Uninit \/ Walk \/ ClearBusy \/ Idle
  \/ TakeCommand \/ StartCu \/ StartRu
  \/ StatusWritten \/ CommandCleared \/ AwaitBus

CoreEdge == CoreReset \/ (~core_rst /\ FlagsEdge /\ Sequencer)
=============================================================================
