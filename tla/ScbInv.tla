------------------------------- MODULE ScbInv -------------------------------
(***************************************************************************)
(* The inductive invariant behind the SCB theorems.                        *)
(*                                                                         *)
(* The heart of it is that there is one token: the channel attention the   *)
(* driver rings for a command is in exactly one place - in the CSR write,  *)
(* on the CA wire, in ca_pending, or turned into the core's reading of the *)
(* command word - and in no place at all while the driver is free to write *)
(* the next command.                                                       *)
(***************************************************************************)
EXTENDS Scb

\* The access under way is the one the core asks for, except that an access a
\* hard reset cut loose may outlive the reset until the walk's first read.
PortInv ==
  /\ port # "IDLE" => access.kind # "NONE"
  /\ port # "IDLE" /\ state \notin {"S_UNINIT", "S_SCP_SYSBUS"} =>
       access = [kind |-> Core!Request, data |-> status_tx]

\* Initialised, with nothing to do on the command word.
Rested ==
  \/ state \in {"S_IDLE", "S_WR_STATUS"}
  \/ state = "S_ISCP_CLR_BUSY" /\ port = "ACK"
  \/ state = "S_SCB_CLR_CMD" /\ port = "ACK" /\ ~scb_cmd.reset

\* Not initialised, and not about to be.
Unwalked ==
  \/ state = "S_UNINIT"
  \/ state = "S_SCB_CLR_CMD" /\ port = "ACK" /\ scb_cmd.reset

Walking ==
  \/ state \in Core!WalkStates
  \/ state = "S_ISCP_CLR_BUSY" /\ port # "ACK"

\* The token, by place.
NoToken  == csr = "NONE" /\ ~ca /\ ~ca_pending
InCsr    == csr = "CA"   /\ ~ca /\ ~ca_pending
OnWire   == csr = "NONE" /\  ca /\ ~ca_pending
Latched  == csr = "NONE" /\ ~ca /\  ca_pending
OnTheWay == InCsr \/ OnWire \/ Latched

\* A write the reset cut loose can clear ISCP busy or fake the status, but not
\* both: until the walk clears busy, busy reads zero only while no flag shows.
InitMemory ==
  \/ /\ mem_busy
     /\ port = "ACTIVE" /\ access.kind = "CLEAR_BUSY"
          /\ state # "S_ISCP_CLR_BUSY" => mem_status.flags = {}
  \/ /\ mem_status.flags = {}
     /\ ~(port = "ACTIVE" /\ access.kind = "WRITE_STATUS")
     /\ state \in {"S_UNINIT", "S_ISCP_CLR_BUSY"} \cup Core!WalkStates

\* The driver has given the chip up, or the chip has given itself up.
BuildInv ==
  pc = "BUILD" =>
    \/ csr = "HOLD"
    \/ csr = "NONE" /\ core_rst
    \/ NoToken /\ ~core_rst /\ Unwalked

\* Before the first attention.
ReleaseInv ==
  pc \in {"RELEASE", "ATTENTION"} =>
    /\ pc = "RELEASE" => csr = "NONE"
    /\ pc = "ATTENTION" => csr \in {"NONE", "RELEASE"}
    /\ pc = "ATTENTION" /\ csr = "NONE" => ~core_rst
    /\ core_rst => fresh = {}
    /\ core_rst /\ state # "S_UNINIT" => mem_status.flags = {}
    /\ ~core_rst => Unwalked /\ ~ca /\ ~ca_pending
    /\ mem_cmd = NoCommand
    /\ InitMemory

\* The walk.
WalkInv ==
  pc \in {"INIT_BUSY", "INIT_STATUS"} =>
    /\ ~core_rst
    /\ mem_cmd = NoCommand
    /\ \/ OnTheWay /\ Unwalked /\ InitMemory
       \/ NoToken /\ Walking /\ InitMemory
       \/ NoToken /\ Rested
    /\ pc = "INIT_STATUS" => ~mem_busy

\* Between commands.
ReadyInv ==
  pc \in {"READY", "RING"} =>
    /\ ~core_rst
    /\ NoToken
    /\ Rested
    /\ mem_cmd = request
    /\ pc = "READY" <=> request = NoCommand

\* A command in the box.
WaitInv ==
  pc = "WAIT" =>
    /\ ~core_rst
    /\ request # NoCommand
    /\ \/ mem_cmd = request /\ OnTheWay /\ Rested
       \/ mem_cmd = request /\ NoToken /\ AboutToRead
       \/ mem_cmd = request /\ NoToken /\ Taken /\ scb_cmd = Core!Kept(request)
       \/ /\ mem_cmd = NoCommand
          /\ NoToken
          /\ IF request.reset THEN Unwalked
             ELSE Rested /\ state # "S_ISCP_CLR_BUSY"

\* What a finished status write left in memory is what will be published.
PublishInv ==
  ~core_rst /\ port = "ACK" /\ state \in Core!PublishStates =>
    mem_status = status_tx

ResetInv == core_rst => ~ca /\ pc \in {"BUILD", "RELEASE", "ATTENTION"}

\* The driver asks for nothing but the controls it was given.
RequestInv == pc \notin {"RING", "WAIT"} => request = NoCommand

DialogueInv ==
  /\ PortInv
  /\ BuildInv
  /\ ReleaseInv
  /\ WalkInv
  /\ ReadyInv
  /\ WaitInv
  /\ PublishInv
  /\ ResetInv
  /\ RequestInv
  /\ NoLostWork

\* While the driver waits for a command that resets nothing: which of its
\* acknowledged flags may still show, in each of the copies of the flags.
Shown(f) == f \cap request.ack \subseteq renewed

AcknowledgeInv ==
  pc = "WAIT" /\ ~request.reset =>
    /\ renewed \subseteq flags
    /\ Taken => Shown(flags) /\ Shown(status_tx.flags)
    /\ Taken /\ state = "S_SCB_CLR_CMD" => Shown(mem_status.flags)
    /\ mem_cmd = NoCommand => /\ Shown(flags)
                              /\ Shown(status_tx.flags)
                              /\ Shown(mem_status.flags)

IInv == TypeOK /\ DialogueInv /\ AcknowledgeInv
=============================================================================
