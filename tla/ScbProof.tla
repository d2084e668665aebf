------------------------------ MODULE ScbProof ------------------------------
(***************************************************************************)
(* The SCB theorems, for every set of controls the driver may use, with    *)
(* and without resets.                                                     *)
(***************************************************************************)
EXTENDS ScbInv, TLAPS

\* Each instance has its own copy of the vocabulary.
LEMMA SameWords ==
  /\ Core!Flags = Flags /\ Core!Controls = Controls
  /\ Core!CuStates = CuStates /\ Core!RuStates = RuStates
  /\ Core!Commands = Commands /\ Core!Statuses = Statuses
  /\ Core!NoCommand = NoCommand /\ Core!ZeroStatus = ZeroStatus
  /\ Cu!CuStates = CuStates /\ Ru!RuStates = RuStates
BY DEF Core!Flags, Core!Controls, Core!CuStates, Core!RuStates, Core!Commands,
       Core!Statuses, Core!NoCommand, Core!ZeroStatus, Cu!CuStates,
       Ru!RuStates, Flags, Controls, CuStates, RuStates, Commands, Statuses,
       NoCommand, ZeroStatus

\* The types of what the core computes.
LEMMA CoreTypes ==
  ASSUME TypeOK
  PROVE  /\ Core!FlagsNext \in SUBSET Flags
         /\ \A f \in SUBSET Flags : Core!MkStatus(f) \in Statuses
         /\ Core!Kept(rdata) \in Core!KeptFields
         /\ Core!PulseOf(rdata.cuc) \in Controls
         /\ Core!PulseOf(rdata.ruc) \in Controls
<1>1. cus \in CuStates /\ rus \in RuStates /\ ev \in SUBSET Flags
  BY SameWords DEF TypeOK, Cu!CuTypeOK, Ru!RuTypeOK, ev, Flags
<1>2. /\ rdata.ack \in SUBSET Flags /\ rdata.cuc \in Controls
      /\ rdata.ruc \in Controls /\ rdata.reset \in BOOLEAN
  BY DEF TypeOK, Commands
<1>3. flags \in SUBSET Flags
  BY SameWords DEF TypeOK, Core!CoreTypeOK
<1>4. Core!FlagsNext \in SUBSET Flags
  BY <1>1, <1>3 DEF Core!FlagsNext, Core!InitEvents, Flags
<1>5. \A f \in SUBSET Flags : Core!MkStatus(f) \in Statuses
  BY <1>1 DEF Core!MkStatus, Statuses
<1>6. Core!Kept(rdata) \in Core!KeptFields
  BY <1>2, SameWords DEF Core!Kept, Core!KeptFields
<1>7. /\ Core!PulseOf(rdata.cuc) \in Controls
      /\ Core!PulseOf(rdata.ruc) \in Controls
  BY <1>2 DEF Core!PulseOf, Controls
<1> QED BY <1>4, <1>5, <1>6, <1>7

\* One edge of clk keeps the registers of the core within their types.
LEMMA CoreTyped ==
  ASSUME TypeOK, Core!CoreEdge
  PROVE  Core!CoreTypeOK'
<1> USE DEF Core!CoreTypeOK
<1>1. CASE Core!CoreReset
  BY <1>1, SameWords DEF Core!CoreReset, Core!NoPulse, Core!CoreStates,
     Core!Kept, Core!KeptFields, NoCommand, ZeroStatus, Statuses, Flags,
     CuStates, RuStates, Controls
<1>2. CASE ~core_rst /\ Core!FlagsEdge /\ Core!Sequencer
  <2>1. /\ state \in Core!CoreStates /\ scb_cmd \in Core!KeptFields
        /\ status_tx \in Statuses /\ flags \in SUBSET Flags
        /\ status_pub \in Statuses /\ ca_pending \in BOOLEAN /\ ca \in BOOLEAN
    BY SameWords DEF TypeOK
  <2>2. flags' \in SUBSET Flags /\ status_pub' \in Statuses
    BY <1>2, <2>1, CoreTypes DEF Core!FlagsEdge
  <2> DEFINE Rest == /\ state' \in Core!CoreStates
                     /\ scb_cmd' \in Core!KeptFields
                     /\ status_tx' \in Statuses
                     /\ ca_pending' \in BOOLEAN
                     /\ cu_ctl' \in Controls /\ ru_ctl' \in Controls
  <2> SUFFICES Rest
    BY <2>2, SameWords
  <2> USE <2>1, CoreTypes
      DEF Core!LatchCa, Core!ConsumeCa, Core!NoPulse, Core!CoreStates,
          Core!WalkStates, Core!TakenStates
  <2> "NOP" \in Controls /\ "START" \in Controls
    BY DEF Controls
  <2>3. CASE Core!Uninit        BY <2>3 DEF Core!Uninit
  <2>4. CASE Core!Walk          BY <2>4 DEF Core!Walk, Core!WalkNext
  <2>5. CASE Core!ClearBusy     BY <2>5 DEF Core!ClearBusy
  <2>6. CASE Core!Idle          BY <2>6 DEF Core!Idle
  <2>7. CASE Core!TakeCommand   BY <2>7 DEF Core!TakeCommand, Core!AfterCommand
  <2>8. CASE Core!StartCu       BY <2>8 DEF Core!StartCu
  <2>9. CASE Core!StartRu       BY <2>9 DEF Core!StartRu
  <2>10. CASE Core!StatusWritten  BY <2>10 DEF Core!StatusWritten
  <2>11. CASE Core!CommandCleared BY <2>11 DEF Core!CommandCleared
  <2>12. CASE Core!AwaitBus     BY <2>12 DEF Core!AwaitBus
  <2> QED
    BY <1>2, <2>3, <2>4, <2>5, <2>6, <2>7, <2>8, <2>9, <2>10, <2>11, <2>12
       DEF Core!Sequencer
<1> QED BY <1>1, <1>2 DEF Core!CoreEdge

\* The units' outputs stay within their types.
LEMMA UnitsTyped ==
  ASSUME TypeOK, Cu!CuEdge, Ru!RuEdge
  PROVE  Cu!CuTypeOK' /\ Ru!RuTypeOK'
<1>1. Cu!CuTypeOK'
  BY SameWords DEF TypeOK, Cu!CuTypeOK, Cu!CuEdge, Cu!CuReset, Cu!CuControl,
     Cu!CuWork, Cu!CuStop, CuStates
<1>2. Ru!RuTypeOK'
  BY SameWords DEF TypeOK, Ru!RuTypeOK, Ru!RuEdge, Ru!RuReset, Ru!RuAbort,
     Ru!RuControl, Ru!RuReceive, Ru!RuStop, Ru!RuStarve, RuStates
<1> QED BY <1>1, <1>2

LEMMA ConstantWords ==
  /\ NoCommand \in Commands /\ ZeroStatus \in Statuses
  /\ NoAccess \in [kind : Kinds, data : Statuses]
  /\ Core!Request \in Kinds
BY DEF NoCommand, Commands, ZeroStatus, Statuses, NoAccess, Kinds, Controls,
       Flags, CuStates, RuStates, Core!Request

\* One edge of clk keeps the port, the CSR and the memory within their types.
LEMMA PortTyped ==
  ASSUME TypeOK, PortEdge, CsrEdge, History,
         Cu!CuTypeOK', Ru!RuTypeOK'
  PROVE  /\ port' \in {"IDLE", "ACTIVE", "ACK"}
         /\ access' \in [kind : Kinds, data : Statuses]
         /\ rdata' \in Commands
         /\ csr' \in {"NONE", "HOLD", "RELEASE", "CA"}
         /\ core_rst' \in BOOLEAN /\ ca' \in BOOLEAN
         /\ mem_busy' \in BOOLEAN /\ mem_cmd' \in Commands
         /\ mem_status' \in Statuses
         /\ fresh' \in SUBSET Flags /\ renewed' \in SUBSET Flags
<1>1. status_tx \in Statuses
  BY SameWords DEF TypeOK, Core!CoreTypeOK
<1>2. /\ port' \in {"IDLE", "ACTIVE", "ACK"}
      /\ access' \in [kind : Kinds, data : Statuses]
      /\ rdata' \in Commands
      /\ mem_busy' \in BOOLEAN /\ mem_cmd' \in Commands
      /\ mem_status' \in Statuses
  <2> USE <1>1, ConstantWords DEF TypeOK
  <2>1. CASE PortIdle \/ PortWait
    BY <2>1 DEF PortIdle, PortWait, portVars, memVars
  <2>2. CASE PortStart  BY <2>2 DEF PortStart, memVars
  <2>3. CASE PortDone   BY <2>3 DEF PortDone
  <2>4. CASE PortAck    BY <2>4 DEF PortAck, memVars
  <2> QED BY <2>1, <2>2, <2>3, <2>4 DEF PortEdge, PortMoves
<1>3. /\ csr' \in {"NONE", "HOLD", "RELEASE", "CA"}
      /\ core_rst' \in BOOLEAN /\ ca' \in BOOLEAN
  BY DEF TypeOK, CsrEdge
<1>4. fresh' \in SUBSET Flags /\ renewed' \in SUBSET Flags
  BY DEF TypeOK, History, Cu!CuTypeOK, Ru!RuTypeOK, ev, Flags
<1> QED BY <1>2, <1>3, <1>4

\* The driver keeps its own state, the CSR and the memory within their types.
LEMMA HostTyped ==
  ASSUME TypeOK, Host
  PROVE  TypeOK'
<1> USE DEF HostUnchanged, ChipUnchanged, coreVars, unitVars, portVars, memVars, HostStates,
            WriteCtrl, CsrFree, TypeOK, Core!CoreTypeOK, Cu!CuTypeOK,
            Ru!RuTypeOK
<1>1. CASE HoldReset       BY <1>1, ConstantWords DEF HoldReset
<1>2. CASE Build           BY <1>2, ConstantWords DEF Build
<1>3. CASE Release         BY <1>3 DEF Release
<1>4. CASE FirstAttention  BY <1>4 DEF FirstAttention
<1>5. CASE BusyCleared     BY <1>5 DEF BusyCleared
<1>6. CASE InitReported    BY <1>6 DEF InitReported
<1>7. ASSUME NEW cmd \in Commands, Issue(cmd)
      PROVE  TypeOK'
  BY <1>7 DEF Issue
<1>8. CASE IssueRequest
  <2>1. PICK cuc \in CuRequests, ruc \in RuRequests, reset \in {FALSE, SoftReset} :
          Issue([ack |-> {}, cuc |-> cuc, ruc |-> ruc, reset |-> reset])
    BY <1>8 DEF IssueRequest
  <2>2. [ack |-> {}, cuc |-> cuc, ruc |-> ruc, reset |-> reset] \in Commands
    BY RequestsAssumption DEF Commands
  <2> QED BY <2>1, <2>2, <1>7
<1>9. CASE HandleInterrupt
  <2>1. [NoCommand EXCEPT !.ack = mem_status.flags] \in Commands
    BY DEF NoCommand, Commands, Statuses, Controls
  <2> QED BY <1>9, <2>1, <1>7 DEF HandleInterrupt
<1>10. CASE Ring           BY <1>10 DEF Ring
<1>11. CASE Accepted       BY <1>11, ConstantWords DEF Accepted
<1> QED
  BY <1>1, <1>2, <1>3, <1>4, <1>5, <1>6, <1>8, <1>9, <1>10, <1>11
     DEF Host, HostStep, HostWaits

LEMMA TypeInit == Init => TypeOK
<1> SUFFICES ASSUME Init PROVE TypeOK
  OBVIOUS
<1>1. Core!CoreTypeOK
  BY ConstantWords, SameWords DEF Init, Core!CoreInit, Core!CoreTypeOK,
     Core!CoreStates, Core!Kept, Core!KeptFields, NoCommand, Controls
<1>2. Cu!CuTypeOK /\ Ru!RuTypeOK
  BY SameWords DEF Init, Cu!CuInit, Cu!CuTypeOK, Ru!RuInit, Ru!RuTypeOK,
     CuStates, RuStates
<1> QED BY <1>1, <1>2, ConstantWords DEF Init, TypeOK, HostStates

LEMMA TypeStep == TypeOK /\ [Next]_vars => TypeOK'
<1> SUFFICES ASSUME TypeOK, [Next]_vars
             PROVE  TypeOK'
  OBVIOUS
<1>1. CASE Clock
  <2>1. Core!CoreTypeOK'
    BY <1>1, CoreTyped DEF Clock
  <2>2. Cu!CuTypeOK' /\ Ru!RuTypeOK'
    BY <1>1, UnitsTyped DEF Clock
  <2>3. pc' \in HostStates /\ request' \in Commands
    BY <1>1 DEF Clock, hostVars, TypeOK
  <2> QED BY <1>1, <2>1, <2>2, <2>3, PortTyped DEF Clock, TypeOK
<1>2. CASE Host
  BY <1>2, HostTyped
<1>3. CASE UNCHANGED vars
  BY <1>3 DEF vars, TypeOK, Core!CoreTypeOK, Cu!CuTypeOK, Ru!RuTypeOK
<1> QED BY <1>1, <1>2, <1>3 DEF Next

\* Every register, wire and word of memory keeps its type, in every composition
\* of the chip with the driver.
THEOREM TypeCorrect == Spec => []TypeOK
BY TypeInit, TypeStep, PTL DEF Spec
-----------------------------------------------------------------------------
\* The driver does not touch the chip but through the CSR and the memory.
LEMMA HostKeepsCore ==
  ASSUME Host
  PROVE  UNCHANGED <<coreVars, unitVars, portVars, core_rst, ca>>
BY DEF Host, HostStep, HostWaits, HoldReset, Build, Release, FirstAttention,
   BusyCleared, InitReported, IssueRequest, HandleInterrupt, Issue, Ring,
   Accepted, HostUnchanged, ChipUnchanged, coreVars, unitVars, portVars

\* The driver's steps keep the dialogue's invariant.
LEMMA HostDialogue ==
  ASSUME IInv, Host
  PROVE  DialogueInv' /\ AcknowledgeInv'
<1> USE DEF IInv, DialogueInv, AcknowledgeInv, Shown, PortInv, BuildInv,
            ReleaseInv, WalkInv, ReadyInv, WaitInv, PublishInv, ResetInv,
            RequestInv, NoLostWork, BeingHandled,
            Rested, Unwalked, Walking, NoToken, InCsr, OnWire, Latched,
            OnTheWay, InitMemory, AboutToRead, Taken, bus_ack, ev,
            HostUnchanged, ChipUnchanged, coreVars, unitVars, portVars, memVars,
            WriteCtrl, CsrFree, Core!Request, Core!Kept, Core!PublishStates,
            Core!TakenStates, Core!WalkStates
<1>1. CASE HoldReset       BY <1>1 DEF HoldReset, TypeOK
<1>2. CASE Build           BY <1>2 DEF Build, ZeroStatus
<1>3. CASE Release         BY <1>3 DEF Release
<1>4. CASE FirstAttention  BY <1>4 DEF FirstAttention
<1>5. CASE BusyCleared     BY <1>5 DEF BusyCleared
<1>6. CASE InitReported    BY <1>6 DEF InitReported
<1>7. ASSUME NEW cmd \in Commands, Issue(cmd)
      PROVE  DialogueInv' /\ AcknowledgeInv'
  BY <1>7 DEF Issue
<1>8. CASE IssueRequest
  <2>1. PICK cuc \in CuRequests, ruc \in RuRequests, reset \in {FALSE, SoftReset} :
          Issue([ack |-> {}, cuc |-> cuc, ruc |-> ruc, reset |-> reset])
    BY <1>8 DEF IssueRequest
  <2>2. [ack |-> {}, cuc |-> cuc, ruc |-> ruc, reset |-> reset] \in Commands
    BY RequestsAssumption DEF Commands
  <2> QED BY <2>1, <2>2, <1>7
<1>9. CASE HandleInterrupt
  <2>1. [NoCommand EXCEPT !.ack = mem_status.flags] \in Commands
    BY DEF TypeOK, NoCommand, Commands, Statuses, Controls
  <2> QED BY <1>9, <2>1, <1>7 DEF HandleInterrupt
<1>10. CASE Ring           BY <1>10 DEF Ring
<1>11. CASE Accepted       BY <1>11 DEF Accepted
<1> QED
  BY <1>1, <1>2, <1>3, <1>4, <1>5, <1>6, <1>8, <1>9, <1>10, <1>11
     DEF Host, HostStep, HostWaits
-----------------------------------------------------------------------------
\* An edge of clk: the core resets, or its sequencer takes a step; and while
\* the port has not answered, a sequencer with something to ask for stands still.

LEMMA CoreCases ==
  ASSUME Clock
  PROVE  \/ core_rst /\ Core!CoreReset
         \/ ~core_rst /\ Core!FlagsEdge /\ Core!Sequencer
BY DEF Clock, Core!CoreEdge, Core!CoreReset

LEMMA CoreStands ==
  ASSUME ~core_rst, Core!Sequencer, ~bus_ack
  PROVE  Core!Uninit \/ Core!Idle \/ Core!AwaitBus
BY DEF Core!Sequencer, Core!Walk, Core!ClearBusy, Core!TakeCommand,
   Core!TakingCmd, Core!StartCu, Core!StartRu, Core!StatusWritten,
   Core!CommandCleared

LEMMA CoreGoesOn ==
  ASSUME ~core_rst, Core!Sequencer, bus_ack
  PROVE  \/ Core!Uninit \/ Core!Walk \/ Core!ClearBusy \/ Core!Idle
         \/ Core!TakeCommand \/ Core!StartCu \/ Core!StartRu
         \/ Core!StatusWritten \/ Core!CommandCleared
BY DEF Core!Sequencer, Core!AwaitBus

\* The port's part: the access under way stays the one the core asks for.
LEMMA PortClock ==
  ASSUME IInv, Clock
  PROVE  PortInv'
<1> USE DEF IInv, DialogueInv, PortInv
<1>1. CASE port' = "IDLE"
  BY <1>1
<1>2. CASE port' # "IDLE"
  <2>1. /\ ~bus_ack
        /\ \/ port = "IDLE" /\ Core!Request # "NONE"
              /\ access' = [kind |-> Core!Request, data |-> status_tx]
           \/ port # "IDLE" /\ access' = access
    BY <1>2 DEF Clock, PortEdge, PortMoves, PortIdle, PortWait, PortStart,
       PortDone, PortAck, portVars, bus_ack
  <2>2. access'.kind # "NONE"
    BY <2>1
  <2>3. CASE core_rst /\ Core!CoreReset
    BY <2>2, <2>3 DEF Core!CoreReset
  <2>4. CASE ~core_rst /\ Core!Uninit
    BY <2>2, <2>4 DEF Core!Uninit, Core!ConsumeCa
  <2>5. CASE ~core_rst /\ Core!Idle
    BY <2>1, <2>5 DEF Core!Idle, Core!Request, Core!WalkStates,
       Core!PublishStates
  <2>6. CASE ~core_rst /\ Core!AwaitBus
    BY <2>1, <2>2, <2>6 DEF Core!AwaitBus, Core!Request
  <2> QED BY <2>1, <2>3, <2>4, <2>5, <2>6, CoreCases, CoreStands
<1> QED BY <1>1, <1>2

\* The attention moves one place on, or stays in ca_pending, or is consumed.
LEMMA TokenClock ==
  ASSUME IInv, Clock, ~core_rst
  PROVE  /\ csr # "CA" /\ ~ca /\ ~ca_pending => NoToken'
         /\ InCsr => OnWire'
         /\ OnWire => Latched'
         /\ Latched => IF state \in {"S_UNINIT", "S_IDLE"}
                       THEN NoToken' ELSE Latched'
<1>1. ca \in BOOLEAN /\ ca_pending \in BOOLEAN
  BY DEF IInv, TypeOK, Core!CoreTypeOK
<1>2. csr' = "NONE" /\ ca' = (csr = "CA")
  BY DEF Clock, CsrEdge
<1>3. CASE Core!LatchCa /\ ~(ca_pending /\ state \in {"S_UNINIT", "S_IDLE"})
  BY <1>1, <1>2, <1>3 DEF NoToken, InCsr, OnWire, Latched, Core!LatchCa
<1>4. CASE /\ ca_pending /\ state \in {"S_UNINIT", "S_IDLE"}
           /\ ca_pending' = FALSE
  BY <1>1, <1>2, <1>4 DEF NoToken, InCsr, OnWire, Latched
<1>5. CASE Core!Uninit
  BY <1>3, <1>4, <1>5 DEF Core!Uninit, Core!ConsumeCa
<1>6. CASE Core!Idle
  BY <1>3, <1>4, <1>6 DEF Core!Idle, Core!ConsumeCa
<1>7. CASE /\ Core!LatchCa
           /\ \/ Core!Walk \/ Core!ClearBusy \/ Core!TakeCommand
              \/ Core!StartCu \/ Core!StartRu \/ Core!StatusWritten
              \/ Core!CommandCleared \/ Core!AwaitBus
  <2>1. state \notin {"S_UNINIT", "S_IDLE"}
    BY <1>7 DEF Core!Walk, Core!WalkStates, Core!ClearBusy, Core!TakeCommand,
       Core!TakingCmd, Core!StartCu, Core!StartRu, Core!StatusWritten,
       Core!PublishStates, Core!CommandCleared, Core!AwaitBus, Core!Request
  <2> QED BY <1>3, <1>7, <2>1
<1> QED
  BY <1>5, <1>6, <1>7, CoreCases
     DEF Core!Sequencer, Core!Walk, Core!ClearBusy, Core!TakeCommand,
         Core!StartCu, Core!StartRu, Core!StatusWritten, Core!CommandCleared,
         Core!AwaitBus

\* What the port does to memory, with the core's request as its access.
LEMMA PortCases ==
  ASSUME IInv, Clock
  PROVE  \/ port = "IDLE" /\ port' \in {"IDLE", "ACTIVE"} /\ UNCHANGED memVars
         \/ port = "ACTIVE" /\ port' = "ACTIVE" /\ UNCHANGED <<access, memVars>>
         \/ PortDone
         \/ port = "ACK" /\ port' = "IDLE" /\ UNCHANGED memVars
BY DEF Clock, PortEdge, PortMoves, PortIdle, PortWait, PortStart, PortAck, 
   portVars, memVars

\* The core's rest between commands ends only with an attention.
LEMMA RestClock ==
  ASSUME IInv, Clock, ~core_rst, Rested
  PROVE  /\ mem_cmd' = mem_cmd
         /\ IF state = "S_IDLE" /\ ca_pending
            THEN state' = "S_SCB_RD_CMD" /\ port' # "ACK"
            ELSE Rested' /\ state' \in {"S_IDLE", "S_WR_STATUS"}
<1> USE DEF IInv, DialogueInv, PortInv, Rested, bus_ack
<1>1. CASE state = "S_IDLE"
  <2>1. port = "IDLE"
    BY <1>1 DEF Core!Request, Core!WalkStates, Core!PublishStates, TypeOK
  <2>2. Core!Idle
    BY <1>1, CoreCases DEF Core!Sequencer, Core!Uninit, Core!Walk,
       Core!WalkStates, Core!ClearBusy, Core!TakeCommand, Core!TakingCmd,
       Core!StartCu, Core!StartRu, Core!StatusWritten, Core!PublishStates,
       Core!CommandCleared, Core!AwaitBus, Core!Request
  <2> QED BY <2>1, <2>2, PortCases DEF Core!Idle, Core!ConsumeCa, PortDone, memVars
<1>2. CASE state = "S_WR_STATUS" /\ port # "ACK"
  <2>1. Core!AwaitBus
    BY <1>2, CoreCases, CoreStands DEF Core!Uninit, Core!Idle
  <2>2. port = "ACTIVE" => access.kind = "WRITE_STATUS"
    BY <1>2 DEF Core!Request, Core!WalkStates, Core!PublishStates
  <2> QED BY <1>2, <2>1, <2>2, PortCases DEF Core!AwaitBus, PortDone, memVars
<1>3. CASE port = "ACK"
  <2>1. mem_cmd' = mem_cmd /\ port' = "IDLE"
    BY <1>3, PortCases DEF PortDone, memVars
  <2>2. state # "S_IDLE"
    BY <1>3 DEF Core!Request, Core!WalkStates, Core!PublishStates
  <2>3. state' \in {"S_IDLE", "S_WR_STATUS"}
    BY <1>3, <2>2, CoreCases, CoreGoesOn DEF Core!Uninit, Core!Walk, Core!WalkStates,
       Core!ClearBusy, Core!Idle, Core!TakeCommand, Core!TakingCmd,
       Core!StartCu, Core!StartRu, Core!StatusWritten, Core!PublishStates,
       Core!CommandCleared
  <2> QED BY <2>1, <2>2, <2>3
<1> QED BY <1>1, <1>2, <1>3

\* Before the walk nothing starts it but an attention.
LEMMA UnwalkedClock ==
  ASSUME IInv, Clock, ~core_rst, Unwalked
  PROVE  IF state = "S_UNINIT" /\ ca_pending
         THEN state' = "S_SCP_SYSBUS" ELSE state' = "S_UNINIT"
<1>1. CASE state = "S_UNINIT"
  <2>1. Core!Uninit
    BY <1>1, CoreCases DEF Core!Sequencer, Core!Walk, Core!WalkStates,
       Core!ClearBusy, Core!Idle, Core!TakeCommand, Core!TakingCmd,
       Core!StartCu, Core!StartRu, Core!StatusWritten, Core!PublishStates,
       Core!CommandCleared, Core!AwaitBus, Core!Request
  <2> QED BY <1>1, <2>1 DEF Core!Uninit, Core!ConsumeCa
<1>2. CASE state = "S_SCB_CLR_CMD" /\ port = "ACK" /\ scb_cmd.reset
  <2>1. Core!CommandCleared
    BY <1>2, CoreCases, CoreGoesOn DEF bus_ack, Core!Uninit, Core!Walk,
       Core!WalkStates, Core!ClearBusy, Core!Idle, Core!TakeCommand,
       Core!TakingCmd, Core!StartCu, Core!StartRu, Core!StatusWritten,
       Core!PublishStates
  <2> QED BY <1>2, <2>1 DEF Core!CommandCleared
<1> QED BY <1>1, <1>2 DEF Unwalked

\* What an edge does to ISCP busy and to the status in memory.
LEMMA MemoryCases ==
  ASSUME Clock
  PROVE  /\ mem_busy' = mem_busy \/ (/\ PortDone /\ access.kind = "CLEAR_BUSY"
                                   /\ mem_busy' = FALSE)
         /\ mem_status' = mem_status \/ (PortDone /\ access.kind = "WRITE_STATUS")
         /\ mem_cmd' = mem_cmd \/ mem_cmd' = NoCommand
         /\ PortDone => port = "ACTIVE" /\ port' = "ACK"
         /\ PortDone /\ access.kind # "WRITE_STATUS" => mem_status' = mem_status
         /\ port' = "ACTIVE" => \/ port = "ACTIVE" /\ access' = access
                                \/ /\ port = "IDLE"
                                   /\ Core!Request # "NONE"
                                   /\ access'.kind = Core!Request
<1>1. PortIdle \/ PortStart \/ PortWait \/ PortDone \/ PortAck
  BY DEF Clock, PortEdge, PortMoves
<1>2. CASE PortIdle \/ PortWait
  BY <1>2 DEF PortIdle, PortWait, PortDone, memVars, portVars
<1>3. CASE PortStart
  BY <1>3 DEF PortStart, PortDone, memVars
<1>4. CASE PortDone
  BY <1>4 DEF PortDone
<1>5. CASE PortAck
  BY <1>5 DEF PortAck, PortDone, memVars
<1> QED BY <1>1, <1>2, <1>3, <1>4, <1>5

\* Busy and the status in memory are not faked before the walk is over, and
\* once started the walk ends at rest.
LEMMA WalkClock ==
  ASSUME IInv, Clock, ~core_rst, Unwalked \/ Walking, InitMemory
  PROVE  \/ Unwalked /\ InitMemory'
         \/ Walking /\ Walking' /\ InitMemory'
         \/ Walking /\ Rested'
<1> USE DEF IInv, DialogueInv, PortInv
<1>1. CASE Unwalked
  <2>1. state' \in {"S_UNINIT", "S_SCP_SYSBUS"}
    BY <1>1, UnwalkedClock
  <2>2. port' = "ACTIVE" => port = "ACTIVE" /\ access' = access
    BY MemoryCases, <1>1 DEF Unwalked, Core!Request, Core!WalkStates,
       Core!PublishStates
  <2>3. state # "S_ISCP_CLR_BUSY"
    BY <1>1 DEF Unwalked
  <2>4. InitMemory'
    BY MemoryCases, <2>1, <2>2, <2>3 DEF InitMemory, Core!WalkStates
  <2> QED BY <1>1, <2>4
<1>2. CASE state \in Core!WalkStates
  <2>1. \/ state' \in Core!WalkStates
        \/ state' = "S_ISCP_CLR_BUSY" /\ port' = "IDLE"
    <3>1. CASE bus_ack
      <4>1. Core!Walk
        BY <1>2, <3>1, CoreCases, CoreGoesOn DEF Core!Uninit, 
           Core!WalkStates, Core!ClearBusy, Core!Idle, Core!TakeCommand,
           Core!TakingCmd, Core!StartCu, Core!StartRu, Core!StatusWritten,
           Core!PublishStates, Core!CommandCleared
      <4>2. port' = "IDLE"
        BY <3>1, PortCases DEF PortDone, bus_ack
      <4> QED BY <4>1, <4>2 DEF Core!Walk, Core!WalkNext, Core!WalkStates
    <3>2. CASE ~bus_ack
      <4>1. Core!AwaitBus
        BY <1>2, <3>2, CoreCases, CoreStands DEF Core!Uninit, Core!Idle,
           Core!WalkStates
      <4> QED BY <1>2, <4>1 DEF Core!AwaitBus
    <3> QED BY <3>1, <3>2
  <2>2. Core!Request = "READ"
    BY <1>2 DEF Core!Request, Core!WalkStates, Core!PublishStates
  <2>3. state # "S_ISCP_CLR_BUSY"
    BY <1>2 DEF Core!WalkStates
  <2>4. InitMemory'
    BY MemoryCases, <2>1, <2>2, <2>3 DEF InitMemory
  <2> QED BY <1>2, <2>1, <2>4 DEF Walking
<1>3. CASE state = "S_ISCP_CLR_BUSY" /\ port # "ACK"
  <2>1. state' = state
    BY <1>3, CoreCases, CoreStands DEF bus_ack, Core!Uninit, Core!Idle,
       Core!AwaitBus
  <2>2. Core!Request = "CLEAR_BUSY"
    BY <1>3 DEF Core!Request, Core!WalkStates, Core!PublishStates
  <2>3. port # "IDLE" => access.kind = "CLEAR_BUSY"
    BY <1>3, <2>2
  <2>4. CASE port' = "ACK"
    BY <1>3, <2>1, <2>4 DEF Walking, Rested
  <2>5. CASE port' # "ACK"
    <3>1. InitMemory'
      BY MemoryCases, <1>3, <2>1, <2>2, <2>3, <2>5 DEF InitMemory, Core!WalkStates
    <3> QED BY <1>3, <2>1, <2>5, <3>1 DEF Walking
  <2> QED BY <2>4, <2>5
<1> QED BY <1>1, <1>2, <1>3 DEF Walking

\* The command word is read as the driver left it, and left alone until the
\* core's own write clears it.
LEMMA CommandClock ==
  ASSUME IInv, Clock, ~core_rst
  PROVE  /\ AboutToRead =>
              /\ mem_cmd' = mem_cmd
              /\ IF bus_ack
                 THEN Core!TakeCommand /\ Taken' /\ scb_cmd' = Core!Kept(mem_cmd)
                 ELSE AboutToRead'
         /\ Taken =>
              /\ scb_cmd' = scb_cmd
              /\ ~Core!TakeCommand
              /\ \/ Taken' /\ mem_cmd' = mem_cmd
                 \/ /\ state = "S_SCB_CLR_CMD" /\ state' = "S_SCB_CLR_CMD"
                    /\ port' = "ACK"
                    /\ mem_cmd' = NoCommand
<1> USE DEF IInv, DialogueInv, PortInv, bus_ack
<1>1. ASSUME AboutToRead
      PROVE  /\ mem_cmd' = mem_cmd
             /\ IF bus_ack
                THEN Core!TakeCommand /\ Taken' /\ scb_cmd' = Core!Kept(mem_cmd)
                ELSE AboutToRead'
  <2> USE <1>1 DEF AboutToRead
  <2>1. Core!Request = "READ_CMD"
    BY DEF Core!Request, Core!WalkStates, Core!PublishStates
  <2>2. mem_cmd' = mem_cmd /\ (PortDone => access.kind = "READ_CMD")
    <3>1. port = "ACTIVE" => access.kind = "READ_CMD"
      BY <2>1
    <3> QED BY <3>1, PortCases DEF PortDone, memVars
  <2>3. CASE port # "ACK"
    <3>1. state' = state
      BY <2>3, CoreCases, CoreStands DEF Core!Uninit, Core!Idle, Core!AwaitBus
    <3>2. port' = "ACK" => rdata' = mem_cmd
      BY <2>2, <2>3, PortCases DEF PortDone
    <3> QED BY <2>2, <2>3, <3>1, <3>2
  <2>4. CASE port = "ACK"
    <3>1. Core!TakeCommand
      BY <2>4, CoreCases, CoreGoesOn DEF Core!Uninit, Core!Walk,
         Core!WalkStates, Core!ClearBusy, Core!Idle, Core!StartCu,
         Core!StartRu, Core!StatusWritten, Core!PublishStates,
         Core!CommandCleared
    <3>2. port' = "IDLE"
      BY <2>4, PortCases DEF PortDone
    <3>3. state' \in Core!TakenStates
      BY <3>1 DEF Core!TakeCommand, Core!AfterCommand, Core!TakenStates
    <3>4. scb_cmd' = Core!Kept(mem_cmd)
      BY <2>4, <3>1 DEF Core!TakeCommand
    <3> QED BY <2>2, <2>4, <3>1, <3>2, <3>3, <3>4 DEF Taken
  <2> QED BY <2>3, <2>4
<1>2. ASSUME Taken
      PROVE  /\ scb_cmd' = scb_cmd
             /\ ~Core!TakeCommand
             /\ \/ Taken' /\ mem_cmd' = mem_cmd
                \/ /\ state = "S_SCB_CLR_CMD" /\ state' = "S_SCB_CLR_CMD"
                   /\ port' = "ACK"
                   /\ mem_cmd' = NoCommand
  <2> USE <1>2 DEF Taken, Core!TakenStates
  <2>1. ~Core!TakeCommand
    BY DEF Core!TakeCommand, Core!TakingCmd
  <2>2. CASE port = "ACK"
    <3>1. mem_cmd' = mem_cmd /\ port' = "IDLE"
      BY <2>2, PortCases DEF PortDone, memVars
    <3>2. Core!StartCu \/ Core!StartRu \/ Core!StatusWritten
      BY <2>1, <2>2, CoreCases, CoreGoesOn DEF Core!Uninit, Core!Walk,
         Core!WalkStates, Core!ClearBusy, Core!Idle, Core!CommandCleared
    <3>3. scb_cmd' = scb_cmd /\ state' \in Core!TakenStates
      BY <3>2 DEF Core!StartCu, Core!StartRu, Core!StatusWritten
    <3> QED BY <2>1, <3>1, <3>3
  <2>3. CASE port # "ACK"
    <3>1. scb_cmd' = scb_cmd /\ state' = state
      BY <2>3, CoreCases, CoreStands DEF Core!Uninit, Core!Idle, Core!AwaitBus
    <3>2. Core!Request = "CLEAR_CMD" <=> state = "S_SCB_CLR_CMD"
      BY DEF Core!Request, Core!WalkStates, Core!PublishStates
    <3>3. CASE mem_cmd' = mem_cmd /\ ~(state = "S_SCB_CLR_CMD" /\ port' = "ACK")
      BY <2>1, <3>1, <3>3
    <3>4. CASE PortDone
      BY <2>1, <3>1, <3>2, <3>4 DEF PortDone
    <3> QED BY <2>3, <3>3, <3>4, PortCases DEF memVars
  <2> QED BY <2>2, <2>3
<1> QED BY <1>1, <1>2

\* A finished status write left in memory what will be published.
LEMMA PublishClock ==
  ASSUME IInv, Clock
  PROVE  PublishInv'
<1> SUFFICES ASSUME port' = "ACK", state' \in Core!PublishStates
             PROVE  mem_status' = status_tx'
  BY DEF PublishInv
<1> USE DEF IInv, DialogueInv, PortInv, Core!PublishStates
<1>1. PortDone
  BY PortCases
<1>2. ~bus_ack
  BY <1>1 DEF PortDone, bus_ack
<1>3. ~core_rst
  BY CoreCases DEF Core!CoreReset
<1>4. ~Core!Idle
  BY <1>1 DEF PortDone, Core!Idle, Core!Request, Core!WalkStates
<1>5. Core!AwaitBus
  BY <1>2, <1>3, <1>4, CoreCases, CoreStands DEF Core!Uninit, Core!ConsumeCa
<1>6. access = [kind |-> "WRITE_STATUS", data |-> status_tx]
  BY <1>1, <1>5 DEF PortDone, Core!AwaitBus, Core!Request, Core!WalkStates
<1> QED BY <1>1, <1>5, <1>6 DEF PortDone, Core!AwaitBus

\* The driver has given the chip up and builds or has built its structures.
LEMMA BuildClock ==
  ASSUME IInv, Clock
  PROVE  BuildInv' /\ ReleaseInv'
<1> USE DEF IInv, DialogueInv
<1>1. /\ csr' = "NONE" /\ ca' = (csr = "CA")
      /\ core_rst' = IF csr = "NONE" THEN core_rst ELSE csr = "HOLD"
      /\ pc' = pc
  BY DEF Clock, CsrEdge, hostVars
<1>2. CASE core_rst
  <2>1. state' = "S_UNINIT" /\ ca_pending' = FALSE
    BY <1>2, CoreCases DEF Core!CoreReset
  <2>2. fresh' = fresh
    BY <1>2 DEF Clock, History, Cu!CuEdge, Cu!CuReset, Ru!RuEdge, Ru!RuReset
  <2>3. BuildInv'
    BY <1>1, <1>2, <2>1 DEF BuildInv, ResetInv, NoToken, Unwalked
  <2>4. ASSUME pc \in {"RELEASE", "ATTENTION"}
        PROVE  InitMemory'
    <3>1. Core!Request = "WRITE_STATUS" => state \in Core!PublishStates
      BY DEF Core!Request, Core!WalkStates, Core!PublishStates
    <3>2. Core!Request = "CLEAR_BUSY" => state = "S_ISCP_CLR_BUSY"
      BY DEF Core!Request, Core!WalkStates, Core!PublishStates
    <3> QED
      BY <1>2, <2>1, <2>4, <3>1, <3>2, MemoryCases
         DEF ReleaseInv, InitMemory, Core!WalkStates, Core!PublishStates
  <2>5. ReleaseInv'
    BY <1>1, <1>2, <2>1, <2>2, <2>4, MemoryCases DEF ReleaseInv, Unwalked
  <2> QED BY <2>3, <2>5
<1>3. CASE ~core_rst
  <2>1. BuildInv'
    BY <1>1, <1>3, TokenClock, UnwalkedClock
       DEF BuildInv, NoToken, Unwalked
  <2>2. ASSUME pc \in {"RELEASE", "ATTENTION"}
        PROVE  /\ NoToken' /\ Unwalked' /\ InitMemory' /\ ~core_rst'
               /\ mem_cmd' = NoCommand
    <3>1. Unwalked /\ ~ca /\ ~ca_pending /\ InitMemory /\ csr # "CA"
      BY <1>3, <2>2 DEF ReleaseInv
    <3>2. NoToken' /\ state' = "S_UNINIT"
      BY <1>3, <3>1, TokenClock, UnwalkedClock
    <3>3. InitMemory'
      BY <1>3, <3>1, WalkClock DEF Walking, Unwalked, Core!WalkStates
    <3> QED
      BY <1>1, <1>3, <2>2, <3>2, <3>3, MemoryCases DEF ReleaseInv, Unwalked
  <2>3. ReleaseInv'
    BY <1>1, <2>2 DEF ReleaseInv, NoToken
  <2> QED BY <2>1, <2>3
<1> QED BY <1>2, <1>3

\* The walk.
LEMMA InitClock ==
  ASSUME IInv, Clock
  PROVE  WalkInv'
<1> USE DEF IInv, DialogueInv
<1> SUFFICES ASSUME pc \in {"INIT_BUSY", "INIT_STATUS"}
             PROVE  WalkInv'
  BY DEF WalkInv, Clock, hostVars
<1>1. /\ ~core_rst /\ mem_cmd = NoCommand
      /\ pc' = pc
      /\ pc = "INIT_STATUS" => ~mem_busy
  BY DEF WalkInv, Clock, hostVars
<1>2. ~core_rst'
  BY <1>1 DEF WalkInv, OnTheWay, NoToken, InCsr, OnWire, Latched, Clock, CsrEdge
<1>3. mem_cmd' = NoCommand /\ (~mem_busy => ~mem_busy')
  <2>1. mem_cmd' = NoCommand
    BY <1>1, MemoryCases
  <2>2. mem_busy \in BOOLEAN
    BY DEF TypeOK
  <2>3. mem_busy' = mem_busy \/ mem_busy' = FALSE
    BY MemoryCases
  <2> QED BY <2>1, <2>2, <2>3
<1>4. CASE OnTheWay /\ Unwalked /\ InitMemory
  <2>1. InitMemory'
    BY <1>1, <1>4, WalkClock DEF Walking, Unwalked, Core!WalkStates
  <2>2. CASE Latched /\ state = "S_UNINIT"
    <3>1. NoToken' /\ state' = "S_SCP_SYSBUS"
      BY <1>1, <1>4, <2>2, TokenClock, UnwalkedClock DEF Latched
    <3> QED BY <1>1, <1>2, <1>3, <2>1, <3>1 DEF WalkInv, Walking, Core!WalkStates
  <2>3. CASE ~(Latched /\ state = "S_UNINIT")
    <3>1. OnTheWay'
      BY <1>1, <1>4, <2>3, TokenClock DEF OnTheWay, Unwalked
    <3>2. state' = "S_UNINIT"
      BY <1>1, <1>4, <2>3, UnwalkedClock DEF OnTheWay, InCsr, OnWire, Latched
    <3> QED BY <1>1, <1>2, <1>3, <2>1, <3>1, <3>2 DEF WalkInv, Unwalked
  <2> QED BY <2>2, <2>3
<1>5. CASE NoToken /\ Walking /\ InitMemory
  <2>1. NoToken'
    BY <1>1, <1>5, TokenClock DEF NoToken
  <2>2. (Walking' /\ InitMemory') \/ Rested'
    BY <1>1, <1>5, WalkClock DEF Walking, Unwalked, Core!WalkStates
  <2> QED BY <1>1, <1>2, <1>3, <2>1, <2>2 DEF WalkInv
<1>6. CASE NoToken /\ Rested
  <2>1. NoToken'
    BY <1>1, <1>6, TokenClock DEF NoToken
  <2>2. Rested'
    BY <1>1, <1>6, RestClock DEF NoToken
  <2> QED BY <1>1, <1>2, <1>3, <2>1, <2>2 DEF WalkInv
<1> QED BY <1>4, <1>5, <1>6 DEF WalkInv

\* The box between commands, and with a command in it.
LEMMA ReadyClock ==
  ASSUME IInv, Clock
  PROVE  ReadyInv'
<1> USE DEF IInv, DialogueInv
<1> SUFFICES ASSUME pc \in {"READY", "RING"}
             PROVE  ReadyInv'
  BY DEF ReadyInv, Clock, hostVars
<1>1. pc' = pc /\ request' = request /\ ~core_rst /\ NoToken /\ Rested
  BY DEF ReadyInv, Clock, hostVars
<1>2. ~core_rst'
  BY <1>1 DEF NoToken, Clock, CsrEdge
<1>3. NoToken'
  BY <1>1, TokenClock DEF NoToken
<1>4. Rested' /\ mem_cmd' = mem_cmd
  BY <1>1, RestClock DEF NoToken
<1> QED BY <1>1, <1>2, <1>3, <1>4 DEF ReadyInv

LEMMA WaitClock ==
  ASSUME IInv, Clock
  PROVE  WaitInv'
<1> USE DEF IInv, DialogueInv
<1> SUFFICES ASSUME pc = "WAIT"
             PROVE  WaitInv'
  BY DEF WaitInv, Clock, hostVars
<1>1. pc' = pc /\ request' = request /\ ~core_rst /\ request # NoCommand
  BY DEF WaitInv, Clock, hostVars
<1>2. ~core_rst'
  BY <1>1 DEF WaitInv, OnTheWay, NoToken, InCsr, OnWire, Latched, Clock, CsrEdge
<1>3. NoToken => NoToken'
  BY <1>1, TokenClock DEF NoToken
<1>4. CASE mem_cmd = request /\ OnTheWay /\ Rested
  <2>1. mem_cmd' = request
    BY <1>1, <1>4, RestClock
  <2>2. CASE Latched /\ state = "S_IDLE"
    <3>1. NoToken' /\ state' = "S_SCB_RD_CMD" /\ port' # "ACK"
      BY <1>1, <1>4, <2>2, TokenClock, RestClock DEF Latched
    <3> QED BY <1>1, <1>2, <2>1, <3>1 DEF WaitInv, AboutToRead, bus_ack
  <2>3. CASE ~(Latched /\ state = "S_IDLE")
    <3>1. OnTheWay'
      BY <1>1, <1>4, <2>3, TokenClock DEF OnTheWay, Rested
    <3>2. Rested'
      BY <1>1, <1>4, <2>3, RestClock DEF OnTheWay, InCsr, OnWire, Latched
    <3> QED BY <1>1, <1>2, <2>1, <3>1, <3>2 DEF WaitInv
  <2> QED BY <2>2, <2>3
<1>5. CASE mem_cmd = request /\ NoToken /\ AboutToRead
  BY <1>1, <1>2, <1>3, <1>5, CommandClock DEF WaitInv
<1>6. CASE mem_cmd = request /\ NoToken /\ Taken /\ scb_cmd = Core!Kept(request)
  <2>1. scb_cmd' = Core!Kept(request)
    BY <1>1, <1>6, CommandClock
  <2>2. CASE Taken' /\ mem_cmd' = mem_cmd
    BY <1>1, <1>2, <1>3, <1>6, <2>1, <2>2 DEF WaitInv
  <2>3. CASE state' = "S_SCB_CLR_CMD" /\ port' = "ACK" /\ mem_cmd' = NoCommand
    BY <1>1, <1>2, <1>3, <1>6, <2>1, <2>3
       DEF WaitInv, Rested, Unwalked, Core!Kept
  <2> QED BY <1>1, <1>6, <2>2, <2>3, CommandClock
<1>7. CASE /\ mem_cmd = NoCommand /\ NoToken
           /\ IF request.reset THEN Unwalked
              ELSE Rested /\ state # "S_ISCP_CLR_BUSY"
  <2>1. mem_cmd' = NoCommand
    BY <1>7, MemoryCases
  <2>2. request.reset => state' = "S_UNINIT"
    BY <1>1, <1>7, UnwalkedClock DEF NoToken
  <2>3. ~request.reset => Rested' /\ state' # "S_ISCP_CLR_BUSY"
    BY <1>1, <1>7, RestClock DEF NoToken
  <2> QED BY <1>1, <1>2, <1>3, <1>7, <2>1, <2>2, <2>3 DEF WaitInv, Unwalked
<1> QED BY <1>4, <1>5, <1>6, <1>7 DEF WaitInv

LEMMA ResetClock ==
  ASSUME IInv, Clock
  PROVE  ResetInv' /\ RequestInv'
<1> USE DEF IInv, DialogueInv, Clock, CsrEdge, hostVars
<1>1. RequestInv'
  BY DEF RequestInv
<1>2. csr = "HOLD" => pc = "BUILD"
  BY DEF TypeOK, HostStates, ReleaseInv, WalkInv, ReadyInv, WaitInv, NoToken,
     OnTheWay, InCsr, OnWire, Latched
<1>3. ResetInv'
  BY <1>2 DEF ResetInv
<1> QED BY <1>1, <1>3

\* The command the core takes is the one the driver waits for.
LEMMA TakenIsRequest ==
  ASSUME IInv, ~core_rst, Core!TakingCmd, pc # "BUILD"
  PROVE  pc = "WAIT" /\ rdata = request /\ mem_cmd = request /\ AboutToRead
<1> USE DEF IInv, DialogueInv, Core!TakingCmd, bus_ack
<1>1. ~Rested /\ ~Unwalked /\ ~Walking /\ ~Taken
  BY DEF Rested, Unwalked, Walking, Taken, Core!WalkStates, Core!TakenStates
<1>2. pc = "WAIT"
  BY <1>1 DEF TypeOK, HostStates, ReleaseInv, ResetInv, WalkInv, ReadyInv
<1>3. mem_cmd = request /\ AboutToRead
  BY <1>1, <1>2 DEF WaitInv
<1> QED BY <1>2, <1>3 DEF AboutToRead

\* No event is dropped: it is in the flags after the edge it was pulsed on.
LEMMA WorkClock ==
  ASSUME IInv, Clock
  PROVE  NoLostWork'
<1> USE DEF IInv, DialogueInv
<1>1. fresh' = fresh \cup ev' /\ pc' = pc /\ request' = request
  BY DEF Clock, History, hostVars, ev
<1>2. BeingHandled' = BeingHandled
  BY <1>1 DEF BeingHandled
<1>3. fresh' \in SUBSET Flags
  BY TypeStep DEF TypeOK, Next
<1>4. CASE core_rst
  <2>1. CASE pc = "BUILD"
    BY <1>1, <1>2, <1>3, <2>1 DEF BeingHandled, NoLostWork
  <2>2. CASE pc # "BUILD"
    BY <1>1, <1>4, <2>2 DEF ResetInv, ReleaseInv, NoLostWork
  <2> QED BY <2>1, <2>2
<1>5. CASE ~core_rst
  <2>1. CASE ~Core!TakingCmd
    <3>1. flags \cup ev \subseteq flags'
      BY <1>5, <2>1, CoreCases DEF Core!FlagsEdge, Core!FlagsNext,
         Core!AckApplied
    <3> QED BY <1>1, <1>2, <3>1 DEF NoLostWork
  <2>2. CASE Core!TakingCmd /\ (pc = "BUILD" \/ rdata.reset)
    <3>1. BeingHandled = Flags
      BY <1>5, <2>2, TakenIsRequest DEF BeingHandled
    <3> QED BY <1>2, <1>3, <3>1 DEF NoLostWork
  <2>3. CASE Core!TakingCmd /\ pc # "BUILD" /\ ~rdata.reset
    <3>1. pc = "WAIT" /\ rdata = request
      BY <1>5, <2>3, TakenIsRequest
    <3>2. BeingHandled = request.ack
      BY <2>3, <3>1 DEF BeingHandled
    <3>3. (flags \ request.ack) \cup ev \subseteq flags'
      BY <1>5, <2>3, <3>1, CoreCases DEF Core!FlagsEdge, Core!FlagsNext,
         Core!AckApplied
    <3> QED BY <1>1, <1>2, <3>2, <3>3 DEF NoLostWork
  <2> QED BY <2>1, <2>2, <2>3
<1> QED BY <1>4, <1>5

\* What an acknowledged flag may still show, in every copy of the flags.
LEMMA AcknowledgeClock ==
  ASSUME IInv, Clock
  PROVE  AcknowledgeInv'
<1> USE DEF IInv, DialogueInv
<1>1. pc' = pc /\ request' = request
  BY DEF Clock, hostVars
<1> SUFFICES ASSUME pc = "WAIT", ~request.reset
             PROVE  AcknowledgeInv'
  BY <1>1 DEF AcknowledgeInv
<1>2. ~core_rst
  BY DEF WaitInv
<1>3. renewed' = IF Core!TakingCmd THEN ev ELSE renewed \cup ev
  BY DEF Clock, History
<1>4. CASE Core!TakingCmd
  <2>1. rdata = request /\ mem_cmd = request /\ AboutToRead /\ bus_ack
    BY <1>2, <1>4, TakenIsRequest DEF Core!TakingCmd
  <2>2. Core!TakeCommand /\ mem_cmd' = request
    BY <1>2, <2>1, CommandClock
  <2>3. mem_cmd' # NoCommand /\ state' # "S_SCB_CLR_CMD"
    BY <2>1, <2>2 DEF WaitInv, Core!TakeCommand, Core!AfterCommand
  <2>4. /\ Core!FlagsNext = (flags \ request.ack) \cup ev
        /\ flags' = Core!FlagsNext
    BY <1>2, <1>4, <2>1, CoreCases DEF Core!FlagsEdge, Core!FlagsNext,
       Core!AckApplied, Core!InitEvents, Core!InitDone, Core!TakingCmd
  <2>5. status_tx'.flags = flags'
    BY <2>2, <2>4 DEF Core!TakeCommand, Core!MkStatus
  <2> QED
    BY <1>1, <1>3, <1>4, <2>3, <2>4, <2>5 DEF AcknowledgeInv, Shown
<1>5. CASE ~Core!TakingCmd
  <2>1. flags \cup ev \subseteq flags'
    BY <1>2, <1>5, CoreCases DEF Core!FlagsEdge, Core!FlagsNext, Core!AckApplied
  <2>2. renewed' \subseteq flags'
    BY <1>3, <1>5, <2>1 DEF AcknowledgeInv
  <2>3. state # "S_ISCP_CLR_BUSY" => flags' = flags \cup ev
    BY <1>2, <1>5, CoreCases DEF Core!FlagsEdge, Core!FlagsNext,
       Core!AckApplied, Core!InitEvents, Core!InitDone
  <2>4. CASE mem_cmd = request /\ Rested
    <3>1. mem_cmd' # NoCommand /\ ~Taken'
      BY <1>2, <2>4, RestClock DEF WaitInv, Rested, Taken, Core!TakenStates,
         bus_ack
    <3> QED BY <1>1, <2>2, <3>1 DEF AcknowledgeInv
  <2>5. CASE mem_cmd = request /\ AboutToRead
    <3>1. mem_cmd' # NoCommand /\ ~Taken'
      BY <1>2, <1>5, <2>5, CommandClock DEF WaitInv, AboutToRead, Taken,
         Core!TakenStates, Core!TakingCmd
    <3> QED BY <1>1, <2>2, <3>1 DEF AcknowledgeInv
  <2>6. CASE mem_cmd = request /\ Taken
    <3>1. Shown(flags)' /\ Shown(status_tx.flags)
      BY <1>1, <1>3, <1>5, <2>3, <2>6 DEF AcknowledgeInv, Shown, Taken,
         Core!TakenStates
    <3>2. status_tx' = status_tx
      BY <1>2, <2>6, CoreCases DEF Taken, Core!TakenStates, Core!Sequencer,
         Core!Uninit, Core!Walk, Core!WalkStates, Core!ClearBusy, Core!Idle,
         Core!TakeCommand, Core!TakingCmd, Core!StartCu, Core!StartRu,
         Core!StatusWritten, Core!CommandCleared, Core!AwaitBus
    <3>3. state' = "S_SCB_CLR_CMD" => Shown(mem_status.flags)'
      <4>1. CASE state = "S_SCB_CLR_CMD"
        <5>1. port = "ACTIVE" => access.kind = "CLEAR_CMD"
          BY <4>1 DEF PortInv, Core!Request, Core!WalkStates,
             Core!PublishStates
        <5>2. mem_status' = mem_status
          BY <5>1, MemoryCases
        <5> QED
          BY <1>1, <1>3, <1>5, <2>6, <4>1, <5>2 DEF AcknowledgeInv, Shown
      <4>2. CASE state # "S_SCB_CLR_CMD" /\ state' = "S_SCB_CLR_CMD"
        <5>1. bus_ack /\ state = "S_SCB_WR_STATUS"
          BY <1>2, <1>5, <2>6, <4>2, CoreCases DEF Taken, Core!TakenStates,
             Core!Sequencer, Core!Uninit, Core!Walk, Core!WalkStates,
             Core!ClearBusy, Core!Idle, Core!TakeCommand, Core!StartCu,
             Core!StartRu, Core!StatusWritten, Core!PublishStates,
             Core!CommandCleared, Core!AwaitBus
        <5>2. mem_status = status_tx
          BY <1>2, <5>1 DEF PublishInv, Core!PublishStates, bus_ack
        <5>3. mem_status' = mem_status
          BY <5>1, MemoryCases DEF bus_ack
        <5> QED
          BY <1>1, <1>3, <1>5, <2>6, <5>2, <5>3 DEF AcknowledgeInv, Shown
      <4> QED BY <4>1, <4>2
    <3>4. Shown(status_tx.flags)'
      BY <1>1, <1>3, <1>5, <3>1, <3>2 DEF Shown
    <3>5. mem_cmd' = NoCommand => state' = "S_SCB_CLR_CMD"
      BY <1>2, <2>6, CommandClock DEF WaitInv
    <3> QED BY <1>1, <2>2, <3>1, <3>3, <3>4, <3>5 DEF AcknowledgeInv
  <2>7. CASE mem_cmd = NoCommand /\ NoToken /\ Rested /\ state # "S_ISCP_CLR_BUSY"
    <3>1. Shown(flags)' /\ Shown(flags) /\ Shown(status_tx.flags)
          /\ Shown(mem_status.flags)
      BY <1>1, <1>3, <1>5, <2>3, <2>7 DEF AcknowledgeInv, Shown
    <3>2. status_tx' = status_tx \/ status_tx'.flags = flags
      BY <1>2, <2>7, CoreCases DEF Rested, Core!Sequencer, Core!Uninit,
         Core!Walk, Core!WalkStates, Core!ClearBusy, Core!Idle,
         Core!TakeCommand, Core!TakingCmd, Core!StartCu, Core!StartRu,
         Core!StatusWritten, Core!CommandCleared, Core!AwaitBus, Core!MkStatus
    <3>3. mem_status' = mem_status \/ mem_status' = status_tx
      <4>1. PortDone => access.data = status_tx
        BY <2>7 DEF PortInv, Rested, PortDone
      <4> QED BY <4>1, MemoryCases DEF PortDone
    <3>4. ~Taken'
      BY <1>2, <2>7, RestClock DEF NoToken, Taken, Core!TakenStates
    <3>5. Shown(status_tx.flags)' /\ Shown(mem_status.flags)'
      BY <1>1, <1>3, <1>5, <3>1, <3>2, <3>3 DEF Shown
    <3> QED BY <1>1, <2>2, <3>1, <3>4, <3>5 DEF AcknowledgeInv
  <2> QED BY <2>4, <2>5, <2>6, <2>7 DEF WaitInv
<1> QED BY <1>4, <1>5
-----------------------------------------------------------------------------
\* The theorems.

LEMMA InvInit == Init => IInv
<1> SUFFICES ASSUME Init PROVE IInv
  OBVIOUS
<1>1. TypeOK
  BY TypeInit
<1>2. DialogueInv /\ AcknowledgeInv
  BY DEF Init, Core!CoreInit, Cu!CuInit, Ru!RuInit, DialogueInv,
     AcknowledgeInv, PortInv, BuildInv, ReleaseInv, WalkInv, ReadyInv,
     WaitInv, PublishInv, ResetInv, RequestInv, NoLostWork
<1> QED BY <1>1, <1>2 DEF IInv

LEMMA InvStep == IInv /\ [Next]_vars => IInv'
<1> SUFFICES ASSUME IInv, [Next]_vars
             PROVE  IInv'
  OBVIOUS
<1>1. TypeOK'
  BY TypeStep DEF IInv
<1>2. CASE Clock
  BY <1>1, <1>2, PortClock, BuildClock, InitClock, ReadyClock, WaitClock,
     PublishClock, ResetClock, WorkClock, AcknowledgeClock
     DEF IInv, DialogueInv
<1>3. CASE Host
  BY <1>1, <1>3, HostDialogue DEF IInv
<1>4. CASE UNCHANGED vars
  BY <1>1, <1>4 DEF vars, IInv, DialogueInv, AcknowledgeInv, Shown, PortInv,
     BuildInv, ReleaseInv, WalkInv, ReadyInv, WaitInv, PublishInv, ResetInv,
     RequestInv, NoLostWork, BeingHandled, Rested, Unwalked, Walking, NoToken,
     InCsr, OnWire, Latched, OnTheWay, InitMemory, AboutToRead, Taken, bus_ack,
     ev, Core!Request
<1> QED BY <1>2, <1>3, <1>4 DEF Next

\* The dialogue's invariant holds throughout: the attention for a command is in
\* exactly one place, whatever is reset and whenever.
THEOREM Invariance == Spec => []IInv
BY InvInit, InvStep, PTL DEF Spec

\* The four safety invariants of the dialogue.
LEMMA InvImplies ==
  IInv => NoLostWork /\ SettingWins /\ AcknowledgedIsGone /\ AttentionKept
<1> SUFFICES ASSUME IInv
             PROVE  NoLostWork /\ SettingWins /\ AcknowledgedIsGone /\ AttentionKept
  OBVIOUS
<1> USE DEF IInv, DialogueInv
<1>1. NoLostWork
  OBVIOUS
<1>2. SettingWins
  BY DEF SettingWins, AcknowledgeInv
<1>3. AcknowledgedIsGone
  BY DEF AcknowledgedIsGone, AcknowledgeInv, Shown
<1>4. AttentionKept
  BY DEF AttentionKept, WaitInv, OnTheWay, InCsr, OnWire, Latched
<1> QED BY <1>1, <1>2, <1>3, <1>4

\* No completion the driver has not looked at is without a wake-up to come.
THEOREM NothingLost == Spec => []NoLostWork
BY Invariance, InvImplies, PTL

\* An event as late as the taking of an acknowledgement survives it.
THEOREM SettingOutlives == Spec => []SettingWins
BY Invariance, InvImplies, PTL

\* A flag acknowledged is gone once the command word reads zero.
THEOREM AcknowledgeTakesEffect == Spec => []AcknowledgedIsGone
BY Invariance, InvImplies, PTL

\* A channel attention is never forgotten.
THEOREM AttentionNotLost == Spec => []AttentionKept
BY Invariance, InvImplies, PTL

LEMMA InterruptStep ==
  ASSUME IInv, [Next]_vars, ~Core!Int, Core!Int'
  PROVE  mem_status'.flags = status_pub'.flags
<1>1. status_pub' # status_pub
  BY DEF Core!Int
<1>2. Clock
  BY <1>1, HostKeepsCore DEF vars, Next, coreVars
<1>3. ~core_rst
  <2>1. core_rst => status_pub' = Core!ZeroStatus
    BY <1>2, CoreCases DEF Core!CoreReset
  <2>2. Core!ZeroStatus.flags = {}
    BY DEF Core!ZeroStatus
  <2> QED BY <2>1, <2>2 DEF Core!Int
<1>4. bus_ack /\ state \in Core!PublishStates /\ status_pub' = status_tx
  BY <1>1, <1>2, <1>3, CoreCases DEF Core!FlagsEdge
<1>5. mem_status = status_tx
  BY <1>3, <1>4 DEF IInv, DialogueInv, PublishInv, bus_ack
<1>6. mem_status' = mem_status
  BY <1>2, <1>4, MemoryCases DEF bus_ack
<1> QED BY <1>4, <1>5, <1>6

\* A driver woken by the interrupt finds in memory the flags that raised it.
THEOREM StatusBeforeInterrupt == Spec => InterruptAfterStatus
<1>1. IInv /\ [Next]_vars =>
        [~Core!Int /\ Core!Int' => mem_status'.flags = status_pub'.flags]_vars
  BY InterruptStep
<1> QED BY <1>1, Invariance, PTL DEF Spec, InterruptAfterStatus

LEMMA BoxClock ==
  ASSUME IInv, Clock
  PROVE  [Mailbox!Next]_Box
<1> USE DEF IInv, DialogueInv
<1>1. pc' = pc /\ request' = request
  BY DEF Clock, hostVars
<1>2. CASE pc = "BUILD"
  BY <1>1, <1>2 DEF Box
<1>3. CASE pc # "BUILD" /\ mem_cmd = NoCommand
  BY <1>1, <1>3, MemoryCases DEF Box
<1>4. CASE pc # "BUILD" /\ mem_cmd # NoCommand
  <2>1. /\ ~core_rst
        /\ pc \in {"RING", "WAIT"}
    BY <1>4 DEF ResetInv, ReleaseInv, WalkInv, ReadyInv, TypeOK, HostStates
  <2>2. CASE Rested
    <3>1. ~Taken /\ ~Taken' /\ mem_cmd' = mem_cmd
      BY <2>1, <2>2, RestClock DEF Rested, Taken, Core!TakenStates, bus_ack
    <3> QED BY <1>1, <3>1 DEF Box
  <2>3. CASE AboutToRead
    <3>1. ~Taken /\ mem_cmd' = mem_cmd
      BY <2>1, <2>3, CommandClock DEF AboutToRead, Taken, Core!TakenStates
    <3>2. Box = "POSTED" /\ Box' \in {"POSTED", "TAKEN"}
      BY <1>1, <1>4, <3>1 DEF Box
    <3> QED BY <3>2 DEF Mailbox!Next, Mailbox!Take
  <2>4. CASE Taken
    <3>1. \/ Taken' /\ mem_cmd' = mem_cmd
          \/ mem_cmd' = NoCommand
      BY <2>1, <2>4, CommandClock
    <3>2. Box = "TAKEN" /\ Box' \in {"TAKEN", "EMPTY"}
      BY <1>1, <1>4, <2>4, <3>1 DEF Box
    <3> QED BY <3>2 DEF Mailbox!Next, Mailbox!Clear
  <2> QED BY <1>4, <2>1, <2>2, <2>3, <2>4 DEF ReadyInv, WaitInv
<1> QED BY <1>2, <1>3, <1>4

LEMMA BoxHost ==
  ASSUME IInv, Host
  PROVE  [Mailbox!Next]_Box
<1>1. Taken' = Taken
  BY HostKeepsCore DEF Taken, bus_ack, coreVars, portVars
<1>2. ASSUME UNCHANGED mem_cmd, pc # "BUILD", pc' # "BUILD"
      PROVE  UNCHANGED Box
  BY <1>1, <1>2 DEF Box
<1> USE DEF memVars
<1>3. CASE HoldReset
  BY <1>3 DEF HoldReset, Box, Mailbox!Next, Mailbox!Down
<1>4. CASE Build
  BY <1>4 DEF Build, Box, Mailbox!Next, Mailbox!Up
<1>5. CASE Release         BY <1>2, <1>5 DEF Release
<1>6. CASE FirstAttention  BY <1>2, <1>6 DEF FirstAttention
<1>7. CASE BusyCleared     BY <1>2, <1>7 DEF BusyCleared
<1>8. CASE InitReported    BY <1>2, <1>8 DEF InitReported
<1>9. ASSUME NEW cmd, Issue(cmd)
      PROVE  [Mailbox!Next]_Box
  <2>1. mem_cmd = NoCommand /\ ~Taken
    BY <1>9 DEF Issue, IInv, DialogueInv, ReadyInv, Rested, Taken,
       Core!TakenStates, bus_ack
  <2>2. Box = "EMPTY" /\ Box' = "POSTED"
    BY <1>1, <1>9, <2>1 DEF Issue, Box
  <2> QED BY <2>2 DEF Mailbox!Next, Mailbox!Post
<1>10. CASE IssueRequest   BY <1>9, <1>10 DEF IssueRequest
<1>11. CASE HandleInterrupt BY <1>9, <1>11 DEF HandleInterrupt
<1>12. CASE Ring           BY <1>2, <1>12 DEF Ring
<1>13. CASE Accepted
  <2>1. CASE request.reset
    BY <1>13, <2>1 DEF Accepted, Box, Mailbox!Next, Mailbox!Down
  <2>2. CASE ~request.reset
    BY <1>2, <1>13, <2>2 DEF Accepted
  <2> QED BY <2>1, <2>2
<1> QED
  BY <1>3, <1>4, <1>5, <1>6, <1>7, <1>8, <1>10, <1>11, <1>12, <1>13
     DEF Host, HostStep, HostWaits

\* The command word implements the mailbox: every command is read once, and is
\* cleared only after it was read, resets included.
THEOREM CommandWordIsMailbox == Spec => MailboxSafety
<1>1. Init => Mailbox!Init
  BY DEF Init, Mailbox!Init, Box
<1>2. IInv /\ [Next]_vars => [Mailbox!Next]_Box
  <2> SUFFICES ASSUME IInv, [Next]_vars
               PROVE  [Mailbox!Next]_Box
    OBVIOUS
  <2>1. CASE UNCHANGED vars
    BY <2>1 DEF vars, Box, Taken, bus_ack
  <2> QED BY <2>1, BoxClock, BoxHost DEF Next
<1> QED BY <1>1, <1>2, Invariance, PTL DEF Spec, MailboxSafety, Mailbox!Spec
=============================================================================
