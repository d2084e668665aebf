---------------------------- MODULE CommandProof ----------------------------
(***************************************************************************)
(* The command unit's theorems, for all lists, buffers, memories and clock *)
(* ratios, with the unit reset, started, suspended and aborted at will.    *)
(***************************************************************************)
EXTENDS CommandInv, SequenceTheorems, FiniteSetTheorems, WellFoundedInduction, TLAPS

\* The states in which a block is being carried out.
Carrying == {"CU_WR_BUSY"} \cup Cu!SetupStates \cup Cu!HdrStates
              \cup Cu!BufStates \cup Cu!SendStates

\* What the memory port does on an edge, as far as the unit can tell.
LEMMA PortSteps ==
  ASSUME PortEdge, CommandTypeOK
  PROVE  /\ port' \in {"IDLE", "ACTIVE", "ACK", "OTHER"}
         /\ bus_ack => port' = "IDLE" /\ UNCHANGED status
         /\ Cu!Request = Cu!NoRequest /\ port \in {"IDLE", "OTHER"}
              => port' \in {"IDLE", "OTHER"}
         /\ port' = "ACTIVE" => /\ UNCHANGED status
                                /\ \/ port = "ACTIVE" /\ UNCHANGED access
                                   \/ port = "IDLE" /\ access' = Cu!Request
         /\ port' = "ACK" => PortDone
         /\ DOMAIN status' = Blocks
BY DEF PortEdge, PortMoves, PortIdle, PortStart, PortWait, PortDone, PortAck,
       OtherStart, OtherDone, portVars, bus_ack, CommandTypeOK

\* States that ask for nothing.
LEMMA NoAsking ==
  state \in Unasking \cup {"CU_IDLE"} => Cu!Request = Cu!NoRequest
BY DEF Unasking, Cu!Request

\* A step in the middle of a block keeps hold of it.
LEMMA CarryingSteps ==
  ASSUME Cu!Dispatch \/ Cu!Setup \/ Cu!Staging \/ Cu!Sending
  PROVE  /\ state \in Carrying
         /\ state' \in Carrying \cup {"CU_FINISH"}
         /\ state' \in Unasking \cup {"CU_FINISH"} => bus_ack \/ state \in Unasking
         /\ UNCHANGED <<cb, cmd, link, suspended>>
         /\ Cu!Latch /\ cu_ev' = {}
<1> USE DEF Carrying, Unasking, Cu!SetupStates, Cu!HdrStates, Cu!BufStates,
            Cu!SendStates, Cu!Goto, Cu!listVars
<1>1. CASE Cu!Dispatch
  BY <1>1 DEF Cu!Dispatch, Cu!NoPulses, Cu!FirstState
<1>2. CASE Cu!Setup
  BY <1>2 DEF Cu!Setup, Cu!SetupIa, Cu!SetupCfg, Cu!SetupMcCount,
              Cu!SetupMcAddr, Cu!WriteTdr
<1>3. CASE Cu!Staging
  <2>1. CASE Cu!OpenTbd
    BY <1>3, <2>1 DEF Cu!Staging, Cu!OpenTbd
  <2>2. CASE Cu!StageHeader
    BY <1>3, <2>2 DEF Cu!Staging, Cu!StageHeader, Cu!Header
  <2>3. CASE Cu!Select
    BY <1>3, <2>3 DEF Cu!Staging, Cu!Select
  <2>4. CASE Cu!StageByte
    BY <1>3, <2>4 DEF Cu!Staging, Cu!StageByte
  <2>5. CASE Cu!ReadWord
    BY <1>3, <2>5 DEF Cu!Staging, Cu!ReadWord
  <2>6. CASE Cu!StageWord
    BY <1>3, <2>6 DEF Cu!Staging, Cu!StageWord
  <2> QED BY <1>3, <2>1, <2>2, <2>3, <2>4, <2>5, <2>6 DEF Cu!Staging
<1>4. CASE Cu!Sending
  BY <1>4 DEF Cu!Sending, Cu!Go, Cu!PadLoopback, Cu!EndLoopback
<1> QED BY <1>1, <1>2, <1>3, <1>4

\* The edge of a running unit, by what it is doing.
LEMMA CuCases ==
  ASSUME Cu!CuEdge
  PROVE  \/ Cu!CuReset
         \/ ~core_rst /\ (Cu!Idle \/ Cu!Fetch \/ Cu!Finish \/ Cu!NextBlock \/ Cu!Wait)
         \/ ~core_rst /\ (Cu!Dispatch \/ Cu!Setup \/ Cu!Staging \/ Cu!Sending)
BY DEF Cu!CuEdge

LEMMA SameWords ==
  /\ Cu!Controls = Controls
  /\ Unit!CuStates = CuStates
BY DEF Cu!Controls, Controls, Unit!CuStates, CuStates

-----------------------------------------------------------------------------
\* The command unit implements its contract with the SCB handler.

LEMMA EdgeKeepsPromise ==
  ASSUME Cu!CuEdge, suspended \in BOOLEAN, cu_ctl \in Controls
  PROVE  Unit!CuEdge
<1> USE DEF cus, Cu!Cus, Cu!Goto
<1>1. CASE Cu!CuReset
  BY <1>1 DEF Cu!CuReset, Unit!CuEdge, Unit!CuReset
<1>2. CASE ~core_rst /\ Cu!Idle
  <2>1. cus # "ACTIVE" /\ cu_ev' = {}
    BY <1>2 DEF Cu!Idle, Cu!NoPulses
  <2>2. cus' = CASE cu_ctl = "START" -> "ACTIVE"
                 [] cu_ctl = "RESUME" /\ cus = "SUSPENDED" -> "ACTIVE"
                 [] cu_ctl = "ABORT" -> "IDLE"
                 [] OTHER -> cus
    BY <1>2 DEF Cu!Idle, Cu!Resumes
  <2> QED BY <1>2, <2>1, <2>2 DEF Unit!CuEdge, Unit!CuControl
<1>3. CASE ~core_rst /\ Cu!Fetch
  BY <1>3 DEF Cu!Fetch, Cu!NoPulses, Unit!CuEdge, Unit!CuWork
<1>4. CASE ~core_rst /\ Cu!Finish
  BY <1>4 DEF Cu!Finish, Cu!Completed, Unit!CuEdge, Unit!CuWork
<1>5. CASE ~core_rst /\ Cu!NextBlock
  <2>1. CASE Cu!StopOrSuspend
    BY <1>5, <2>1 DEF Cu!NextBlock, Cu!StopOrSuspend, Unit!CuEdge, Unit!CuStop
  <2>2. CASE Cu!GoOn
    BY <1>5, <2>2 DEF Cu!NextBlock, Cu!GoOn, Unit!CuEdge, Unit!CuWork
  <2> QED BY <1>5, <2>1, <2>2 DEF Cu!NextBlock
<1>6. CASE ~core_rst /\ Cu!Wait
  <2>1. state # "CU_IDLE" /\ state' = state /\ cu_ev' = {}
    BY <1>6 DEF Cu!Wait, Cu!NoPulses, Cu!OwnPace, Cu!LbPace, Cu!RoomPace
  <2> QED BY <1>6, <2>1 DEF Unit!CuEdge, Unit!CuWork
<1>7. CASE ~core_rst /\ (Cu!Dispatch \/ Cu!Setup \/ Cu!Staging \/ Cu!Sending)
  <2>1. state # "CU_IDLE" /\ state' # "CU_IDLE" /\ cu_ev' = {}
    BY <1>7, CarryingSteps DEF Carrying, Cu!SetupStates, Cu!HdrStates,
       Cu!BufStates, Cu!SendStates
  <2> QED BY <1>7, <2>1 DEF Unit!CuEdge, Unit!CuWork
<1> QED BY CuCases, <1>1, <1>2, <1>3, <1>4, <1>5, <1>6, <1>7

-----------------------------------------------------------------------------
\* The invariant.

LEMMA InitInv == Init => CommandIInv
<1> SUFFICES ASSUME Init PROVE CommandIInv
  OBVIOUS
<1> USE DEF Init, Cu!CuInit
<1>1. CommandTypeOK
  BY DEF CommandTypeOK, Cu!States, Controls
<1>2. PulseInv /\ PortInv /\ AbortInv /\ ListInv /\ FinishInv
  BY DEF PulseInv, PortInv, Unasking, AbortInv, ListInv, Asking, Answered, FinishInv
<1> QED BY <1>1, <1>2 DEF CommandIInv

\* What the invariant speaks of, and what an edge of tx_clk leaves alone.
invVars == <<state, cb, cmd, link, suspended, suspend_pending, abort_pending,
             cu_ev, cu_ctl, cbl, port, access, rdata, status, due, aborted>>

LEMMA Stutters ==
  ASSUME CommandIInv, UNCHANGED invVars
  PROVE  CommandIInv'
BY DEF invVars, CommandIInv, CommandTypeOK, PulseInv, PortInv, AbortInv, ListInv,
       FinishInv, Asking, Answered

LEMMA TickKeepsInv ==
  ASSUME CommandIInv, Tick \/ UNCHANGED vars
  PROVE  CommandIInv'
<1>1. UNCHANGED invVars
  BY DEF Tick, vars, invVars, cuVars, ctlVars, portVars, listHist
<1> QED BY <1>1, Stutters

-----------------------------------------------------------------------------
\* An edge of clk keeps the invariant, part by part.

LEMMA TypeStep ==
  ASSUME CommandIInv, Clock
  PROVE  CommandTypeOK'
<1>1. Cu!CuEdge /\ PortEdge /\ ControlEdge /\ ListHistory /\ CommandTypeOK
  BY DEF Clock, CommandIInv
<1>2. port' \in {"IDLE", "ACTIVE", "ACK", "OTHER"} /\ DOMAIN status' = Blocks
  BY <1>1, PortSteps
<1>3. cu_ctl' \in Controls
  BY <1>1, ListAssumption DEF ControlEdge, PulsesNow, Controls
<1>4. aborted' \in BOOLEAN
  BY <1>1 DEF ListHistory
<1>5. /\ state' \in Cu!States
      /\ {suspended, suspend_pending, abort_pending}' \subseteq BOOLEAN
  <2> USE DEF Cu!Goto, Cu!Latch, Cu!LatchSuspend, Cu!LatchAbort, Cu!States,
              Cu!ListStates, CommandTypeOK, Cu!listVars
  <2>1. CASE Cu!CuReset
    BY <2>1 DEF Cu!CuReset
  <2>2. CASE Cu!Idle
    BY <1>1, <2>2 DEF Cu!Idle, Cu!StartClears
  <2>3. CASE Cu!Fetch
    BY <1>1, <2>3 DEF Cu!Fetch
  <2>4. CASE Cu!Finish
    BY <1>1, <2>4 DEF Cu!Finish
  <2>5. CASE Cu!NextBlock
    BY <1>1, <2>5 DEF Cu!NextBlock, Cu!StopOrSuspend, Cu!GoOn
  <2>6. CASE Cu!Wait
    BY <1>1, <2>6 DEF Cu!Wait
  <2>7. CASE Cu!Dispatch \/ Cu!Setup \/ Cu!Staging \/ Cu!Sending
    BY <1>1, <2>7, CarryingSteps DEF Carrying
  <2> QED BY <1>1, CuCases, <2>1, <2>2, <2>3, <2>4, <2>5, <2>6, <2>7
<1> QED BY <1>2, <1>3, <1>4, <1>5 DEF CommandTypeOK

\* Where the unit can come from when it is next to move on to the next block:
\* only from its own acknowledge.
LEMMA IntoNext ==
  ASSUME Cu!CuEdge, state' = "CU_NEXT"
  PROVE  state = "CU_FINISH" /\ bus_ack
<1> USE DEF Cu!Goto
<1>1. ~Cu!CuReset
  BY DEF Cu!CuReset
<1>2. ~(Cu!Idle \/ Cu!Fetch \/ Cu!NextBlock)
  BY DEF Cu!Idle, Cu!Fetch, Cu!NextBlock, Cu!StopOrSuspend, Cu!GoOn
<1>3. ~Cu!Wait
  BY DEF Cu!Wait, Cu!OwnPace, Cu!LbPace, Cu!RoomPace
<1>4. ~(Cu!Dispatch \/ Cu!Setup \/ Cu!Staging \/ Cu!Sending)
  BY CarryingSteps DEF Carrying, Cu!SetupStates, Cu!HdrStates, Cu!BufStates,
     Cu!SendStates
<1> QED BY CuCases, <1>1, <1>2, <1>3, <1>4 DEF Cu!Finish, Cu!Completed

LEMMA PulseStep ==
  ASSUME CommandIInv, Clock
  PROVE  PulseInv'
<1>1. Cu!CuEdge /\ PortEdge /\ ControlEdge
  BY DEF Clock
<1>2. SUFFICES ASSUME cu_ctl' # "NOP"
               PROVE  port' = "IDLE" /\ state' # "CU_NEXT"
                      /\ (cu_ctl' = "START" => cbl' \in Heads)
  BY DEF PulseInv
<1>3. OtherDone
  BY <1>1, <1>2 DEF ControlEdge, PulsesNow
<1>4. state' # "CU_NEXT"
  BY <1>1, <1>3, IntoNext DEF OtherDone, bus_ack
<1> QED BY <1>1, <1>3, <1>4 DEF ControlEdge, OtherDone

LEMMA PortStep ==
  ASSUME CommandIInv, Clock
  PROVE  PortInv'
<1>1. Cu!CuEdge /\ PortEdge /\ CommandTypeOK /\ PortInv
  BY DEF Clock, CommandIInv
<1>2. SUFFICES ASSUME state' \in Unasking
               PROVE  port' \in {"IDLE", "OTHER"}
  BY DEF PortInv
<1>3. bus_ack \/ state \in Unasking
  <2> USE <1>2 DEF Unasking, Cu!Goto
  <2>1. CASE Cu!CuReset
    BY <2>1 DEF Cu!CuReset
  <2>2. CASE Cu!Idle \/ Cu!Fetch \/ Cu!NextBlock
    BY <2>2 DEF Cu!Idle, Cu!Fetch, Cu!NextBlock, Cu!StopOrSuspend, Cu!GoOn
  <2>3. CASE Cu!Finish
    BY <2>3 DEF Cu!Finish, Cu!Completed
  <2>4. CASE Cu!Wait
    BY <2>4 DEF Cu!Wait
  <2>5. CASE Cu!Dispatch \/ Cu!Setup \/ Cu!Staging \/ Cu!Sending
    BY <2>5, CarryingSteps
  <2> QED BY <1>1, CuCases, <2>1, <2>2, <2>3, <2>4, <2>5
<1> QED BY <1>1, <1>3, PortSteps, NoAsking DEF PortInv

LEMMA AbortStep ==
  ASSUME CommandIInv, Clock
  PROVE  AbortInv'
<1>1. /\ Cu!CuEdge /\ ListHistory
      /\ CommandTypeOK /\ PulseInv /\ AbortInv
  BY DEF Clock, CommandIInv
<1>2. SUFFICES ASSUME aborted'
               PROVE  IF state' = "CU_IDLE" THEN ~suspended' ELSE abort_pending'
  BY DEF AbortInv
<1>3. /\ aborted \/ cu_ctl = "ABORT"
      /\ ~core_rst /\ ~(cu_ctl = "START" /\ state = "CU_IDLE")
  BY <1>1, <1>2 DEF ListHistory
<1>4. {suspended, abort_pending, aborted} \subseteq BOOLEAN
  BY <1>1 DEF CommandTypeOK
<1> USE DEF AbortInv, Cu!Goto, Cu!Latch, Cu!LatchAbort, Cu!listVars
<1>5. CASE Cu!Idle
  BY <1>1, <1>3, <1>4, <1>5 DEF Cu!Idle, Cu!Resumes
<1>6. CASE Cu!Fetch
  BY <1>1, <1>3, <1>4, <1>6 DEF Cu!Fetch
<1>7. CASE Cu!Finish
  BY <1>1, <1>3, <1>4, <1>7 DEF Cu!Finish, Cu!Completed
<1>8. CASE Cu!NextBlock
  <2>1. abort_pending
    BY <1>1, <1>3, <1>4, <1>8 DEF Cu!NextBlock, PulseInv
  <2> QED BY <1>8, <2>1 DEF Cu!NextBlock, Cu!StopOrSuspend, Cu!GoOn, Cu!Stops
<1>9. CASE Cu!Wait
  BY <1>1, <1>3, <1>4, <1>9 DEF Cu!Wait, Cu!OwnPace, Cu!LbPace, Cu!RoomPace
<1>10. CASE Cu!Dispatch \/ Cu!Setup \/ Cu!Staging \/ Cu!Sending
  <2>1. state # "CU_IDLE" /\ state' # "CU_IDLE" /\ Cu!Latch
    BY <1>10, CarryingSteps DEF Carrying, Cu!SetupStates, Cu!HdrStates,
       Cu!BufStates, Cu!SendStates
  <2> QED BY <1>1, <1>3, <1>4, <2>1
<1> QED BY <1>1, <1>3, CuCases, <1>5, <1>6, <1>7, <1>8, <1>9, <1>10 DEF Cu!CuReset

\* The two words of a block the list is walked by.
LEMMA BlockWords ==
  ASSUME NEW b \in Blocks
  PROVE  /\ Memory(Cu!Half(b, 2)) = Cb[b].cmd  /\ Cu!Half(b, 2).data = "READ"
         /\ Memory(Cu!Half(b, 4)) = Cb[b].link /\ Cu!Half(b, 4).data = "READ"
<1>1. b # "BUF" /\ b \notin Tbds
  BY BlocksAssumption
<1> QED BY <1>1 DEF Memory, BlockField, Cu!Half, Cu!Read

LEMMA ListStep ==
  ASSUME CommandIInv, Clock
  PROVE  ListInv'
<1>1. /\ Cu!CuEdge /\ PortEdge /\ ListHistory
      /\ CommandTypeOK /\ PulseInv /\ PortInv /\ ListInv
  BY DEF Clock, CommandIInv
<1>2. suspended \in BOOLEAN /\ cu_ctl \in Controls
  BY <1>1 DEF CommandTypeOK
<1> USE DEF ListInv, Asking, Answered, Cu!Goto
<1>3. CASE Cu!CuReset
  BY <1>3 DEF Cu!CuReset
<1>4. CASE ~core_rst /\ Cu!Idle
  <2>1. state = "CU_IDLE" /\ state' \in {"CU_IDLE", "CU_FETCH_CMD"}
    BY <1>4 DEF Cu!Idle
  <2>2. CASE cu_ctl = "START"
    <3>1. cb' = cbl /\ due' = cbl /\ suspended' = FALSE /\ cbl \in Blocks
      BY <1>1, <1>4, <2>1, <2>2, ListAssumption
         DEF Cu!Idle, Cu!Resumes, ListHistory, PulseInv
    <3>2. port' \in {"IDLE", "OTHER"}
      BY <1>1, <2>1, <2>2, PortSteps, NoAsking DEF PulseInv
    <3> QED BY <2>1, <3>1, <3>2
  <2>3. CASE cu_ctl # "START"
    <3>1. UNCHANGED <<cb, due>>
      BY <1>1, <1>4, <2>1, <2>3 DEF Cu!Idle, ListHistory
    <3>2. CASE Cu!Resumes
      <4>1. suspended /\ port' \in {"IDLE", "OTHER"}
        BY <1>1, <2>1, <3>2, PortSteps, NoAsking DEF PulseInv, Cu!Resumes
      <4>2. suspended' = FALSE
        BY <1>4, <2>3, <3>2 DEF Cu!Idle
      <4> QED BY <1>1, <2>1, <3>1, <4>1, <4>2
    <3>3. CASE ~Cu!Resumes
      <4>1. state' = "CU_IDLE" /\ (suspended' => suspended)
        BY <1>2, <1>4, <2>1, <2>3, <3>3 DEF Cu!Idle
      <4> QED BY <1>1, <2>1, <3>1, <4>1
    <3> QED BY <3>2, <3>3
  <2> QED BY <2>2, <2>3
<1>5. CASE Cu!Fetch
  <2>1. /\ port = "ACK" /\ port' = "IDLE"
        /\ UNCHANGED <<cb, due, suspended>>
    BY <1>1, <1>5, PortSteps DEF Cu!Fetch, ListHistory, bus_ack
  <2> QED BY <1>1, <1>5, <2>1 DEF Cu!Fetch
<1>6. CASE Cu!Finish
  <2>1. state = "CU_FINISH" /\ state' = "CU_NEXT" /\ due' = Cb[cb].link
    BY <1>1, <1>6 DEF Cu!Finish, Cu!Completed, ListHistory
  <2> QED BY <1>1, <1>6, <2>1 DEF Cu!Finish, Cu!listVars
<1>7. CASE Cu!NextBlock
  <2>1. /\ state = "CU_NEXT" /\ UNCHANGED <<cmd, link, due>>
        /\ port' \in {"IDLE", "OTHER"}
    BY <1>1, <1>7, PortSteps, NoAsking
       DEF Cu!NextBlock, ListHistory, PortInv, Unasking
  <2>2. ~cmd.el => link \in Blocks
    BY <1>1, <2>1, BlocksAssumption
  <2>3. CASE Cu!GoOn
    <3>1. state' = "CU_FETCH_CMD" /\ cb' = link /\ ~cmd.el
      BY <2>3 DEF Cu!GoOn, Cu!Stops
    <3> QED BY <1>1, <2>1, <2>2, <3>1
  <2>4. CASE Cu!StopOrSuspend
    <3>1. state' = "CU_IDLE" /\ (suspended' => cb' = link /\ ~cmd.el)
      BY <2>4 DEF Cu!StopOrSuspend, Cu!Stops, Cu!SuspendNext
    <3> QED BY <1>1, <2>1, <2>2, <3>1
  <2> QED BY <1>7, <2>3, <2>4 DEF Cu!NextBlock
<1>8. CASE Cu!Wait
  <2>1. /\ state # "CU_IDLE" /\ state # "CU_NEXT"
        /\ UNCHANGED <<state, cb, link, cmd, suspended>>
    BY <1>8 DEF Cu!Wait, Cu!OwnPace, Cu!LbPace, Cu!RoomPace, Cu!listVars
  <2>2. UNCHANGED due
    BY <1>1, <1>8, <2>1 DEF Cu!Wait, Cu!LbPace, Cu!RoomPace, ListHistory
  <2>3. cb \in Blocks
    BY <1>1, <2>1
  <2>4. /\ Asking("CU_FETCH_CMD")'  => access' = Cu!Half(cb, 2)
        /\ Asking("CU_FETCH_LINK")' => access' = Cu!Half(cb, 4)
    BY <1>1, <2>1, PortSteps DEF Cu!Request
  <2>5. /\ Answered("CU_FETCH_CMD")'  => rdata' = Cb[cb].cmd
        /\ Answered("CU_FETCH_LINK")' => rdata' = Cb[cb].link
    BY <1>1, <2>1, <2>3, PortSteps, BlockWords DEF PortDone
  <2>6. /\ (Asking("CU_FETCH_CMD")'  => access' = Cu!Half(cb', 2))
        /\ (Asking("CU_FETCH_LINK")' => access' = Cu!Half(cb', 4))
    BY <2>1, <2>4
  <2> QED BY <1>1, <2>1, <2>2, <2>3, <2>5, <2>6
<1>9. CASE Cu!Dispatch \/ Cu!Setup \/ Cu!Staging \/ Cu!Sending
  <2>1. /\ state \notin {"CU_IDLE", "CU_FETCH_CMD", "CU_FETCH_LINK", "CU_FINISH", "CU_NEXT"}
        /\ state' \notin {"CU_IDLE", "CU_FETCH_CMD", "CU_FETCH_LINK", "CU_NEXT"}
        /\ UNCHANGED <<cb, cmd, link, suspended>>
    BY <1>9, CarryingSteps DEF Carrying, Cu!SetupStates, Cu!HdrStates,
       Cu!BufStates, Cu!SendStates
  <2>2. UNCHANGED due
    BY <1>1, <2>1 DEF ListHistory
  <2> QED BY <1>1, <2>1, <2>2
<1> QED BY <1>1, CuCases, <1>3, <1>4, <1>5, <1>6, <1>7, <1>8, <1>9

LEMMA FinishStep ==
  ASSUME CommandIInv, Clock
  PROVE  FinishInv'
<1>1. /\ Cu!CuEdge /\ PortEdge
      /\ CommandTypeOK /\ PortInv /\ ListInv /\ FinishInv
  BY DEF Clock, CommandIInv
<1> USE DEF FinishInv, Asking, Answered, Cu!Goto, Completion
<1>2. CASE Cu!CuReset
  BY <1>2 DEF Cu!CuReset
<1>3. CASE Cu!Idle \/ Cu!Fetch \/ Cu!NextBlock
  <2>1. state' # "CU_FINISH" /\ "CX" \notin cu_ev'
    BY <1>3 DEF Cu!Idle, Cu!Fetch, Cu!NextBlock, Cu!StopOrSuspend, Cu!GoOn,
       Cu!NoPulses
  <2> QED BY <2>1
<1>4. CASE Cu!Finish
  <2>1. /\ state = "CU_FINISH" /\ port = "ACK" /\ state' = "CU_NEXT"
        /\ UNCHANGED <<cb, status>>
    BY <1>1, <1>4, PortSteps DEF Cu!Finish, Cu!Completed, bus_ack, Cu!listVars
  <2> QED BY <1>1, <2>1
<1>5. CASE Cu!Wait
  <2>1. UNCHANGED <<state, cb>> /\ cu_ev' = {}
    BY <1>5 DEF Cu!Wait, Cu!NoPulses, Cu!listVars
  <2>2. SUFFICES ASSUME state = "CU_FINISH"
                 PROVE  FinishInv'
    BY <2>1
  <2>3. \E s \in Completion : Cu!Request = Cu!Write(cb, 0, s)
    BY <2>2 DEF Cu!Request
  <2>4. Asking("CU_FINISH")' => \E s \in Completion : access' = Cu!Write(cb, 0, s)
    BY <1>1, <2>2, <2>3, PortSteps
  <2>5. Answered("CU_FINISH")' => status'[cb] \in Completion
    <3>1. SUFFICES ASSUME port' = "ACK"
                   PROVE  status'[cb] \in Completion
      OBVIOUS
    <3>2. PortDone
      BY <1>1, <3>1, PortSteps
    <3>3. PICK s \in Completion : access = Cu!Write(cb, 0, s)
      BY <1>1, <2>2, <3>2 DEF PortDone
    <3>4. access.of = cb /\ access.n = 0 /\ access.data = s /\ s # "READ"
      BY <3>3 DEF Cu!Write
    <3>5. status' = [status EXCEPT ![cb] = s]
      BY <3>2, <3>4 DEF PortDone
    <3>6. cb \in DOMAIN status
      BY <1>1, <2>2 DEF CommandTypeOK, ListInv
    <3> QED BY <3>5, <3>6
  <2> QED BY <2>1, <2>4, <2>5
<1>6. CASE Cu!Dispatch \/ Cu!Setup \/ Cu!Staging \/ Cu!Sending
  <2>1. cu_ev' = {}
    BY <1>6, CarryingSteps
  <2>2. state' = "CU_FINISH" => port' \in {"IDLE", "OTHER"}
    BY <1>1, <1>6, CarryingSteps, PortSteps, NoAsking DEF PortInv
  <2> QED BY <2>1, <2>2
<1> QED BY <1>1, CuCases, <1>2, <1>3, <1>4, <1>5, <1>6

-----------------------------------------------------------------------------
\* The theorems.

\* In every reachable state the unit has the right block in hand, its access
\* has got as far as its state says, and an abort is not forgotten.
THEOREM CommandInvariance == Spec => []CommandIInv
<1>1. CommandIInv /\ [Next]_vars => CommandIInv'
  <2> SUFFICES ASSUME CommandIInv, [Next]_vars
               PROVE  CommandIInv'
    OBVIOUS
  <2>1. CASE Clock
    BY <2>1, TypeStep, PulseStep, PortStep, AbortStep, ListStep, FinishStep
       DEF CommandIInv
  <2> QED BY <2>1, TickKeepsInv DEF Next
<1> QED BY InitInv, <1>1, PTL DEF Spec

\* The unit only ever works on the block that is due.
THEOREM ListIsFollowed == Spec => []ListOrder
<1>1. CommandIInv => ListOrder
  BY DEF CommandIInv, ListInv, ListOrder
<1> QED BY CommandInvariance, <1>1, PTL

\* A block reported done shows it in memory.
THEOREM CompletionBeforeEvent == Spec => []EventAfterCompletion
<1>1. CommandIInv => EventAfterCompletion
  BY DEF CommandIInv, FinishInv, EventAfterCompletion, Completion
<1> QED BY CommandInvariance, <1>1, PTL

\* After an abort no block is begun before the next start.
THEOREM AbortIsHonoured == Spec => AbortHonoured
<1>1. CommandIInv /\ [Next]_vars => [aborted /\ Begins => cu_ctl = "START"]_vars
  <2> SUFFICES ASSUME CommandIInv, Clock, aborted, Begins
               PROVE  cu_ctl = "START"
    BY DEF Next, Tick, cuVars, Begins
  <2>1. Cu!CuEdge /\ CommandTypeOK /\ AbortInv
    BY DEF Clock, CommandIInv
  <2>2. state \in {"CU_IDLE", "CU_NEXT"} /\ state' = "CU_FETCH_CMD"
    BY DEF Begins
  <2>3. CASE Cu!Idle
    BY <2>1, <2>2, <2>3 DEF Cu!Idle, Cu!Resumes, AbortInv
  <2>4. CASE Cu!NextBlock
    BY <2>1, <2>2, <2>4
       DEF Cu!NextBlock, Cu!StopOrSuspend, Cu!GoOn, Cu!Stops, Cu!Goto, AbortInv
  <2>5. ~(Cu!CuReset \/ Cu!Fetch \/ Cu!Finish \/ Cu!Wait)
    BY <2>2 DEF Cu!CuReset, Cu!Fetch, Cu!Finish, Cu!Completed, Cu!Wait
  <2>6. ~(Cu!Dispatch \/ Cu!Setup \/ Cu!Staging \/ Cu!Sending)
    BY <2>2, CarryingSteps DEF Carrying, Cu!SetupStates, Cu!HdrStates,
       Cu!BufStates, Cu!SendStates
  <2> QED BY <2>1, CuCases, <2>3, <2>4, <2>5, <2>6
<1> QED BY CommandInvariance, <1>1, PTL DEF Spec, AbortHonoured

\* The command unit is what the SCB handler is told it is.
THEOREM UnitPromiseKept == Spec => UnitPromise
<1>1. Init => Unit!CuInit
  BY DEF Init, Cu!CuInit, Unit!CuInit, cus, Cu!Cus
<1>2. CommandIInv /\ [Next]_vars => [Unit!CuEdge]_<<core_rst, cu_ctl, cus, cu_ev>>
  <2> SUFFICES ASSUME CommandIInv, [Next]_vars
               PROVE  [Unit!CuEdge]_<<core_rst, cu_ctl, cus, cu_ev>>
    OBVIOUS
  <2>1. CASE Clock
    BY <2>1, EdgeKeepsPromise DEF Clock, CommandIInv, CommandTypeOK
  <2>2. CASE Tick \/ UNCHANGED vars
    BY <2>2 DEF Tick, vars, ctlVars, cuVars, cus, Cu!Cus
  <2> QED BY <2>1, <2>2 DEF Next
<1> QED BY CommandInvariance, <1>1, <1>2, PTL DEF Spec, UnitPromise

-----------------------------------------------------------------------------
\* Setup blocks: what they read, and what they leave in force.

\* A state that reads asks for what it wants, or for nothing.
LEMMA WantedIs ==
  ASSUME state \in Reading
  PROVE  /\ Cu!Request \in {Wanted, Cu!NoRequest}
         /\ Wanted.data = "READ"
BY DEF Reading, Wanted, Cu!Request, Cu!BufStates, Cu!Half, Cu!Read

\* A step into a state that reads follows an acknowledge, or a state that does
\* not read, or leaves it what it wants.
LEMMA IntoReading ==
  ASSUME Cu!CuEdge, state' \in Reading
  PROVE  bus_ack \/ state \in Unasking \/ UNCHANGED <<state, cb, idx, tbd, mc_off>>
<1> USE DEF Cu!Goto
<1> SUFFICES ASSUME ~bus_ack, state \notin Unasking
             PROVE  UNCHANGED <<state, cb, idx, tbd, mc_off>>
  OBVIOUS
<1>1. ~Cu!CuReset
  BY DEF Cu!CuReset, Reading, Cu!BufStates
<1>2. ~(Cu!Idle \/ Cu!Fetch \/ Cu!NextBlock \/ Cu!Finish \/ Cu!Dispatch)
  BY DEF Cu!Idle, Cu!Fetch, Cu!NextBlock, Cu!StopOrSuspend, Cu!GoOn, Cu!Finish,
     Cu!Completed, Cu!Dispatch, Reading, Cu!BufStates, Unasking
<1>3. ~Cu!Setup
  BY DEF Cu!Setup, Cu!SetupIa, Cu!SetupCfg, Cu!SetupMcCount, Cu!SetupMcAddr, Cu!WriteTdr
<1>4. ~(Cu!Staging \/ Cu!Sending)
  BY DEF Cu!Staging, Cu!OpenTbd, Cu!StageHeader, Cu!Select, Cu!StageByte, Cu!ReadWord,
     Cu!StageWord, Cu!Sending, Cu!Go, Cu!PadLoopback, Cu!EndLoopback, Unasking
<1> QED BY CuCases, <1>1, <1>2, <1>3, <1>4
        DEF Cu!Wait, Cu!listVars, Cu!setupVars, Cu!bufVars

\* While a state waits for what it wants, nothing else is asked for or answered.
LEMMA AccessStep ==
  ASSUME CommandIInv, AccessInv, Clock
  PROVE  AccessInv'
<1>1. Cu!CuEdge /\ PortEdge /\ CommandTypeOK /\ PortInv
  BY DEF Clock, CommandIInv
<1> SUFFICES ASSUME state' \in Reading
             PROVE  /\ port' = "ACTIVE" => access' = Wanted'
                    /\ port' = "ACK" => rdata' = Memory(Wanted')
  BY DEF AccessInv, Memory
<1>2. CASE bus_ack \/ state \in Unasking
  <2>1. port' \in {"IDLE", "OTHER"}
    BY <1>1, <1>2, PortSteps, NoAsking DEF PortInv
  <2> QED BY <2>1
<1>3. CASE UNCHANGED <<state, cb, idx, tbd, mc_off>>
  <2>1. state \in Reading /\ Wanted' = Wanted
    BY <1>3 DEF Wanted, Cu!TxAddr
  <2>2. ASSUME port' = "ACTIVE" PROVE access' = Wanted
    <3>1. CASE port = "ACTIVE"
      BY <1>1, <2>1, <2>2, <3>1, PortSteps DEF AccessInv
    <3>2. CASE port # "ACTIVE"
      BY <1>1, <2>1, <2>2, <3>2, WantedIs DEF PortEdge, PortMoves, PortIdle, PortStart,
         PortWait, PortDone, PortAck, OtherStart, OtherDone, portVars
    <3> QED BY <3>1, <3>2
  <2>3. ASSUME port' = "ACK" PROVE rdata' = Memory(Wanted)
    BY <1>1, <2>1, <2>3, PortSteps, WantedIs DEF PortDone, AccessInv
  <2> QED BY <2>1, <2>2, <2>3
<1> QED BY <1>1, <1>2, <1>3, IntoReading

\* A block is dispatched to states of its own kind.
LEMMA KindStep ==
  ASSUME CommandIInv, KindInv, Clock
  PROVE  KindInv'
<1>1. Cu!CuEdge /\ CommandTypeOK
  BY DEF Clock, CommandIInv
<1> USE DEF KindInv, Cu!Goto, Cu!HdrStates, Cu!BufStates, Cu!SendStates
<1>2. CASE Cu!CuReset
  BY <1>2 DEF Cu!CuReset
<1>3. CASE Cu!Idle \/ Cu!Fetch \/ Cu!Finish \/ Cu!NextBlock
  BY <1>3 DEF Cu!Idle, Cu!Fetch, Cu!Finish, Cu!NextBlock, Cu!StopOrSuspend, Cu!GoOn
<1>4. CASE Cu!Wait
  BY <1>4 DEF Cu!Wait
<1>5. CASE Cu!Dispatch
  BY <1>5 DEF Cu!Dispatch, Cu!FirstState, Cu!AlLoc
<1>6. CASE Cu!Setup
  BY <1>6 DEF Cu!Setup, Cu!SetupIa, Cu!SetupCfg, Cu!SetupMcCount, Cu!SetupMcAddr, Cu!WriteTdr
<1>7. CASE Cu!Staging
  BY <1>7 DEF Cu!Staging, Cu!OpenTbd, Cu!StageHeader, Cu!Header, Cu!Select, Cu!StageByte,
     Cu!ReadWord, Cu!StageWord
<1>8. CASE Cu!Sending
  BY <1>8 DEF Cu!Sending, Cu!Go, Cu!PadLoopback, Cu!EndLoopback
<1> QED BY <1>1, CuCases, <1>2, <1>3, <1>4, <1>5, <1>6, <1>7, <1>8

-----------------------------------------------------------------------------
\* The parameters of the setup blocks, as memory holds them.
LEMMA Parameters ==
  ASSUME NEW b \in Blocks
  PROVE  /\ Cb[b].cmd.op = "IA_SETUP" =>
              \A w \in 0..2 : Memory(Cu!Half(b, 6 + 2 * w)) = Byte(b, 6 + 2 * w)
         /\ Cb[b].cmd.op = "CONFIGURE" =>
              \A w \in 0..5 : Memory(Cu!Half(b, 6 + 2 * w)) = Cb[b].cfg[w]
         /\ Cb[b].cmd.op = "MC_SETUP" =>
              /\ Memory(Cu!Half(b, 6)) = Cb[b].mc
              /\ \A n \in Nat : n >= 8 => Memory(Cu!Half(b, n)) = Byte(b, n)
<1>1. b # "BUF" /\ b \notin Tbds
  BY BlocksAssumption
<1>2. \A n \in Nat : n >= 6 => Memory(Cu!Half(b, n)) = Param(b, n)
  BY <1>1 DEF Memory, BlockField, Cu!Half, Cu!Read
<1>3. \A w \in 0..5 : 6 + 2 * w \in Nat /\ 6 + 2 * w >= 6 /\ ((6 + 2 * w) - 6) \div 2 = w
  OBVIOUS
<1>4. CASE Cb[b].cmd.op = "IA_SETUP"
  BY <1>2, <1>3, <1>4 DEF Param
<1>5. CASE Cb[b].cmd.op = "CONFIGURE"
  BY <1>2, <1>3, <1>5 DEF Param
<1>6. CASE Cb[b].cmd.op = "MC_SETUP"
  BY <1>2, <1>6 DEF Param
<1> QED BY <1>4, <1>5, <1>6

\* How many words and addresses there are to fetch.
LEMMA Counts ==
  /\ \A c \in Nat : /\ Cu!CfgWords(c) \in 1..6
                    /\ \A w \in 0..5 : 2 * w < c => w < Cu!CfgWords(c)
  /\ \A n \in Nat : /\ Cu!McFit(n) \in 0..McSlots
                    /\ n < 6 => Cu!McFit(n) = 0
                    /\ n >= 6 => Cu!McFit(n) > 0
                    /\ Cu!McFit(n) = IF n \div 6 > McSlots THEN McSlots ELSE n \div 6
<1>1. McSlots \in Nat /\ McSlots > 0
  BY ListAssumption
<1>2. ASSUME NEW c \in Nat
      PROVE  /\ Cu!CfgWords(c) \in 1..6
             /\ \A w \in 0..5 : 2 * w < c => w < Cu!CfgWords(c)
  BY DEF Cu!CfgWords
<1>3. ASSUME NEW n \in Nat
      PROVE  /\ Cu!McFit(n) \in 0..McSlots
             /\ n < 6 => Cu!McFit(n) = 0
             /\ n >= 6 => Cu!McFit(n) > 0
             /\ Cu!McFit(n) = IF n \div 6 > McSlots THEN McSlots ELSE n \div 6
  BY <1>1 DEF Cu!McFit
<1> QED BY <1>2, <1>3

\* What an edge out of reset does to the multicast list.
LEMMA McMoves ==
  ASSUME Clock, ~core_rst
  PROVE  mc' = McSoon
BY DEF Clock, McEdge, McSoon

\* The list never holds more than fits, the address on its way included.
LEMMA SoonType ==
  ASSUME McTypeOK
  PROVE  McSoon \in Seq(Addresses) /\ Len(McSoon) <= McSlots /\ Len(McSoon) \in Nat
<1>1. McSlots \in Nat /\ McSlots > 0
  BY ListAssumption
<1>2. /\ mc \in Seq(Addresses) /\ Len(mc) \in Nat /\ Len(mc) <= McSlots
      /\ (mc_out.op = "ADD" => mc_out.addr \in Addresses)
  BY DEF McTypeOK
<1>3. /\ mc_out.op = "ADD" => /\ Append(mc, mc_out.addr) \in Seq(Addresses)
                              /\ Len(Append(mc, mc_out.addr)) = Len(mc) + 1
  BY <1>2
<1> QED BY <1>1, <1>2, <1>3 DEF McSoon

\* A step that is not one of a setup block leaves what they set up.
LEMMA Untouched ==
  ASSUME Cu!Idle \/ Cu!Fetch \/ Cu!Finish \/ Cu!NextBlock \/ Cu!Wait \/ Cu!Dispatch
           \/ Cu!Staging \/ Cu!Sending
  PROVE  mc_out' = Cu!NoMc /\ UNCHANGED <<ia, cfg, cfg_words, mc_all, mc_left, mc_off>>
BY DEF Cu!Idle, Cu!Fetch, Cu!Finish, Cu!NextBlock, Cu!Wait, Cu!Dispatch, Cu!Staging,
   Cu!Sending, Cu!NoPulses, Cu!setupVars

\* What a setup block did stays done until the block's end, and is undone by
\* nothing but another setup block.
LEMMA SetupRests ==
  ASSUME CommandIInv, SetupIInv, Clock, ~core_rst,
         Cu!Idle \/ Cu!Fetch \/ Cu!Finish \/ Cu!NextBlock \/ Cu!Wait \/ Cu!Dispatch
           \/ Cu!Staging \/ Cu!Sending
  PROVE  McTypeOK' /\ SetupInv'
<1>1. /\ mc_out' = Cu!NoMc /\ UNCHANGED <<ia, cfg, cfg_words, mc_all, mc_left, mc_off>>
      /\ mc' = McSoon
  BY Untouched, McMoves
<1>2. McSoon' = McSoon /\ mc_out'.op = "NONE"
  BY <1>1 DEF McSoon, Cu!NoMc
<1>3. McTypeOK'
  BY <1>1, <1>2, SoonType DEF SetupIInv, McTypeOK
<1>4. KindInv /\ SetupInv /\ ListInv
  BY DEF SetupIInv, CommandIInv
<1> USE DEF SetupInv, Cu!Goto
<1>5. CASE Cu!Idle \/ Cu!Fetch \/ Cu!NextBlock
  BY <1>3, <1>5 DEF Cu!Idle, Cu!Fetch, Cu!NextBlock, Cu!StopOrSuspend, Cu!GoOn
<1>6. CASE Cu!Staging \/ Cu!Sending
  <2>1. state' \in Carrying \cup {"CU_FINISH"} /\ UNCHANGED cmd
    BY <1>6, CarryingSteps
  <2>2. cmd.op = "TRANSMIT"
    BY <1>4, <1>6 DEF KindInv, Cu!HdrStates, Cu!BufStates, Cu!SendStates, Cu!Staging,
       Cu!OpenTbd, Cu!StageHeader, Cu!Select, Cu!StageByte, Cu!ReadWord, Cu!StageWord,
       Cu!Sending, Cu!Go, Cu!PadLoopback, Cu!EndLoopback
  <2>3. state' \notin Cu!SetupStates /\ state' # "CU_NEXT"
    BY <1>6 DEF Cu!SetupStates, Cu!Staging, Cu!OpenTbd, Cu!StageHeader, Cu!Header, Cu!Select,
       Cu!StageByte, Cu!ReadWord, Cu!StageWord, Cu!Sending, Cu!Go, Cu!PadLoopback,
       Cu!EndLoopback
  <2> QED BY <1>3, <2>1, <2>2, <2>3 DEF Cu!SetupStates
<1>7. CASE Cu!Finish \/ Cu!Wait
  <2>1. /\ UNCHANGED <<cb, cmd, idx>>
        /\ \/ UNCHANGED state /\ state # "CU_NEXT"
           \/ state = "CU_FINISH" /\ state' = "CU_NEXT"
    BY <1>7 DEF Cu!Finish, Cu!Completed, Cu!Wait, Cu!OwnPace, Cu!LbPace, Cu!RoomPace,
       Cu!listVars
  <2>2. /\ \A n : IaDone(n) => IaDone(n)'
        /\ \A n : CfgDone(n) => CfgDone(n)'
        /\ \A n : McDone(n) => McDone(n)'
        /\ CfgLen' = CfgLen /\ McLen' = McLen
    BY <1>1, <1>2, <2>1 DEF IaDone, CfgDone, McDone, CfgLen, McLen, Cu!CfgWords, Cu!McFit
  <2> HIDE DEF IaDone, CfgDone, McDone, CfgLen, McLen
  <2> QED BY <1>1, <1>2, <1>3, <1>4, <2>1, <2>2
<1>8. CASE Cu!Dispatch
  <2>1. state = "CU_WR_BUSY" /\ idx' = 0 /\ state' = Cu!FirstState /\ UNCHANGED <<cb, cmd>>
    BY <1>8 DEF Cu!Dispatch, Cu!listVars
  <2>2. cb \in Blocks /\ cmd = Cb[cb].cmd
    BY <1>4, <2>1 DEF ListInv
  <2>3. cmd.op = "CONFIGURE" => CfgLen' \in 1..6
    BY <2>1, <2>2, ParametersAssumption, Counts DEF CfgLen, Cu!CfgWords
  <2>4. IaDone(0)' /\ CfgDone(0)'
    BY DEF IaDone, CfgDone
  <2>5. /\ state' = "CU_CFG" => cmd.op = "CONFIGURE"
        /\ state' # "CU_MC_RD_ADDR" /\ state' # "CU_NEXT"
        /\ state' = "CU_FINISH" => cmd.op \notin {"IA_SETUP", "CONFIGURE", "MC_SETUP"}
    BY <2>1 DEF Cu!FirstState
  <2> QED BY <1>3, <2>1, <2>3, <2>4, <2>5
<1> QED BY <1>3, <1>5, <1>6, <1>7, <1>8

-----------------------------------------------------------------------------
\* What a setup block in hand reads, acknowledged, is its own parameter.
LEMMA SetupRead ==
  ASSUME CommandIInv, SetupIInv, bus_ack, state \in Cu!SetupStates \ {"CU_TDR_WR"}
  PROVE  /\ cb \in Blocks /\ cmd = Cb[cb].cmd
         /\ state = "CU_IA" => rdata = Byte(cb, 6 + 2 * idx)
         /\ state = "CU_CFG" => rdata = Cb[cb].cfg[idx]
         /\ state = "CU_MC_RD_CNT" => rdata = Cb[cb].mc
         /\ state = "CU_MC_RD_ADDR" => rdata = Byte(cb, mc_off + 2 * idx)
<1>1. cb \in Blocks /\ cmd = Cb[cb].cmd
  BY DEF CommandIInv, ListInv, Cu!SetupStates
<1>2. KindInv /\ SetupInv
  BY DEF SetupIInv
<1>3. rdata = Memory(Wanted)
  BY DEF SetupIInv, AccessInv, Reading, Cu!SetupStates, bus_ack
<1>4. CASE state = "CU_IA"
  BY <1>1, <1>2, <1>3, <1>4, Parameters DEF KindInv, SetupInv, Wanted
<1>5. CASE state = "CU_CFG"
  <2>1. cmd.op = "CONFIGURE" /\ Cb[cb].cfg[0].count \in Nat
    BY <1>1, <1>2, <1>5, ParametersAssumption DEF KindInv
  <2>2. CfgLen \in 1..6
    BY <2>1, Counts DEF CfgLen
  <2>3. idx \in 0..5
    BY <1>2, <1>5, <2>2 DEF SetupInv
  <2>4. Wanted = Cu!Half(cb, 6 + 2 * idx)
    BY <1>5 DEF Wanted
  <2> QED BY <1>1, <1>3, <1>5, <2>1, <2>3, <2>4, Parameters
<1>6. CASE state = "CU_MC_RD_CNT"
  <2>1. Wanted = Cu!Half(cb, 6)
    BY <1>6 DEF Wanted
  <2> QED BY <1>1, <1>2, <1>3, <1>6, <2>1, Parameters DEF KindInv
<1>7. CASE state = "CU_MC_RD_ADDR"
  <2>1. cmd.op = "MC_SETUP" /\ Cb[cb].mc \in Nat
    BY <1>1, <1>2, <1>7, ParametersAssumption DEF KindInv
  <2>2. McLen \in Nat
    BY <2>1, Counts, ListAssumption DEF McLen
  <2>3. mc_off + 2 * idx \in Nat /\ mc_off + 2 * idx >= 8
    BY <1>2, <1>7, <2>2 DEF SetupInv
  <2>4. Wanted = Cu!Half(cb, mc_off + 2 * idx)
    BY <1>7 DEF Wanted
  <2> QED BY <1>1, <1>3, <1>7, <2>1, <2>3, <2>4, Parameters
<1> QED BY <1>1, <1>4, <1>5, <1>6, <1>7 DEF Cu!SetupStates

\* One more word of the address is in place.
LEMMA IaStep ==
  ASSUME CommandIInv, SetupIInv, Clock, ~core_rst, Cu!Setup, Cu!SetupIa
  PROVE  McTypeOK' /\ SetupInv'
<1>1. /\ state = "CU_IA" /\ bus_ack /\ UNCHANGED <<cb, cmd, mc_out>>
      /\ ia' = [ia EXCEPT ![idx] = rdata] /\ UNCHANGED cfg
      /\ IF idx = 2 THEN state' = "CU_FINISH" /\ UNCHANGED idx
                    ELSE idx' = idx + 1 /\ UNCHANGED state
  BY DEF Cu!Setup, Cu!SetupIa, Cu!Goto, Cu!listVars
<1>2. /\ idx \in 0..2 /\ IaDone(idx) /\ cmd.op = "IA_SETUP"
      /\ rdata = Byte(cb, 6 + 2 * idx)
  BY <1>1, SetupRead DEF SetupIInv, SetupInv, KindInv, Cu!SetupStates
<1>3. McTypeOK /\ mc' = McSoon
  BY McMoves DEF SetupIInv
<1>4. McTypeOK'
  BY <1>1, <1>3, SoonType DEF McTypeOK
<1>5. \A w \in 0..2 : w < idx + 1 => ia'[w] = Byte(cb, 6 + 2 * w)
  BY <1>1, <1>2, <1>3 DEF IaDone, McTypeOK
<1>6. idx = 2 => IaDone(3)'
  <2>1. idx = 2 => \A w \in 0..2 : ia'[w] = Byte(cb', 6 + 2 * w)
    BY <1>1, <1>5
  <2> QED BY <2>1 DEF IaDone, Byte
<1>7. state' \in {"CU_IA", "CU_FINISH"} /\ cmd'.op = "IA_SETUP"
  BY <1>1, <1>2
<1>8. state' = "CU_IA" => idx' \in 0..2 /\ IaDone(idx)'
  BY <1>1, <1>2, <1>5 DEF IaDone
<1>9. state' = "CU_FINISH" => IaDone(3)'
  BY <1>1, <1>2, <1>6
<1> QED BY <1>4, <1>7, <1>8, <1>9 DEF SetupInv

\* One more word of the parameters is in place, and how many there are is known.
LEMMA CfgStep ==
  ASSUME CommandIInv, SetupIInv, Clock, ~core_rst, Cu!Setup, Cu!SetupCfg
  PROVE  McTypeOK' /\ SetupInv'
<1>1. /\ state = "CU_CFG" /\ bus_ack /\ UNCHANGED <<cb, cmd, mc_out>>
      /\ cfg' = [cfg EXCEPT ![idx] = rdata] /\ UNCHANGED ia
      /\ cfg_words' = IF idx = 0 THEN Cu!CfgWords(rdata.count) ELSE cfg_words
      /\ IF idx + 1 >= cfg_words' THEN state' = "CU_FINISH" /\ UNCHANGED idx
                                  ELSE idx' = idx + 1 /\ UNCHANGED state
  BY DEF Cu!Setup, Cu!SetupCfg, Cu!Goto, Cu!listVars
<1>2. /\ idx \in 0..(CfgLen - 1) /\ CfgDone(idx) /\ cmd.op = "CONFIGURE"
      /\ (idx > 0 => cfg_words = CfgLen)
      /\ rdata = Cb[cb].cfg[idx] /\ cb \in Blocks /\ cmd = Cb[cb].cmd
  BY <1>1, SetupRead DEF SetupIInv, SetupInv, KindInv, Cu!SetupStates
<1>3. McTypeOK /\ mc' = McSoon
  BY McMoves DEF SetupIInv
<1>4. McTypeOK'
  BY <1>1, <1>3, SoonType DEF McTypeOK
<1>5. CfgLen \in 1..6 /\ CfgLen' = CfgLen
  BY <1>1, <1>2, ParametersAssumption, Counts DEF CfgLen, Cu!CfgWords
<1>6. cfg_words' = CfgLen
  BY <1>1, <1>2 DEF CfgLen
<1> HIDE DEF CfgLen
<1>7. \A w \in 0..5 : w < idx + 1 => cfg'[w] = Cb[cb].cfg[w]
  BY <1>1, <1>2, <1>3, <1>5 DEF CfgDone, McTypeOK
<1>8. state' = "CU_CFG" => idx' \in 0..(CfgLen' - 1) /\ CfgDone(idx)' /\ cfg_words' = CfgLen'
  <2>1. state' = "CU_CFG" => idx' = idx + 1 /\ idx + 1 < CfgLen
    BY <1>1, <1>2, <1>5, <1>6
  <2> QED BY <1>1, <1>2, <1>5, <1>6, <1>7, <2>1 DEF CfgDone
<1>9. state' = "CU_FINISH" => CfgDone(CfgLen)'
  <2>1. state' = "CU_FINISH" => idx + 1 = CfgLen
    BY <1>1, <1>2, <1>5, <1>6
  <2>2. state' = "CU_FINISH" => \A w \in 0..5 : w < CfgLen => cfg'[w] = Cb[cb'].cfg[w]
    BY <1>1, <1>7, <2>1
  <2> QED BY <1>5, <2>2 DEF CfgDone
<1>10. state' \in {"CU_CFG", "CU_FINISH"} /\ cmd'.op = "CONFIGURE"
  BY <1>1, <1>2
<1> QED BY <1>4, <1>8, <1>9, <1>10 DEF SetupInv

\* The list is to be emptied; how many addresses will go in is known.
LEMMA McCountStep ==
  ASSUME CommandIInv, SetupIInv, Clock, ~core_rst, Cu!Setup, Cu!SetupMcCount
  PROVE  McTypeOK' /\ SetupInv'
<1>1. /\ state = "CU_MC_RD_CNT" /\ bus_ack /\ UNCHANGED <<cb, cmd, ia, cfg>>
      /\ mc_out'.op = "CLEAR" /\ mc_all' = Cu!McAll(rdata) /\ mc_left' = Cu!McFit(rdata)
      /\ mc_off' = 8 /\ idx' = 0
      /\ state' = IF rdata < 6 THEN "CU_FINISH" ELSE "CU_MC_RD_ADDR"
  BY DEF Cu!Setup, Cu!SetupMcCount, Cu!Goto, Cu!listVars, Cu!NoMc
<1>2. cmd.op = "MC_SETUP" /\ rdata = Cb[cb].mc /\ cb \in Blocks /\ cmd = Cb[cb].cmd
  BY <1>1, SetupRead DEF SetupIInv, KindInv, Cu!SetupStates
<1>3. McTypeOK /\ mc' = McSoon
  BY McMoves DEF SetupIInv
<1>4. McTypeOK'
  BY <1>1, <1>3, SoonType DEF McTypeOK
<1>5. rdata \in Nat
  BY <1>2, ParametersAssumption
<1>6. McLen' = Cu!McFit(rdata)
  BY <1>1, <1>2 DEF McLen, Cu!McFit
<1>7. McSoon' = <<>>
  BY <1>1 DEF McSoon
<1>8. McDone(0)'
  BY <1>1, <1>2, <1>7 DEF McDone, Cu!McAll
<1>9. state' = "CU_FINISH" => McLen' = 0
  BY <1>1, <1>5, <1>6, Counts
<1>10. state' = "CU_MC_RD_ADDR" => McLen' \in Nat /\ McLen' > 0 /\ mc_left' = McLen'
  BY <1>1, <1>5, <1>6, Counts, ListAssumption
<1>11. state' \in {"CU_MC_RD_ADDR", "CU_FINISH"} /\ cmd'.op = "MC_SETUP"
  BY <1>1, <1>2
<1> HIDE DEF McDone, McLen
<1>12. state' = "CU_FINISH" => McDone(McLen)'
  <2>1. SUFFICES ASSUME state' = "CU_FINISH" PROVE McDone(McLen)'
    OBVIOUS
  <2>2. McLen' = 0 /\ Len(McSoon') = 0 /\ \A k \in 1..0 : FALSE
    BY <1>7, <1>9, <2>1
  <2>3. mc_all' = (Cb[cb'].mc > 6 * McSlots)
    BY <1>1, <1>2 DEF Cu!McAll
  <2> QED BY <2>2, <2>3 DEF McDone
<1>13. state' = "CU_MC_RD_ADDR" =>
         /\ 0 \in 0..(McLen' - 1) /\ mc_left' = McLen' - 0 /\ mc_off' = 8 + 6 * 0
  BY <1>1, <1>10
<1> QED BY <1>1, <1>4, <1>8, <1>11, <1>12, <1>13 DEF SetupInv

\* A word of an address was read; the third hands the address over.
LEMMA McAddrStep ==
  ASSUME CommandIInv, SetupIInv, Clock, ~core_rst, Cu!Setup, Cu!SetupMcAddr
  PROVE  McTypeOK' /\ SetupInv'
<1>1. /\ state = "CU_MC_RD_ADDR" /\ bus_ack /\ UNCHANGED <<cb, cmd, ia, cfg, mc_all>>
      /\ IF idx < 2
         THEN idx' = idx + 1 /\ mc_out' = Cu!NoMc /\ UNCHANGED <<state, mc_off, mc_left>>
         ELSE /\ mc_out' = [op |-> "ADD", addr |-> rdata]
              /\ idx' = 0 /\ mc_off' = mc_off + 6 /\ mc_left' = mc_left - 1
              /\ state' = IF mc_left = 1 THEN "CU_FINISH" ELSE state
  BY DEF Cu!Setup, Cu!SetupMcAddr, Cu!Goto, Cu!listVars
<1>2. /\ idx \in 0..2 /\ cmd.op = "MC_SETUP" /\ cb \in Blocks /\ cmd = Cb[cb].cmd
      /\ rdata = Byte(cb, mc_off + 2 * idx)
  BY <1>1, SetupRead DEF SetupIInv, SetupInv, KindInv, Cu!SetupStates
<1>3. PICK j \in 0..(McLen - 1) : McDone(j) /\ mc_left = McLen - j /\ mc_off = 8 + 6 * j
  BY <1>1 DEF SetupIInv, SetupInv
<1>4. McLen \in 0..McSlots /\ McLen' = McLen /\ McSlots \in Nat
  BY <1>1, <1>2, ParametersAssumption, Counts, ListAssumption DEF McLen, KindInv, SetupIInv
<1>5. McTypeOK /\ mc' = McSoon /\ McSoon \in Seq(Addresses) /\ Len(McSoon) = j
  BY <1>3, McMoves, SoonType DEF SetupIInv, McDone
<1> HIDE DEF McLen
<1>6. state' \in {"CU_MC_RD_ADDR", "CU_FINISH"} /\ cmd'.op = "MC_SETUP"
  BY <1>1, <1>2
<1>7. CASE idx < 2
  <2>1. McSoon' = McSoon /\ McTypeOK'
    BY <1>1, <1>5, <1>7, SoonType DEF McSoon, McTypeOK, Cu!NoMc
  <2>2. McDone(j)'
    BY <1>1, <1>3, <2>1 DEF McDone
  <2>3. j \in 0..(McLen' - 1) /\ mc_left' = McLen' - j /\ mc_off' = 8 + 6 * j
    BY <1>1, <1>3, <1>4, <1>7
  <2> QED BY <1>1, <1>2, <1>7, <2>1, <2>2, <2>3 DEF SetupInv
<1>8. CASE idx = 2
  <2>1. /\ mc_out' = [op |-> "ADD", addr |-> rdata] /\ idx' = 0
        /\ mc_off' = 8 + 6 * (j + 1) /\ mc_left' = McLen - (j + 1)
        /\ state' = IF mc_left = 1 THEN "CU_FINISH" ELSE state
    BY <1>1, <1>3, <1>4, <1>8
  <2>2. rdata = Byte(cb, 6 + 6 * (j + 1)) /\ rdata \in Addresses
    BY <1>2, <1>3, <1>4, <1>8 DEF Byte, Addresses
  <2>3. McTypeOK'
    BY <1>1, <1>5, <2>1, <2>2, SoonType DEF McTypeOK
  <2>4. McSoon' = Append(McSoon, rdata)
    BY <1>3, <1>4, <1>5, <2>1 DEF McSoon
  <2>5. Len(McSoon') = j + 1 /\ \A k \in 1..(j + 1) : McSoon'[k] = Byte(cb, 6 + 6 * k)
    BY <1>3, <1>4, <1>5, <2>2, <2>4 DEF McDone
  <2>6. mc_all' = (Cb[cb'].mc > 6 * McSlots)
    BY <1>1, <1>3 DEF McDone
  <2>7. CASE mc_left = 1
    <3>1. McLen' = j + 1 /\ state' = "CU_FINISH"
      BY <1>3, <1>4, <2>1, <2>7
    <3>2. McDone(McLen)'
      BY <1>1, <2>5, <2>6, <3>1 DEF McDone
    <3> QED BY <1>6, <2>3, <3>1, <3>2 DEF SetupInv
  <2>8. CASE mc_left # 1
    <3>1. j + 1 \in 0..(McLen' - 1) /\ mc_left' = McLen' - (j + 1) /\ mc_off' = 8 + 6 * (j + 1)
          /\ state' = "CU_MC_RD_ADDR" /\ idx' \in 0..2
      BY <1>1, <1>3, <1>4, <2>1, <2>8
    <3>2. PICK i \in 0..(McLen' - 1) : i = j + 1
      BY <3>1
    <3>3. McDone(i)'
      BY <1>1, <2>5, <2>6, <3>2 DEF McDone
    <3> QED BY <2>3, <3>1, <3>2, <3>3 DEF SetupInv
  <2> QED BY <2>7, <2>8
<1> QED BY <1>2, <1>7, <1>8

\* Writing the result of a TDR sets nothing up.
LEMMA TdrStep ==
  ASSUME CommandIInv, SetupIInv, Clock, ~core_rst, Cu!Setup, Cu!WriteTdr
  PROVE  McTypeOK' /\ SetupInv'
<1>1. /\ state' = "CU_FINISH" /\ UNCHANGED <<cmd, ia, cfg>> /\ mc_out'.op = "NONE"
      /\ cmd.op = "TDR" /\ mc' = McSoon
  BY McMoves DEF Cu!Setup, Cu!WriteTdr, Cu!Goto, Cu!setupVars, Cu!NoMc, SetupIInv, KindInv
<1>2. McTypeOK'
  BY <1>1, SoonType DEF SetupIInv, McTypeOK
<1> QED BY <1>1, <1>2 DEF SetupInv

\* A reset empties the list and leaves no setup block in hand.
LEMMA SetupResets ==
  ASSUME CommandIInv, SetupIInv, Clock, Cu!CuReset
  PROVE  McTypeOK' /\ SetupInv'
<1>1. state' = "CU_IDLE" /\ mc_out'.op = "NONE" /\ mc' = <<>>
  BY DEF Cu!CuReset, Clock, McEdge, Cu!NoMc
<1>2. DOMAIN ia' = 0..2 /\ DOMAIN cfg' = 0..5
  BY DEF Cu!CuReset, SetupIInv, McTypeOK
<1>3. McTypeOK'
  BY <1>1, <1>2, ListAssumption DEF McTypeOK
<1> QED BY <1>1, <1>3 DEF SetupInv

\* The invariant of the setup blocks is inductive, given CommandIInv.
LEMMA SetupKept ==
  CommandIInv /\ SetupIInv /\ [Next]_vars => SetupIInv'
<1> SUFFICES ASSUME CommandIInv, SetupIInv, [Next]_vars
             PROVE  SetupIInv'
  OBVIOUS
<1>1. CASE Clock
  <2>1. KindInv' /\ AccessInv'
    BY <1>1, KindStep, AccessStep DEF SetupIInv
  <2>2. McTypeOK' /\ SetupInv'
    <3>1. Cu!CuEdge
      BY <1>1 DEF Clock
    <3>2. CASE Cu!CuReset
      BY <1>1, <3>2, SetupResets
    <3>3. CASE ~core_rst /\ Cu!Setup
      BY <1>1, <3>3, IaStep, CfgStep, McCountStep, McAddrStep, TdrStep DEF Cu!Setup
    <3>4. CASE ~core_rst /\ ~Cu!Setup /\ ~Cu!CuReset
      BY <1>1, <3>1, <3>4, CuCases, SetupRests
    <3> QED BY <3>1, <3>2, <3>3, <3>4, CuCases
  <2> QED BY <2>1, <2>2 DEF SetupIInv
<1>2. CASE Tick \/ UNCHANGED vars
  <2>1. UNCHANGED <<cuVars, portVars, mc>>
    BY <1>2 DEF Tick, vars
  <2>2. KindInv' /\ McTypeOK'
    BY <2>1 DEF cuVars, SetupIInv, KindInv, McTypeOK
  <2>3. AccessInv'
    <3>1. Wanted' = Wanted
      BY <2>1 DEF cuVars, Wanted, Cu!TxAddr
    <3> QED BY <2>1, <3>1 DEF cuVars, portVars, SetupIInv, AccessInv
  <2>4. SetupInv'
    <3>1. /\ \A n : IaDone(n)' = IaDone(n)
          /\ \A n : CfgDone(n)' = CfgDone(n)
          /\ \A n : McDone(n)' = McDone(n)
          /\ CfgLen' = CfgLen /\ McLen' = McLen
      BY <2>1 DEF cuVars, IaDone, CfgDone, McDone, McSoon, CfgLen, McLen
    <3>2. /\ UNCHANGED <<state, idx, cmd, cfg_words, mc_left, mc_off, mc_out>>
          /\ SetupInv
      BY <2>1 DEF cuVars, SetupIInv
    <3> HIDE DEF IaDone, CfgDone, McDone, CfgLen, McLen
    <3> QED BY <3>1, <3>2 DEF SetupInv
  <2> QED BY <2>2, <2>3, <2>4 DEF SetupIInv
<1> QED BY <1>1, <1>2 DEF Next

\* In every reachable state a setup block has done what its state says.
THEOREM SetupInvariance == Spec => []SetupIInv
<1>1. Init => SetupIInv
  <2> SUFFICES ASSUME Init PROVE SetupIInv
    OBVIOUS
  <2>1. /\ state = "CU_IDLE" /\ mc = <<>> /\ mc_out.op = "NONE"
        /\ DOMAIN ia = 0..2 /\ DOMAIN cfg = 0..5
    BY DEF Init, Cu!CuInit, Cu!NoMc
  <2>2. McTypeOK
    BY <2>1, ListAssumption DEF McTypeOK
  <2> QED BY <2>1, <2>2 DEF SetupIInv, KindInv, AccessInv, SetupInv, Reading, Cu!BufStates,
         Cu!HdrStates, Cu!SendStates
<1> QED BY CommandInvariance, SetupKept, <1>1, PTL DEF Spec

\* What a setup block asked for is in force when it completes.
THEOREM SetupIsApplied == Spec => []SetupApplied
<1>1. CommandIInv /\ SetupIInv => SetupApplied
  <2> SUFFICES ASSUME CommandIInv, SetupIInv, state = "CU_NEXT"
               PROVE  SetupApplied
    BY DEF SetupApplied
  <2>1. SetupInv /\ mc_out = Cu!NoMc /\ cb \in Blocks /\ cmd = Cb[cb].cmd
    BY DEF SetupIInv, SetupInv, CommandIInv, ListInv
  <2>2. CASE cmd.op = "IA_SETUP"
    BY <2>1, <2>2 DEF SetupInv, IaDone, SetupApplied
  <2>3. CASE cmd.op = "CONFIGURE"
    BY <2>1, <2>3, ParametersAssumption, Counts DEF SetupInv, CfgDone, CfgLen, SetupApplied
  <2>4. CASE cmd.op = "MC_SETUP"
    <3>1. McSoon = mc /\ McDone(McLen)
      BY <2>1, <2>4 DEF SetupInv, McSoon, Cu!NoMc
    <3>2. Cb[cb].mc \in Nat
      BY <2>1, <2>4, ParametersAssumption
    <3>3. McLen = IF Cb[cb].mc \div 6 > McSlots THEN McSlots ELSE Cb[cb].mc \div 6
      BY <3>2, Counts DEF McLen
    <3> QED BY <2>4, <3>1, <3>3 DEF McDone, SetupApplied
  <2> QED BY <2>2, <2>3, <2>4 DEF SetupApplied
<1> QED BY CommandInvariance, SetupInvariance, <1>1, PTL

-----------------------------------------------------------------------------
\* The frame a block asks for.

\* Lists that end, and what is computed along them from the end.  Every set of
\* places has one that is the last or leads out of the set, so a solution on
\* fewer than all of them can be extended.
Chain(N, V, last, next, base, step) ==
  /\ IsFiniteSet(N) /\ last \in SUBSET N /\ next \in [N \ last -> N]
  /\ base \in [last -> V] /\ step \in [N \X V -> V]
  /\ \A S \in SUBSET N : (\A x \in S : x \notin last /\ next[x] \in S) => S = {}
Along(f, N, last, next, base, step) ==
  \A x \in N : f[x] = IF x \in last THEN base[x] ELSE step[<<x, f[next[x]]>>]

LEMMA ChainExists ==
  ASSUME NEW N, NEW V, NEW last, NEW next, NEW base, NEW step,
         Chain(N, V, last, next, base, step)
  PROVE  \E f \in [N -> V] : Along(f, N, last, next, base, step)
<1> USE DEF Chain, Along
<1> DEFINE Solves(f, S) ==
             \A x \in N \ S : /\ x \notin last => next[x] \notin S
                              /\ f[x] = IF x \in last THEN base[x] ELSE step[<<x, f[next[x]]>>]
           T == {S \in SUBSET N : \E f \in [N \ S -> V] : Solves(f, S)}
           R == StrictSubsetOrdering(N)
<1>1. T \subseteq FiniteSubsetsOf(N)
  BY FS_Subset DEF FiniteSubsetsOf
<1>2. N \in T
  <2>1. {} = N \ N
    OBVIOUS
  <2>2. [x \in N \ N |-> base[x]] \in [N \ N -> V]
    BY <2>1
  <2> QED BY <2>1, <2>2
<1>3. PICK S \in T : \A U \in T : ~(<<U, S>> \in R)
  <2>1. IsWellFoundedOn(R, FiniteSubsetsOf(N))
    BY FS_StrictSubsetOrderingWellFounded
  <2>2. T # {}
    BY <1>2
  <2> HIDE DEF T, R
  <2> QED BY <1>1, <2>1, <2>2, WFMin
<1>4. PICK f \in [N \ S -> V] : Solves(f, S)
  OBVIOUS
<1>5. ASSUME S # {}
      PROVE  FALSE
  <2>1. PICK b \in S : b \in last \/ next[b] \notin S
    BY <1>5
  <2> DEFINE U == S \ {b}
             here == IF b \in last THEN base[b] ELSE step[<<b, f[next[b]]>>]
             g == [c \in N \ U |-> IF c = b THEN here ELSE f[c]]
  <2>2. b \in N /\ S \subseteq N /\ (b \notin last => next[b] \in N \ S /\ next[b] # b)
    BY <2>1
  <2>3. here \in V
    <3>1. b \notin last => f[next[b]] \in V
      BY <2>2
    <3> QED BY <2>2, <3>1
  <2>4. g \in [N \ U -> V]
    <3> HIDE DEF here
    <3> QED BY <2>3
  <2>5. Solves(g, U)
    <3> SUFFICES ASSUME NEW c \in N \ U
                 PROVE  /\ c \notin last => next[c] \notin U
                        /\ g[c] = IF c \in last THEN base[c] ELSE step[<<c, g[next[c]]>>]
      OBVIOUS
    <3>1. CASE c = b
      <4>1. b \notin last => g[next[b]] = f[next[b]]
        <5> HIDE DEF here
        <5> QED BY <2>2
      <4>2. g[b] = here
        <5> HIDE DEF here
        <5> QED BY <2>2
      <4> HIDE DEF g
      <4> QED BY <2>2, <3>1, <4>1, <4>2
    <3>2. CASE c # b
      <4>1. c \in N \ S
        BY <3>2
      <4>2. /\ c \notin last => next[c] \in N \ S /\ next[c] # b
            /\ f[c] = IF c \in last THEN base[c] ELSE step[<<c, f[next[c]]>>]
        BY <1>4, <2>2, <4>1
      <4>3. g[c] = f[c] /\ (c \notin last => g[next[c]] = f[next[c]])
        <5> HIDE DEF here
        <5> QED BY <3>2, <4>1, <4>2
      <4> HIDE DEF g
      <4> QED BY <4>1, <4>2, <4>3
    <3> QED BY <3>1, <3>2
  <2>6. U \in T
    <3> HIDE DEF g
    <3> QED BY <2>2, <2>4, <2>5
  <2>7. <<U, S>> \in R
    BY <2>2 DEF StrictSubsetOrdering
  <2> QED BY <1>3, <2>6, <2>7
<1> QED BY <1>4, <1>5


BufSet == [of : {"BUF"}, n : Nat]
Held(t) == [k \in 1..Td[t].count |-> Byte("BUF", Td[t].buf + k - 1)]
Rest(t) == IF Td[t].eof THEN <<>> ELSE ChainBytes[Td[t].link]

LEMMA HeldType ==
  ASSUME NEW t \in Tbds
  PROVE  Held(t) \in Seq(BufSet) /\ Len(Held(t)) = Td[t].count
<1>1. Td[t].count \in Nat /\ Td[t].buf \in Nat
  BY ChainsAssumption
<1>2. \A k \in 1..Td[t].count : Byte("BUF", Td[t].buf + k - 1) \in BufSet
  BY <1>1 DEF Byte, BufSet
<1> QED BY <1>1, <1>2 DEF Held

\* A chain of buffers that ends holds so many bytes.
LEMMA ChainIsThere ==
  \E f \in [Tbds \cup {Null} -> Seq(BufSet)] :
    /\ f[Null] = <<>>
    /\ \A t \in Tbds : f[t] = Held(t) \o (IF Td[t].eof THEN <<>> ELSE f[Td[t].link])
<1> DEFINE N == Tbds \cup {Null}
           V == Seq(BufSet)
           last == {t \in N : t = Null \/ Td[t].eof}
           next == [t \in N \ last |-> Td[t].link]
           base == [t \in last |-> IF t = Null THEN <<>> ELSE Held(t)]
           more == [t \in N |-> IF t = Null THEN <<>> ELSE Held(t)]
           step == [x \in N \X V |-> more[x[1]] \o x[2]]
<1>1. Null \notin Tbds /\ \A t \in Tbds : Td[t].eof \/ Td[t].link \in N
  BY ChainsAssumption
<1>2. \A t \in Tbds : Held(t) \in V
  BY HeldType
<1>3. <<>> \in V
  BY EmptySeq
<1>4. next \in [N \ last -> N] /\ last \in SUBSET N /\ base \in [last -> V] /\ more \in [N -> V]
  BY <1>1, <1>2, <1>3
<1>5. step \in [N \X V -> V]
  <2> HIDE DEF more, N
  <2>1. \A x \in N \X V : more[x[1]] \in V /\ x[2] \in V
    BY <1>4
  <2>2. \A x \in N \X V : more[x[1]] \o x[2] \in V
    BY <2>1, ConcatProperties
  <2> QED BY <2>2
<1>6. \A S \in SUBSET N : (\A x \in S : x \notin last /\ next[x] \in S) => S = {}
  <2> SUFFICES ASSUME NEW S \in SUBSET N, \A x \in S : x \notin last /\ next[x] \in S
               PROVE  S = {}
    OBVIOUS
  <2>1. S \in SUBSET Tbds /\ \A x \in S : ~Td[x].eof /\ Td[x].link \in S
    OBVIOUS
  <2> HIDE DEF N, V, last, next, base, step, more
  <2> QED BY <2>1, ChainsAssumption
<1>7. IsFiniteSet(N)
  BY ChainsAssumption, FS_AddElement
<1>8. Chain(N, V, last, next, base, step)
  <2> HIDE DEF N, V, last, next, base, step, more
  <2> QED BY <1>4, <1>5, <1>6, <1>7 DEF Chain
<1>9. /\ Null \in last /\ base[Null] = <<>> /\ Null \in N
      /\ \A t \in Tbds : /\ t \in N /\ (t \in last <=> Td[t].eof)
                         /\ (t \in last => base[t] = Held(t))
                         /\ (t \notin last => next[t] = Td[t].link)
                         /\ more[t] = Held(t)
  BY <1>1
<1>10. \A t \in N, v \in V : step[<<t, v>>] = more[t] \o v
  OBVIOUS
<1>11. \A v \in V : v \o <<>> = v
  BY ConcatEmptySeq
<1> HIDE DEF last, next, base, step, more, V
<1>12. PICK f \in [N -> V] : Along(f, N, last, next, base, step)
  BY <1>8, ChainExists
<1>13. f[Null] = <<>>
  BY <1>9, <1>12 DEF Along
<1>14. ASSUME NEW t \in Tbds
       PROVE  f[t] = Held(t) \o (IF Td[t].eof THEN <<>> ELSE f[Td[t].link])
  <2>1. f[t] = IF t \in last THEN base[t] ELSE step[<<t, f[next[t]]>>]
    BY <1>9, <1>12 DEF Along
  <2>2. CASE Td[t].eof
    BY <1>2, <1>9, <1>11, <2>1, <2>2
  <2>3. CASE ~Td[t].eof
    <3>1. f[t] = step[<<t, f[Td[t].link]>>] /\ f[Td[t].link] \in V
      BY <1>1, <1>9, <1>12, <2>1, <2>3
    <3>2. step[<<t, f[Td[t].link]>>] = more[t] \o f[Td[t].link]
      BY <1>9, <1>10, <3>1
    <3> QED BY <1>9, <2>3, <3>1, <3>2
  <2> QED BY <2>2, <2>3
<1> QED BY <1>12, <1>13, <1>14 DEF V

LEMMA ChainIs ==
  /\ ChainBytes \in [Tbds \cup {Null} -> Seq(BufSet)]
  /\ ChainBytes[Null] = <<>>
  /\ \A t \in Tbds : ChainBytes[t] = Held(t) \o Rest(t)
<1> DEFINE Bytes(f) ==
      [t \in Tbds \cup {Null} |->
         IF t = Null THEN <<>>
         ELSE [k \in 1..Td[t].count |-> Byte("BUF", Td[t].buf + k - 1)]
                \o (IF Td[t].eof THEN <<>> ELSE f[Td[t].link])]
<1>1. PICK f \in [Tbds \cup {Null} -> Seq(BufSet)] :
        /\ f[Null] = <<>>
        /\ \A t \in Tbds : f[t] = Held(t) \o (IF Td[t].eof THEN <<>> ELSE f[Td[t].link])
  BY ChainIsThere
<1>2. ASSUME NEW t \in Tbds \cup {Null}
      PROVE  f[t] = Bytes(f)[t]
  <2>1. CASE t = Null
    BY <1>1, <2>1
  <2>2. CASE t # Null
    <3>1. Bytes(f)[t] = Held(t) \o (IF Td[t].eof THEN <<>> ELSE f[Td[t].link])
      BY <2>2 DEF Held
    <3> HIDE DEF Bytes
    <3> QED BY <1>1, <2>2, <3>1
  <2> QED BY <2>1, <2>2
<1>3. f = Bytes(f)
  <2>1. Bytes(f) = [t \in Tbds \cup {Null} |-> Bytes(f)[t]]
    OBVIOUS
  <2>2. f = [t \in Tbds \cup {Null} |-> f[t]]
    BY <1>1
  <2> HIDE DEF Bytes
  <2> QED BY <1>2, <2>1, <2>2
<1>4. ChainBytes = Bytes(ChainBytes)
  BY <1>3, Zenon DEF ChainBytes
<1>5. /\ ChainBytes = [t \in Tbds \cup {Null} |-> ChainBytes[t]]
      /\ \A t \in Tbds \cup {Null} : ChainBytes[t] = Bytes(ChainBytes)[t]
  <2>1. Bytes(ChainBytes) = [t \in Tbds \cup {Null} |-> Bytes(ChainBytes)[t]]
    OBVIOUS
  <2> HIDE DEF Bytes
  <2> QED BY <1>4, <2>1
<1>6. ChainBytes[Null] = <<>>
  <2>1. Bytes(ChainBytes)[Null] = <<>>
    OBVIOUS
  <2> HIDE DEF Bytes
  <2> QED BY <1>5, <2>1
<1>7. ASSUME NEW t \in Tbds
      PROVE  ChainBytes[t] = Held(t) \o Rest(t)
  <2>1. t # Null
    BY ChainsAssumption
  <2>2. Bytes(ChainBytes)[t] = Held(t) \o Rest(t)
    BY <2>1 DEF Held, Rest
  <2> HIDE DEF Bytes
  <2> QED BY <1>5, <2>2
<1> HIDE DEF Bytes
<1>8. \A t \in Tbds \cup {Null} : ChainBytes[t] \in Seq(BufSet)
  <2> DEFINE S == {t \in Tbds : ChainBytes[t] \notin Seq(BufSet)}
  <2>1. ASSUME NEW t \in S
        PROVE  ~Td[t].eof /\ Td[t].link \in S
    <3>1. Held(t) \in Seq(BufSet) /\ <<>> \in Seq(BufSet)
      BY HeldType, EmptySeq
    <3>2. Rest(t) \notin Seq(BufSet)
      BY <1>7, <3>1, ConcatProperties
    <3>3. ~Td[t].eof /\ Rest(t) = ChainBytes[Td[t].link]
      BY <3>1, <3>2 DEF Rest
    <3>4. Td[t].link \in Tbds \cup {Null} /\ Td[t].link # Null
      BY <1>6, <3>1, <3>2, <3>3, ChainsAssumption
    <3> QED BY <3>2, <3>3, <3>4
  <2>2. S \in SUBSET Tbds
    OBVIOUS
  <2>3. S = {}
    <3> HIDE DEF S
    <3> QED BY <2>1, <2>2, ChainsAssumption
  <2> QED BY <1>6, <2>3, EmptySeq
<1> QED BY <1>5, <1>6, <1>7, <1>8

\* A chain is its first buffer and then the rest of it.
LEMMA ChainParts ==
  ASSUME NEW t \in Tbds
  PROVE  /\ Len(Rest(t)) \in Nat /\ Td[t].count \in Nat
         /\ Len(ChainBytes[t]) = Td[t].count + Len(Rest(t))
         /\ \A k \in 1..Td[t].count : ChainBytes[t][k] = Byte("BUF", Td[t].buf + k - 1)
         /\ \A k \in 1..Len(Rest(t)) : ChainBytes[t][Td[t].count + k] = Rest(t)[k]
<1>1. Held(t) \in Seq(BufSet) /\ Len(Held(t)) = Td[t].count /\ Td[t].count \in Nat
  BY HeldType, ChainsAssumption
<1>2. Rest(t) \in Seq(BufSet)
  BY ChainIs, ChainsAssumption, EmptySeq DEF Rest
<1>3. ChainBytes[t] = Held(t) \o Rest(t)
  BY ChainIs
<1>4. \A k \in 1..Td[t].count : Held(t)[k] = Byte("BUF", Td[t].buf + k - 1)
  BY DEF Held
<1> HIDE DEF Held, Rest
<1>5. Len(Rest(t)) \in Nat
  BY <1>2, LenProperties
<1>6. Len(ChainBytes[t]) = Td[t].count + Len(Rest(t))
  <2>1. Len(Held(t) \o Rest(t)) = Len(Held(t)) + Len(Rest(t))
    BY <1>1, <1>2, ConcatProperties
  <2> QED BY <1>1, <1>3, <2>1
<1>7. \A i \in 1..(Td[t].count + Len(Rest(t))) :
        ChainBytes[t][i] = IF i <= Td[t].count THEN Held(t)[i] ELSE Rest(t)[i - Td[t].count]
  <2>1. \A i \in 1..(Len(Held(t)) + Len(Rest(t))) :
          (Held(t) \o Rest(t))[i]
            = IF i <= Len(Held(t)) THEN Held(t)[i] ELSE Rest(t)[i - Len(Held(t))]
    BY <1>1, <1>2, ConcatProperties
  <2> QED BY <1>1, <1>3, <2>1
<1>8. ASSUME NEW k \in 1..Td[t].count
      PROVE  ChainBytes[t][k] = Byte("BUF", Td[t].buf + k - 1)
  <2>1. k \in 1..(Td[t].count + Len(Rest(t))) /\ k <= Td[t].count
    BY <1>1, <1>5
  <2> QED BY <1>4, <1>7, <2>1
<1>9. ASSUME NEW k \in 1..Len(Rest(t))
      PROVE  ChainBytes[t][Td[t].count + k] = Rest(t)[k]
  <2>1. /\ Td[t].count + k \in 1..(Td[t].count + Len(Rest(t)))
        /\ ~(Td[t].count + k <= Td[t].count) /\ (Td[t].count + k) - Td[t].count = k
    BY <1>1, <1>5
  <2> QED BY <1>7, <2>1
<1> QED BY <1>1, <1>5, <1>6, <1>8, <1>9

\* A frame is the header, where the block carries it, and the chain; it fits.
LEMMA FrameIs ==
  ASSUME NEW b \in Blocks, Cb[b].cmd.op = "TRANSMIT"
  PROVE  /\ Cb[b].tbd \in Tbds \cup {Null}
         /\ Len(Frame(b)) \in Nat /\ Len(Frame(b)) <= RamBytes /\ RamBytes \in Nat
         /\ Len(ChainBytes[Cb[b].tbd]) \in Nat
         /\ Cu!AlLoc => Frame(b) = ChainBytes[Cb[b].tbd]
         /\ ~Cu!AlLoc =>
              /\ Len(Frame(b)) = 14 + Len(ChainBytes[Cb[b].tbd])
              /\ \A k \in 1..14 : Frame(b)[k] = Header(b)[k]
              /\ \A k \in 1..Len(ChainBytes[Cb[b].tbd]) :
                   Frame(b)[14 + k] = ChainBytes[Cb[b].tbd][k]
<1> DEFINE C == ChainBytes[Cb[b].tbd]
           Any == {Header(b)[k] : k \in 1..14} \cup BufSet
<1>1. Cb[b].tbd \in Tbds \cup {Null} /\ 14 + Len(C) <= RamBytes /\ RamBytes \in Nat
  BY ChainsAssumption, ListAssumption
<1>2. C \in Seq(BufSet)
  BY <1>1, ChainIs
<1>3. Len(C) \in Nat
  BY <1>2, LenProperties
<1>4. CASE Cu!AlLoc
  <2>1. Frame(b) = <<>> \o C
    BY <1>4 DEF Frame
  <2>2. Frame(b) = C
    BY <1>2, <2>1, ConcatEmptySeq
  <2> QED BY <1>1, <1>3, <1>4, <2>2
<1>5. CASE ~Cu!AlLoc
  <2>1. Header(b) \in Seq(Any) /\ Len(Header(b)) = 14
    <3>1. Header(b) = [k \in 1..14 |-> Header(b)[k]]
      BY DEF Header
    <3>2. \A k \in 1..14 : Header(b)[k] \in Any
      OBVIOUS
    <3> HIDE DEF Any
    <3>3. /\ [k \in 1..14 |-> Header(b)[k]] \in Seq(Any)
          /\ Len([k \in 1..14 |-> Header(b)[k]]) = 14
      BY <3>2
    <3> QED BY <3>1, <3>3
  <2>2. C \in Seq(Any)
    BY <1>2, SeqMonotonic
  <2>3. Frame(b) = Header(b) \o C
    BY <1>5 DEF Frame
  <2> HIDE DEF Any, C
  <2>4. /\ Len(Frame(b)) = 14 + Len(C)
        /\ \A i \in 1..(14 + Len(C)) :
             Frame(b)[i] = IF i <= 14 THEN Header(b)[i] ELSE C[i - 14]
    <3>1. /\ Len(Header(b) \o C) = Len(Header(b)) + Len(C)
          /\ \A i \in 1..(Len(Header(b)) + Len(C)) :
               (Header(b) \o C)[i]
                 = IF i <= Len(Header(b)) THEN Header(b)[i] ELSE C[i - Len(Header(b))]
      BY <2>1, <2>2, ConcatProperties
    <3> QED BY <2>1, <2>3, <3>1
  <2>5. \A k \in 1..14 : Frame(b)[k] = Header(b)[k]
    BY <1>3, <2>4
  <2>6. ASSUME NEW k \in 1..Len(C)
        PROVE  Frame(b)[14 + k] = C[k]
    <3>1. 14 + k \in 1..(14 + Len(C)) /\ ~(14 + k <= 14) /\ (14 + k) - 14 = k
      BY <1>3
    <3> QED BY <2>4, <3>1
  <2> QED BY <1>1, <1>3, <1>5, <2>4, <2>5, <2>6 DEF C
<1> QED BY <1>4, <1>5

-----------------------------------------------------------------------------
\* Staging a frame, a step at a time.

LEMMA RamMoves ==
  ASSUME Clock, StagingTypeOK
  PROVE  DOMAIN ram' = 0..RamBytes-1 /\ \A n \in 0..RamBytes-1 : ram'[n] = RamSoon(n)
BY DEF Clock, RamEdge, StagingTypeOK, RamSoon

LEMMA SameFrame ==
  ASSUME UNCHANGED <<cb, ia, cfg>>
  PROVE  Frame(cb)' = Frame(cb)
BY DEF Frame, Header, Cu!SrcByte, Cu!AlLoc

\* The block in hand while a frame is staged, and the room there is for it.
LEMMA InHand ==
  ASSUME CommandIInv, KindInv, state \in Cu!HdrStates \cup Cu!BufStates \cup {"CU_TX_GO"}
  PROVE  /\ cb \in Blocks /\ Cb[cb].cmd.op = "TRANSMIT"
         /\ Len(Frame(cb)) \in Nat /\ Len(Frame(cb)) <= RamBytes /\ RamBytes \in Nat
<1>1. cb \in Blocks /\ cmd = Cb[cb].cmd
  BY DEF CommandIInv, ListInv, Cu!HdrStates, Cu!BufStates
<1>2. cmd.op = "TRANSMIT"
  BY DEF KindInv, Cu!SendStates
<1> QED BY <1>1, <1>2, FrameIs

\* A byte staged is the next of the frame.
LEMMA StagesNext ==
  ASSUME Clock, StagingTypeOK, SoFar, UNCHANGED <<cb, ia, cfg>>,
         Len(Frame(cb)) \in Nat, Len(Frame(cb)) <= RamBytes, RamBytes \in Nat,
         tx_bytes < Len(Frame(cb)), Cu!Stage(Frame(cb)[tx_bytes + 1])
  PROVE  tx_bytes' = tx_bytes + 1 /\ SoFar'
<1> DEFINE F == Frame(cb)
<1>1. tx_bytes \in Nat /\ tx_bytes < RamBytes
  BY DEF StagingTypeOK
<1>2. tx_bytes % RamBytes = tx_bytes
  BY <1>1
<1>3. /\ ram_wr' = [we |-> TRUE, addr |-> tx_bytes, data |-> F[tx_bytes + 1]]
      /\ tx_bytes' = tx_bytes + 1
  BY <1>2 DEF Cu!Stage
<1>4. Frame(cb)' = F
  BY SameFrame
<1> HIDE DEF F
<1>5. ASSUME NEW n \in 0..tx_bytes
      PROVE  RamSoon(n)' = F[n + 1]
  <2>1. CASE n = tx_bytes
    BY <1>3, <2>1 DEF RamSoon
  <2>2. CASE n # tx_bytes
    <3>1. n \in 0..tx_bytes-1 /\ n \in 0..RamBytes-1
      BY <1>1, <2>2
    <3>2. ram'[n] = F[n + 1]
      BY <3>1, RamMoves DEF SoFar, F
    <3> QED BY <1>3, <2>2, <3>2 DEF RamSoon
  <2> QED BY <2>1, <2>2
<1>6. \A n \in 0..tx_bytes'-1 : RamSoon(n)' = F[n + 1]
  BY <1>1, <1>3, <1>5
<1>7. tx_bytes' <= Len(F)
  BY <1>1, <1>3 DEF F
<1> QED BY <1>3, <1>4, <1>6, <1>7 DEF SoFar

\* What was staged stays.
LEMMA StagesNothing ==
  ASSUME Clock, StagingTypeOK, SoFar, UNCHANGED <<cb, ia, cfg>>,
         Len(Frame(cb)) \in Nat, Len(Frame(cb)) <= RamBytes, RamBytes \in Nat,
         ram_wr' = Cu!NoRam, UNCHANGED tx_bytes
  PROVE  SoFar'
<1>1. tx_bytes \in Nat /\ tx_bytes <= RamBytes
  BY DEF StagingTypeOK, SoFar
<1>2. ASSUME NEW n \in 0..tx_bytes-1
      PROVE  RamSoon(n)' = Frame(cb)[n + 1]
  <2>1. n \in 0..RamBytes-1
    BY <1>1
  <2>2. ram'[n] = Frame(cb)[n + 1]
    BY <2>1, RamMoves DEF SoFar
  <2> QED BY <2>2 DEF RamSoon, Cu!NoRam
<1>3. Frame(cb)' = Frame(cb)
  BY SameFrame
<1> QED BY <1>2, <1>3 DEF SoFar

\* What the states that stage a frame read.
LEMMA BlockRead ==
  ASSUME CommandIInv, SetupIInv, StagedIInv, bus_ack
  PROVE  /\ state = "CU_TX_HDR_DST" => rdata = Byte(cb, 8 + idx)
         /\ state = "CU_TX_HDR_LEN" => rdata = Byte(cb, 14 + idx)
         /\ state = "CU_TX_RD_TBD" => rdata = Cb[cb].tbd
<1> SUFFICES ASSUME state \in {"CU_TX_HDR_DST", "CU_TX_HDR_LEN", "CU_TX_RD_TBD"}
             PROVE  /\ state = "CU_TX_HDR_DST" => rdata = Byte(cb, 8 + idx)
                    /\ state = "CU_TX_HDR_LEN" => rdata = Byte(cb, 14 + idx)
                    /\ state = "CU_TX_RD_TBD" => rdata = Cb[cb].tbd
  OBVIOUS
<1>1. cb \in Blocks /\ Cb[cb].cmd.op = "TRANSMIT"
  BY InHand DEF SetupIInv, Cu!HdrStates, Cu!BufStates
<1>2. cb # "BUF" /\ cb \notin Tbds
  BY <1>1, BlocksAssumption
<1>3. rdata = Memory(Wanted)
  BY DEF SetupIInv, AccessInv, Reading, Cu!BufStates, bus_ack
<1>4. idx \in Nat
  BY DEF StagedIInv, StagingTypeOK
<1> USE DEF Wanted, Memory, BlockField, Param, Cu!Half, Cu!Read
<1>5. CASE state = "CU_TX_HDR_DST"
  BY <1>1, <1>2, <1>3, <1>4, <1>5
<1>6. CASE state = "CU_TX_HDR_LEN"
  BY <1>1, <1>2, <1>3, <1>4, <1>6
<1>7. CASE state = "CU_TX_RD_TBD"
  BY <1>1, <1>2, <1>3, <1>7
<1> QED BY <1>5, <1>6, <1>7

LEMMA TbdRead ==
  ASSUME SetupIInv, StagedIInv, bus_ack
  PROVE  /\ state = "CU_TX_RD_CNT" =>
              rdata = [count |-> Td[tbd.at].count, eof |-> Td[tbd.at].eof]
         /\ state = "CU_TX_NEXT_TBD" => rdata = Td[tbd.at].link
         /\ state = "CU_TX_RD_BUF_LO" => rdata = Td[tbd.at].buf % 65536
         /\ state = "CU_TX_RD_BUF_HI" => rdata = Td[tbd.at].buf \div 65536
<1> SUFFICES ASSUME state \in {"CU_TX_RD_CNT", "CU_TX_NEXT_TBD", "CU_TX_RD_BUF_LO",
                               "CU_TX_RD_BUF_HI"}
             PROVE  /\ state = "CU_TX_RD_CNT" =>
                         rdata = [count |-> Td[tbd.at].count, eof |-> Td[tbd.at].eof]
                    /\ state = "CU_TX_NEXT_TBD" => rdata = Td[tbd.at].link
                    /\ state = "CU_TX_RD_BUF_LO" => rdata = Td[tbd.at].buf % 65536
                    /\ state = "CU_TX_RD_BUF_HI" => rdata = Td[tbd.at].buf \div 65536
  OBVIOUS
<1>1. tbd.at \in Tbds /\ tbd.at # "BUF"
  BY ChainsAssumption DEF StagedIInv, TbdInv, Counted
<1>2. rdata = Memory(Wanted)
  BY DEF SetupIInv, AccessInv, Reading, Cu!BufStates, bus_ack
<1> USE DEF Wanted, Memory, TbdField, Cu!Half, Cu!Read
<1>3. CASE state = "CU_TX_RD_CNT"
  BY <1>1, <1>2, <1>3
<1>4. CASE state = "CU_TX_NEXT_TBD"
  BY <1>1, <1>2, <1>4
<1>5. CASE state = "CU_TX_RD_BUF_LO"
  BY <1>1, <1>2, <1>5
<1>6. CASE state = "CU_TX_RD_BUF_HI"
  BY <1>1, <1>2, <1>6
<1> QED BY <1>3, <1>4, <1>5, <1>6

LEMMA BufRead ==
  ASSUME SetupIInv, StagedIInv, bus_ack
  PROVE  /\ state = "CU_TX_RD_BYTE" => rdata = Byte("BUF", Cu!TxAddr)
         /\ state = "CU_TX_RD_WORD" =>
              rdata = [k \in 1..4 |-> Byte("BUF", Cu!TxAddr + k - 1)]
<1>1. Cu!TxAddr \in Nat
  BY DEF StagedIInv, StagingTypeOK, Cu!TxAddr
<1>2. state \in {"CU_TX_RD_BYTE", "CU_TX_RD_WORD"} => rdata = Memory(Wanted)
  BY DEF SetupIInv, AccessInv, Reading, Cu!BufStates, bus_ack
<1> USE DEF Wanted, Memory, BufBytes, Cu!Read
<1>3. CASE state = "CU_TX_RD_BYTE"
  BY <1>2, <1>3
<1>4. CASE state = "CU_TX_RD_WORD"
  <2>1. rdata = [k \in 1..4 |-> Byte("BUF", Cu!TxAddr - (Cu!TxAddr % 4) + k - 1)]
    BY <1>2, <1>4
  <2>2. Cu!TxAddr % 4 = 0
    BY <1>4 DEF StagedIInv, WordInv
  <2> HIDE DEF Wanted, Memory, BufBytes, Cu!Read
  <2>3. Cu!TxAddr - (Cu!TxAddr % 4) = Cu!TxAddr
    BY <1>1, <2>2
  <2> QED BY <1>4, <2>1, <2>3
<1> QED BY <1>3, <1>4

-----------------------------------------------------------------------------
\* What each action of the unit keeps.

\* One more byte of the header.
LEMMA HeaderStep ==
  ASSUME CommandIInv, SetupIInv, StagedIInv, Clock, Cu!Staging, Cu!StageHeader
  PROVE  StagedIInv'
<1> DEFINE last == IF state = "CU_TX_HDR_LEN" THEN 1 ELSE 5
           next == CASE state = "CU_TX_HDR_DST" -> "CU_TX_HDR_SRC"
                     [] state = "CU_TX_HDR_SRC" -> "CU_TX_HDR_LEN"
                     [] state = "CU_TX_HDR_LEN" -> "CU_TX_RD_TBD"
           byte == IF state = "CU_TX_HDR_SRC" THEN Cu!SrcByte(idx) ELSE rdata
<1>1. /\ state \in Cu!HdrStates
      /\ UNCHANGED <<cb, cmd, ia, cfg, tx_go, tx_len, tbd, tx_word>>
      /\ Cu!Stage(byte)
      /\ IF idx = last THEN idx' = 0 /\ state' = next ELSE idx' = idx + 1 /\ UNCHANGED state
  BY DEF Cu!Staging, Cu!StageHeader, Cu!Header, Cu!Goto, Cu!HdrStates, Cu!listVars,
         Cu!setupVars, Cu!sendVars, Cu!bufVars
<1>2. StagingTypeOK /\ StagedInv /\ GoInv /\ KindInv
  BY DEF StagedIInv, SetupIInv
<1>3. /\ cb \in Blocks /\ Cb[cb].cmd.op = "TRANSMIT" /\ SoFar /\ ~Cu!AlLoc
      /\ Len(Frame(cb)) \in Nat /\ Len(Frame(cb)) <= RamBytes /\ RamBytes \in Nat
  BY <1>1, <1>2, InHand DEF StagedInv
<1>13. Len(Frame(cb)) >= 14 /\ \A k \in 1..14 : Frame(cb)[k] = Header(cb)[k]
  <2>1. /\ Len(ChainBytes[Cb[cb].tbd]) \in Nat
        /\ Len(Frame(cb)) = 14 + Len(ChainBytes[Cb[cb].tbd])
        /\ \A k \in 1..14 : Frame(cb)[k] = Header(cb)[k]
    BY <1>3, FrameIs
  <2> QED BY <2>1
<1>14. FollowedBy(14, ChainBytes[Cb[cb].tbd])
  BY <1>3, FrameIs DEF FollowedBy
<1>4. /\ idx \in 0..last
      /\ tx_bytes = idx + (CASE state = "CU_TX_HDR_DST" -> 0
                             [] state = "CU_TX_HDR_SRC" -> 6
                             [] state = "CU_TX_HDR_LEN" -> 12)
  BY <1>1, <1>2 DEF StagedInv, Cu!HdrStates
<1>5. byte = Frame(cb)[tx_bytes + 1] /\ tx_bytes < Len(Frame(cb))
  <2>1. tx_bytes + 1 \in 1..14
    BY <1>1, <1>4 DEF Cu!HdrStates
  <2>2. bus_ack \/ state = "CU_TX_HDR_SRC"
    BY DEF Cu!StageHeader
  <2>6. tx_bytes < Len(Frame(cb)) /\ Frame(cb)[tx_bytes + 1] = Header(cb)[tx_bytes + 1]
    <3>1. tx_bytes \in Int /\ tx_bytes < 14
      BY <2>1, <1>2 DEF StagingTypeOK
    <3>2. Frame(cb)[tx_bytes + 1] = Header(cb)[tx_bytes + 1]
      BY <2>1, <1>13
    <3>3. Len(Frame(cb)) \in Nat /\ Len(Frame(cb)) >= 14
      BY <1>3, <1>13
    <3> QED BY <3>1, <3>2, <3>3
  <2> HIDE DEF byte
  <2>3. CASE state = "CU_TX_HDR_DST"
    <3>1. byte = Byte(cb, 8 + idx)
      BY <2>2, <2>3, BlockRead DEF byte
    <3>2. tx_bytes + 1 = 1 + idx /\ 1 + idx \in 1..6 /\ 7 + (1 + idx) = 8 + idx
      BY <1>4, <2>3
    <3>3. Header(cb)[1 + idx] = Byte(cb, 7 + (1 + idx))
      BY <3>2 DEF Header
    <3> QED BY <2>6, <3>1, <3>2, <3>3
  <2>4. CASE state = "CU_TX_HDR_SRC"
    <3>1. tx_bytes + 1 = 7 + idx /\ 7 + idx \in 7..12 /\ (7 + idx) - 7 = idx
      BY <1>4, <2>4
    <3>2. Header(cb)[7 + idx] = Cu!SrcByte((7 + idx) - 7)
      BY <3>1 DEF Header
    <3>3. byte = Cu!SrcByte(idx)
      BY <2>4 DEF byte
    <3> QED BY <2>6, <3>1, <3>2, <3>3
  <2>5. CASE state = "CU_TX_HDR_LEN"
    <3>1. byte = Byte(cb, 14 + idx)
      BY <2>2, <2>5, BlockRead DEF byte
    <3>2. /\ tx_bytes + 1 = 13 + idx /\ 13 + idx \in 13..14
          /\ 7 + ((13 + idx) - 6) = 14 + idx
      BY <1>4, <2>5
    <3>3. Header(cb)[13 + idx] = Byte(cb, 7 + ((13 + idx) - 6))
      BY <3>2 DEF Header
    <3> QED BY <2>6, <3>1, <3>2, <3>3
  <2> QED BY <1>1, <2>3, <2>4, <2>5, <2>6 DEF Cu!HdrStates
<1>6. tx_bytes' = tx_bytes + 1 /\ SoFar' /\ Frame(cb)' = Frame(cb)
  BY <1>1, <1>2, <1>3, <1>5, StagesNext, SameFrame
<1>7. StagingTypeOK'
  BY <1>1, <1>2, <1>6, RamMoves DEF StagingTypeOK
<1>8. /\ state' \in Cu!HdrStates \cup {"CU_TX_RD_TBD"}
      /\ state' = "CU_TX_HDR_DST" => idx' \in 0..5 /\ tx_bytes' = idx'
      /\ state' = "CU_TX_HDR_SRC" => idx' \in 0..5 /\ tx_bytes' = 6 + idx'
      /\ state' = "CU_TX_HDR_LEN" => idx' \in 0..1 /\ tx_bytes' = 12 + idx'
      /\ state' = "CU_TX_RD_TBD" => tx_bytes' = 14
  BY <1>1, <1>4, <1>6 DEF Cu!HdrStates
<1>9. ~Cu!AlLoc'
  BY <1>1, <1>3 DEF Cu!AlLoc
<1>10. state' = "CU_TX_RD_TBD" => FollowedBy(tx_bytes, ChainBytes[Cb[cb].tbd])'
  BY <1>1, <1>6, <1>8, <1>14 DEF FollowedBy
<1>11. TbdInv' /\ WordInv' /\ GoInv'
  BY <1>1, <1>2, <1>8 DEF TbdInv, WordInv, GoInv, Counted, Opened, Cu!HdrStates
<1>12. StagedInv'
  BY <1>6, <1>8, <1>9, <1>10 DEF StagedInv, Counted, Opened, Cu!HdrStates
<1> QED BY <1>7, <1>11, <1>12 DEF StagedIInv

\* One more field of a buffer descriptor, or the next of the chain.
LEMMA OpenStep ==
  ASSUME CommandIInv, SetupIInv, StagedIInv, Clock, Cu!Staging, Cu!OpenTbd
  PROVE  StagedIInv'
<1>1. /\ bus_ack
      /\ UNCHANGED <<cb, cmd, ia, cfg, tx_go, tx_len, tx_word, idx, tx_bytes>>
      /\ ram_wr' = Cu!NoRam
  BY DEF Cu!Staging, Cu!OpenTbd, Cu!StageNothing, Cu!listVars, Cu!setupVars, Cu!sendVars
<1>2. StagingTypeOK /\ StagedInv /\ GoInv /\ KindInv /\ TbdInv
  BY DEF StagedIInv, SetupIInv
<1>3. state \in {"CU_TX_RD_TBD", "CU_TX_RD_CNT", "CU_TX_RD_BUF_LO", "CU_TX_RD_BUF_HI",
                 "CU_TX_NEXT_TBD"}
  BY DEF Cu!OpenTbd
<1>4. /\ cb \in Blocks /\ Cb[cb].cmd.op = "TRANSMIT" /\ SoFar
      /\ Len(Frame(cb)) \in Nat /\ Len(Frame(cb)) <= RamBytes /\ RamBytes \in Nat
      /\ Cb[cb].tbd \in Tbds \cup {Null}
  BY <1>2, <1>3, InHand, FrameIs DEF StagedInv, Cu!BufStates
<1>5. SoFar' /\ Frame(cb)' = Frame(cb)
  BY <1>1, <1>2, <1>4, StagesNothing, SameFrame
<1>6. DOMAIN ram' = 0..RamBytes-1 /\ idx' \in Nat /\ tx_bytes' \in Nat
  BY <1>1, <1>2, RamMoves DEF StagingTypeOK
<1>7. tx_bytes \in Nat
  BY <1>2 DEF StagingTypeOK
<1> DEFINE Tbd == [at : Tbds \cup {Null}, count : Nat, eof : BOOLEAN, buf : Nat, off : Nat]
<1>8. tbd \in Tbd
  BY <1>2 DEF StagingTypeOK
<1>9. ~tx_go' /\ ~ram_wr'.we
  BY <1>1, <1>2, <1>3 DEF GoInv, Cu!NoRam
<1>10. CASE state = "CU_TX_RD_TBD"
  <2>1. /\ rdata = Cb[cb].tbd /\ tbd' = [tbd EXCEPT !.at = rdata]
        /\ state' = IF rdata = Null THEN "CU_FINISH" ELSE "CU_TX_RD_CNT"
    BY <1>1, <1>10, BlockRead DEF Cu!OpenTbd, Cu!Goto
  <2>2. tbd' \in Tbd /\ tbd'.at = rdata /\ (state' = "CU_TX_RD_CNT" => rdata \in Tbds)
    BY <1>4, <1>8, <2>1
  <2>3. FollowedBy(tx_bytes, ChainBytes[Cb[cb].tbd])
    BY <1>2, <1>10 DEF StagedInv
  <2>4. state' = "CU_TX_RD_CNT" => FollowedBy(tx_bytes, ChainBytes[tbd.at])'
    BY <1>1, <1>5, <2>1, <2>2, <2>3 DEF FollowedBy
  <2>5. TbdInv' /\ WordInv' /\ GoInv'
    BY <1>9, <2>1, <2>2 DEF TbdInv, WordInv, GoInv, Counted, Opened
  <2>6. StagedInv'
    BY <1>5, <2>1, <2>4 DEF StagedInv, Counted, Opened, Cu!HdrStates
  <2>7. StagingTypeOK'
    BY <1>6, <2>2 DEF StagingTypeOK
  <2> QED BY <2>5, <2>6, <2>7 DEF StagedIInv
<1>11. CASE state = "CU_TX_NEXT_TBD"
  <2>1. /\ rdata = Td[tbd.at].link /\ tbd' = [tbd EXCEPT !.at = rdata]
        /\ state' = IF rdata = Null THEN "CU_TX_GO" ELSE "CU_TX_RD_CNT"
    BY <1>1, <1>11, TbdRead DEF Cu!OpenTbd, Cu!Goto
  <2>2. tbd.at \in Tbds /\ rdata \in Tbds \cup {Null}
    BY <1>2, <1>11, <2>1, ChainsAssumption DEF TbdInv
  <2>3. tbd' \in Tbd /\ tbd'.at = rdata
    BY <1>8, <2>1, <2>2
  <2>4. FollowedBy(tx_bytes, ChainBytes[rdata])
    BY <1>2, <1>11, <2>1 DEF StagedInv
  <2>5. state' = "CU_TX_RD_CNT" => FollowedBy(tx_bytes, ChainBytes[tbd.at])' /\ tbd'.at \in Tbds
    BY <1>1, <1>5, <2>1, <2>2, <2>3, <2>4 DEF FollowedBy
  <2>6. state' = "CU_TX_GO" => tx_bytes' = Len(Frame(cb))'
    <3>1. state' = "CU_TX_GO" => Len(ChainBytes[rdata]) = 0
      BY <2>1, ChainIs
    <3> QED BY <1>1, <1>5, <1>7, <2>4, <3>1 DEF FollowedBy
  <2>7. TbdInv' /\ WordInv' /\ GoInv'
    BY <1>9, <2>1, <2>5, <2>6 DEF TbdInv, WordInv, GoInv, Counted, Opened
  <2>8. StagedInv'
    BY <1>5, <2>1, <2>5 DEF StagedInv, Counted, Opened, Cu!HdrStates
  <2>9. StagingTypeOK'
    BY <1>6, <2>3 DEF StagingTypeOK
  <2> QED BY <2>7, <2>8, <2>9 DEF StagedIInv
<1>12. CASE state \in {"CU_TX_RD_CNT", "CU_TX_RD_BUF_LO", "CU_TX_RD_BUF_HI"}
  <2> DEFINE t == Td[tbd.at]
  <2>1. /\ tbd.at \in Tbds /\ t.count \in Nat /\ t.buf \in Nat /\ t.eof \in BOOLEAN
        /\ FollowedBy(tx_bytes, ChainBytes[tbd.at])
    BY <1>2, <1>12, ChainsAssumption DEF TbdInv, StagedInv, Counted
  <2>2. /\ tbd' \in Tbd /\ tbd'.at = tbd.at /\ tbd'.off = 0
        /\ tbd'.count = t.count /\ tbd'.eof = t.eof
        /\ \/ state' = "CU_TX_RD_BUF_LO"
           \/ state' = "CU_TX_RD_BUF_HI" /\ tbd'.buf = t.buf % 65536
           \/ state' = "CU_TX_SEL" /\ tbd'.buf = t.buf
    <3>1. CASE state = "CU_TX_RD_CNT"
      <4>1. /\ rdata = [count |-> t.count, eof |-> t.eof] /\ state' = "CU_TX_RD_BUF_LO"
            /\ tbd' = [tbd EXCEPT !.count = rdata.count, !.eof = rdata.eof, !.off = 0]
        BY <1>1, <3>1, TbdRead DEF Cu!OpenTbd, Cu!Goto
      <4> HIDE DEF t
      <4>2. tbd' = [tbd EXCEPT !.count = t.count, !.eof = t.eof, !.off = 0]
        BY <4>1
      <4>3. tbd' \in Tbd
        BY <1>8, <2>1, <4>2
      <4>4. tbd'.at = tbd.at /\ tbd'.off = 0 /\ tbd'.count = t.count /\ tbd'.eof = t.eof
        BY <1>8, <4>2
      <4> HIDE DEF Tbd
      <4> QED BY <4>1, <4>3, <4>4
    <3>2. CASE state = "CU_TX_RD_BUF_LO"
      <4>1. /\ rdata = t.buf % 65536 /\ state' = "CU_TX_RD_BUF_HI"
            /\ tbd' = [tbd EXCEPT !.buf = rdata]
            /\ tbd.off = 0 /\ tbd.count = t.count /\ tbd.eof = t.eof
        BY <1>1, <1>2, <3>2, TbdRead DEF Cu!OpenTbd, Cu!Goto, TbdInv, Counted
      <4> HIDE DEF t
      <4>2. rdata \in Nat
        BY <2>1, <4>1
      <4> QED BY <1>8, <2>1, <4>1, <4>2
    <3>3. CASE state = "CU_TX_RD_BUF_HI"
      <4>1. /\ rdata = t.buf \div 65536 /\ state' = "CU_TX_SEL"
            /\ tbd' = [tbd EXCEPT !.buf = @ + 65536 * rdata] /\ tbd.buf = t.buf % 65536
            /\ tbd.off = 0 /\ tbd.count = t.count /\ tbd.eof = t.eof
        BY <1>1, <1>2, <3>3, TbdRead DEF Cu!OpenTbd, Cu!Goto, TbdInv, Counted
      <4> HIDE DEF t
      <4>2. tbd.buf + 65536 * rdata = t.buf
        BY <2>1, <4>1
      <4>3. tbd' = [tbd EXCEPT !.buf = t.buf]
        BY <4>1, <4>2
      <4> QED BY <1>8, <2>1, <4>1, <4>3
    <3> QED BY <1>12, <3>1, <3>2, <3>3
  <2> HIDE DEF t
  <2>3. /\ FollowedBy(tx_bytes, ChainBytes[tbd.at])'
        /\ tx_bytes' >= tbd'.off /\ FollowedBy(tx_bytes - tbd.off, ChainBytes[tbd.at])'
    BY <1>1, <1>5, <1>7, <2>1, <2>2 DEF FollowedBy
  <2>4. TbdInv'
    BY <2>1, <2>2 DEF TbdInv, Counted, Opened, t
  <2>5. WordInv' /\ GoInv'
    BY <1>9, <2>2 DEF WordInv, GoInv
  <2>6. StagedInv'
    BY <1>5, <2>2, <2>3 DEF StagedInv, Counted, Opened, Cu!HdrStates
  <2>7. StagingTypeOK'
    BY <1>6, <2>2 DEF StagingTypeOK
  <2> QED BY <2>4, <2>5, <2>6, <2>7 DEF StagedIInv
<1> QED BY <1>3, <1>10, <1>11, <1>12

\* What is known while a descriptor is open.
LEMMA InTheBuffer ==
  ASSUME CommandIInv, SetupIInv, StagedIInv, state \in Opened
  PROVE  /\ cb \in Blocks /\ Cb[cb].cmd.op = "TRANSMIT" /\ SoFar
         /\ Len(Frame(cb)) \in Nat /\ Len(Frame(cb)) <= RamBytes /\ RamBytes \in Nat
         /\ tbd.at \in Tbds /\ tbd.count = Td[tbd.at].count /\ tbd.eof = Td[tbd.at].eof
         /\ tbd.buf = Td[tbd.at].buf
         /\ tbd.off \in Nat /\ tbd.count \in Nat /\ tbd.buf \in Nat /\ tx_bytes \in Nat
         /\ tbd.off <= tbd.count /\ tbd.off <= tx_bytes
         /\ Len(Rest(tbd.at)) \in Nat
         /\ Len(Frame(cb)) = (tx_bytes - tbd.off) + tbd.count + Len(Rest(tbd.at))
         /\ \A k \in 1..tbd.count :
              Frame(cb)[(tx_bytes - tbd.off) + k] = Byte("BUF", tbd.buf + k - 1)
         /\ \A k \in 1..Len(Rest(tbd.at)) :
              Frame(cb)[(tx_bytes - tbd.off) + tbd.count + k] = Rest(tbd.at)[k]
<1> DEFINE p == tx_bytes - tbd.off
           C == ChainBytes[tbd.at]
           R == Rest(tbd.at)
<1>1. /\ cb \in Blocks /\ Cb[cb].cmd.op = "TRANSMIT" /\ SoFar
      /\ Len(Frame(cb)) \in Nat /\ Len(Frame(cb)) <= RamBytes /\ RamBytes \in Nat
  BY InHand DEF SetupIInv, StagedIInv, StagedInv, Opened, Cu!BufStates
<1>2. /\ tbd.at \in Tbds /\ tbd.count = Td[tbd.at].count /\ tbd.eof = Td[tbd.at].eof
      /\ tbd.buf = Td[tbd.at].buf /\ tbd.off <= tbd.count
      /\ tbd.off <= tx_bytes /\ FollowedBy(p, C)
  BY DEF StagedIInv, StagedInv, TbdInv, Opened
<1>3. tbd.off \in Nat /\ tbd.count \in Nat /\ tbd.buf \in Nat /\ tx_bytes \in Nat
  BY DEF StagedIInv, StagingTypeOK
<1>4. /\ Len(R) \in Nat /\ Len(C) = tbd.count + Len(R)
      /\ \A k \in 1..tbd.count : C[k] = Byte("BUF", tbd.buf + k - 1)
      /\ \A k \in 1..Len(R) : C[tbd.count + k] = R[k]
  BY <1>2, ChainParts
<1>5. /\ Len(Frame(cb)) = p + Len(C)
      /\ \A k \in 1..Len(C) : Frame(cb)[p + k] = C[k]
  BY <1>2 DEF FollowedBy
<1>6. p \in Nat
  BY <1>2, <1>3
<1> HIDE DEF p, C, R
<1>7. Len(Frame(cb)) = p + tbd.count + Len(R)
  BY <1>3, <1>4, <1>5, <1>6
<1>8. ASSUME NEW k \in 1..tbd.count
      PROVE  Frame(cb)[p + k] = Byte("BUF", tbd.buf + k - 1)
  <2>1. k \in 1..Len(C)
    BY <1>3, <1>4
  <2> QED BY <1>4, <1>5, <2>1
<1>9. ASSUME NEW k \in 1..Len(R)
      PROVE  Frame(cb)[p + tbd.count + k] = R[k]
  <2>1. tbd.count + k \in 1..Len(C) /\ p + tbd.count + k = p + (tbd.count + k)
    BY <1>3, <1>4, <1>6
  <2> QED BY <1>4, <1>5, <2>1
<1>10. tbd.off <= tbd.count /\ tbd.off <= tx_bytes
  BY <1>2
<1> QED BY <1>1, <1>2, <1>3, <1>4, <1>7, <1>8, <1>9, <1>10 DEF p, R

\* The end of a buffer, or the next word or byte of it.
LEMMA SelectStep ==
  ASSUME CommandIInv, SetupIInv, StagedIInv, Clock, Cu!Staging, Cu!Select
  PROVE  StagedIInv'
<1>1. /\ state = "CU_TX_SEL"
      /\ UNCHANGED <<cb, cmd, ia, cfg, tx_go, tx_len, tx_word, idx, tx_bytes, tbd>>
      /\ ram_wr' = Cu!NoRam
      /\ state' = IF Cu!TxBufDone THEN IF tbd.eof THEN "CU_TX_GO" ELSE "CU_TX_NEXT_TBD"
                  ELSE IF Cu!CanWord THEN "CU_TX_RD_WORD" ELSE "CU_TX_RD_BYTE"
  BY DEF Cu!Staging, Cu!Select, Cu!Goto, Cu!StageNothing, Cu!listVars, Cu!setupVars, Cu!sendVars
<1>2. StagingTypeOK /\ StagedInv /\ GoInv /\ TbdInv
  BY DEF StagedIInv
<1>3. /\ SoFar /\ Len(Frame(cb)) \in Nat /\ Len(Frame(cb)) <= RamBytes /\ RamBytes \in Nat
      /\ tbd.at \in Tbds /\ tbd.eof = Td[tbd.at].eof
      /\ tbd.off \in Nat /\ tbd.count \in Nat /\ tbd.buf \in Nat /\ tx_bytes \in Nat
      /\ tbd.off <= tbd.count /\ tbd.off <= tx_bytes
      /\ Len(Rest(tbd.at)) \in Nat
      /\ Len(Frame(cb)) = (tx_bytes - tbd.off) + tbd.count + Len(Rest(tbd.at))
      /\ \A k \in 1..Len(Rest(tbd.at)) :
           Frame(cb)[(tx_bytes - tbd.off) + tbd.count + k] = Rest(tbd.at)[k]
  BY <1>1, InTheBuffer DEF Opened
<1>4. SoFar' /\ Frame(cb)' = Frame(cb)
  BY <1>1, <1>2, <1>3, StagesNothing, SameFrame
<1>5. StagingTypeOK'
  BY <1>1, <1>2, RamMoves DEF StagingTypeOK
<1>6. ~tx_go' /\ ~ram_wr'.we
  BY <1>1, <1>2 DEF GoInv, Cu!NoRam
<1>7. CASE Cu!TxBufDone
  <2>1. tbd.off = tbd.count
    BY <1>3, <1>7 DEF Cu!TxBufDone
  <2>2. (tx_bytes - tbd.off) + tbd.count = tx_bytes
    BY <1>3, <2>1
  <2>3. FollowedBy(tx_bytes, Rest(tbd.at))
    BY <1>3, <2>2 DEF FollowedBy
  <2>4. CASE tbd.eof
    <3>1. Rest(tbd.at) = <<>> /\ state' = "CU_TX_GO"
      BY <1>1, <1>3, <1>7, <2>4 DEF Rest
    <3>2. tx_bytes' = Len(Frame(cb))'
      BY <1>1, <1>3, <1>4, <2>3, <3>1, EmptySeq DEF FollowedBy
    <3>3. TbdInv' /\ WordInv' /\ GoInv'
      BY <1>6, <3>1, <3>2 DEF TbdInv, WordInv, GoInv, Counted, Opened
    <3>4. StagedInv'
      BY <1>4, <3>1 DEF StagedInv, Counted, Opened, Cu!HdrStates
    <3> QED BY <1>5, <3>3, <3>4 DEF StagedIInv
  <2>5. CASE ~tbd.eof
    <3>1. Rest(tbd.at) = ChainBytes[Td[tbd.at].link] /\ state' = "CU_TX_NEXT_TBD"
      BY <1>1, <1>3, <1>7, <2>5 DEF Rest
    <3>2. FollowedBy(tx_bytes, ChainBytes[Td[tbd.at].link])'
      BY <1>1, <1>4, <2>3, <3>1 DEF FollowedBy
    <3>3. TbdInv' /\ WordInv' /\ GoInv'
      BY <1>1, <1>3, <1>6, <2>5, <3>1 DEF TbdInv, WordInv, GoInv, Counted, Opened
    <3>4. StagedInv'
      BY <1>4, <3>1, <3>2 DEF StagedInv, Counted, Opened, Cu!HdrStates
    <3> QED BY <1>5, <3>3, <3>4 DEF StagedIInv
  <2> QED BY <2>4, <2>5
<1>8. CASE ~Cu!TxBufDone
  <2>1. /\ state' \in {"CU_TX_RD_WORD", "CU_TX_RD_BYTE"}
        /\ state' = "CU_TX_RD_WORD" => tbd.off + 4 <= tbd.count /\ Cu!TxAddr % 4 = 0
        /\ tbd.off < tbd.count
    BY <1>1, <1>3, <1>8 DEF Cu!TxBufDone, Cu!CanWord
  <2>2. Cu!TxAddr' = Cu!TxAddr
    BY <1>1 DEF Cu!TxAddr
  <2>3. tx_bytes >= tbd.off /\ FollowedBy(tx_bytes - tbd.off, ChainBytes[tbd.at])
    BY <1>1, <1>2 DEF StagedInv, Opened
  <2>4. TbdInv'
    BY <1>1, <1>2, <2>1 DEF TbdInv, Counted, Opened
  <2>5. WordInv' /\ GoInv'
    BY <1>1, <1>6, <2>1, <2>2 DEF WordInv, GoInv
  <2>6. FollowedBy(tx_bytes - tbd.off, ChainBytes[tbd.at])' /\ tx_bytes' >= tbd'.off
    BY <1>1, <1>4, <2>3 DEF FollowedBy
  <2>7. StagedInv'
    BY <1>4, <2>1, <2>6 DEF StagedInv, Counted, Opened, Cu!HdrStates
  <2> QED BY <1>5, <2>4, <2>5, <2>7 DEF StagedIInv
<1> QED BY <1>7, <1>8

\* Where the next byte of a buffer stands in the frame, with o of c bytes staged.
LEMMA NextInBuffer ==
  ASSUME NEW o \in Nat, NEW c \in Nat, NEW b \in Nat, NEW x \in Nat, o < c
  PROVE  o + 1 \in 1..c /\ (x - o) + (o + 1) = x + 1 /\ b + (o + 1) - 1 = b + o
<1>1. o + 1 \in 1..c
  OBVIOUS
<1>2. (x - o) + (o + 1) = x + 1
  OBVIOUS
<1>3. b + (o + 1) - 1 = b + o
  OBVIOUS
<1> QED BY <1>1, <1>2, <1>3

\* A byte of the buffer is staged; the descriptor stays open.
LEMMA BufferByte ==
  ASSUME CommandIInv, SetupIInv, StagedIInv, Clock,
         state \in {"CU_TX_RD_BYTE", "CU_TX_ST_WORD"},
         UNCHANGED <<cb, ia, cfg, tx_go, tx_len, idx>>,
         Cu!Stage(Byte("BUF", Cu!TxAddr)), tbd.off < tbd.count,
         tbd' = [tbd EXCEPT !.off = @ + 1], state' \in {"CU_TX_SEL", "CU_TX_ST_WORD"}
  PROVE  StagingTypeOK' /\ TbdInv' /\ StagedInv' /\ GoInv' /\ tbd'.off = tbd.off + 1
         /\ tbd'.count = tbd.count /\ Cu!TxAddr' = Cu!TxAddr + 1 /\ Cu!TxAddr \in Nat
<1>1. StagingTypeOK /\ StagedInv /\ GoInv /\ TbdInv
  BY DEF StagedIInv
<1>2. /\ SoFar /\ Len(Frame(cb)) \in Nat /\ Len(Frame(cb)) <= RamBytes /\ RamBytes \in Nat
      /\ tbd.off \in Nat /\ tbd.count \in Nat /\ tbd.buf \in Nat /\ tx_bytes \in Nat
      /\ tbd.off <= tx_bytes /\ Len(Rest(tbd.at)) \in Nat
      /\ Len(Frame(cb)) = (tx_bytes - tbd.off) + tbd.count + Len(Rest(tbd.at))
      /\ \A k \in 1..tbd.count :
           Frame(cb)[(tx_bytes - tbd.off) + k] = Byte("BUF", tbd.buf + k - 1)
  BY InTheBuffer DEF Opened
<1>3. Frame(cb)[tx_bytes + 1] = Byte("BUF", Cu!TxAddr) /\ tx_bytes < Len(Frame(cb))
  <2>1. /\ tbd.off + 1 \in 1..tbd.count /\ (tx_bytes - tbd.off) + (tbd.off + 1) = tx_bytes + 1
        /\ tbd.buf + (tbd.off + 1) - 1 = tbd.buf + tbd.off
    <3>1. tbd.off \in Nat /\ tbd.count \in Nat /\ tbd.buf \in Nat /\ tx_bytes \in Nat
      BY <1>2
    <3>2. tbd.off < tbd.count
      OBVIOUS
    <3> QED BY ONLY <3>1, <3>2, NextInBuffer
  <2>2. Frame(cb)[tx_bytes + 1] = Byte("BUF", tbd.buf + tbd.off)
    BY <1>2, <2>1
  <2> QED BY <1>2, <2>2 DEF Cu!TxAddr
<1>4. tx_bytes' = tx_bytes + 1 /\ SoFar' /\ Frame(cb)' = Frame(cb)
  BY <1>1, <1>2, <1>3, StagesNext, SameFrame
<1>5. /\ tbd' \in [at : Tbds \cup {Null}, count : Nat, eof : BOOLEAN, buf : Nat, off : Nat]
      /\ tbd'.off = tbd.off + 1 /\ tbd'.count = tbd.count /\ tbd'.at = tbd.at
      /\ tbd'.eof = tbd.eof /\ tbd'.buf = tbd.buf
  <2>1. tbd \in [at : Tbds \cup {Null}, count : Nat, eof : BOOLEAN, buf : Nat, off : Nat]
    BY <1>1 DEF StagingTypeOK
  <2>2. tbd.off + 1 \in Nat
    BY <1>2
  <2> QED BY <2>1, <2>2
<1>6. StagingTypeOK'
  BY <1>1, <1>2, <1>4, <1>5, RamMoves DEF StagingTypeOK
<1>7. Cu!TxAddr' = Cu!TxAddr + 1 /\ Cu!TxAddr \in Nat
  BY <1>2, <1>5 DEF Cu!TxAddr
<1>8. TbdInv' /\ GoInv'
  BY <1>1, <1>2, <1>5 DEF TbdInv, GoInv, Counted, Opened
<1>9. FollowedBy(tx_bytes - tbd.off, ChainBytes[tbd.at])' /\ tx_bytes' >= tbd'.off
  <2>1. tx_bytes' - tbd'.off = tx_bytes - tbd.off /\ tx_bytes' >= tbd'.off
    BY <1>2, <1>4, <1>5
  <2>2. FollowedBy(tx_bytes - tbd.off, ChainBytes[tbd.at])
    BY <1>1 DEF StagedInv, Opened
  <2> QED BY <1>4, <1>5, <2>1, <2>2 DEF FollowedBy
<1>10. StagedInv'
  BY <1>4, <1>9 DEF StagedInv, Counted, Opened, Cu!HdrStates
<1> QED BY <1>5, <1>6, <1>7, <1>8, <1>10

LEMMA ByteStep ==
  ASSUME CommandIInv, SetupIInv, StagedIInv, Clock, Cu!Staging, Cu!StageByte
  PROVE  StagedIInv'
<1>1. /\ state = "CU_TX_RD_BYTE" /\ bus_ack /\ state' = "CU_TX_SEL"
      /\ UNCHANGED <<cb, ia, cfg, tx_go, tx_len, idx>>
      /\ Cu!Stage(rdata) /\ tbd' = [tbd EXCEPT !.off = @ + 1]
  BY DEF Cu!Staging, Cu!StageByte, Cu!Goto, Cu!listVars, Cu!setupVars, Cu!sendVars
<1>2. rdata = Byte("BUF", Cu!TxAddr) /\ tbd.off < tbd.count
  BY <1>1, BufRead DEF StagedIInv, WordInv
<1>3. Cu!Stage(Byte("BUF", Cu!TxAddr))
  BY <1>1, <1>2
<1>4. StagingTypeOK' /\ TbdInv' /\ StagedInv' /\ GoInv'
  BY <1>1, <1>2, <1>3, BufferByte
<1> QED BY <1>1, <1>4 DEF StagedIInv, WordInv

LEMMA WordStep ==
  ASSUME CommandIInv, SetupIInv, StagedIInv, Clock, Cu!Staging, Cu!StageWord
  PROVE  StagedIInv'
<1> DEFINE W == [of : {"BUF"}, n : Nat]
<1>1. /\ state = "CU_TX_ST_WORD"
      /\ UNCHANGED <<cb, ia, cfg, tx_go, tx_len, idx>>
      /\ Cu!Stage(Head(tx_word)) /\ tx_word' = Tail(tx_word)
      /\ tbd' = [tbd EXCEPT !.off = @ + 1]
      /\ state' = IF Len(tx_word) = 1 THEN "CU_TX_SEL" ELSE state
  BY DEF Cu!Staging, Cu!StageWord, Cu!Goto, Cu!listVars, Cu!setupVars, Cu!sendVars
<1>2. /\ tx_word \in Seq(W) /\ tx_word # <<>> /\ tbd.off + Len(tx_word) <= tbd.count
      /\ \A k \in 1..Len(tx_word) : tx_word[k] = Byte("BUF", Cu!TxAddr + k - 1)
  BY <1>1 DEF StagedIInv, WordInv
<1>3. tbd.off \in Nat /\ tbd.count \in Nat /\ Cu!TxAddr \in Nat
  BY DEF StagedIInv, StagingTypeOK, Cu!TxAddr
<1>4. /\ Len(tx_word) \in Nat \ {0} /\ Head(tx_word) = tx_word[1]
      /\ Tail(tx_word) \in Seq(W) /\ Len(Tail(tx_word)) = Len(tx_word) - 1
      /\ \A k \in 1..Len(tx_word)-1 : Tail(tx_word)[k] = tx_word[k + 1]
  BY <1>2, EmptySeq, HeadTailProperties
<1>5. Head(tx_word) = Byte("BUF", Cu!TxAddr) /\ tbd.off < tbd.count
  <2>1. 1 \in 1..Len(tx_word) /\ Cu!TxAddr + 1 - 1 = Cu!TxAddr
    BY <1>3, <1>4
  <2>2. tx_word[1] = Byte("BUF", Cu!TxAddr)
    BY <1>2, <2>1
  <2> QED BY <1>2, <1>3, <1>4, <2>2
<1>6. Cu!Stage(Byte("BUF", Cu!TxAddr))
  BY <1>1, <1>5
<1>7. /\ StagingTypeOK' /\ TbdInv' /\ StagedInv' /\ GoInv'
      /\ tbd'.off = tbd.off + 1 /\ tbd'.count = tbd.count /\ Cu!TxAddr' = Cu!TxAddr + 1
  BY <1>1, <1>5, <1>6, BufferByte
<1>8. WordInv'
  <2> SUFFICES ASSUME state' = "CU_TX_ST_WORD"
               PROVE  /\ tx_word' \in Seq(W) /\ tx_word' # <<>>
                      /\ tbd'.off + Len(tx_word') <= tbd'.count
                      /\ \A k \in 1..Len(tx_word') :
                           tx_word'[k] = Byte("BUF", Cu!TxAddr' + k - 1)
    BY <1>1 DEF WordInv
  <2>1. Len(tx_word) # 1
    BY <1>1
  <2>2. tx_word' \in Seq(W) /\ Len(tx_word') = Len(tx_word) - 1 /\ Len(tx_word') > 0
    BY <1>1, <1>4, <2>1
  <2>3. tx_word' # <<>>
    BY <2>2, EmptySeq
  <2>4. tbd'.off + Len(tx_word') <= tbd'.count
    BY <1>2, <1>3, <1>4, <1>7, <2>2
  <2>5. ASSUME NEW k \in 1..Len(tx_word')
        PROVE  tx_word'[k] = Byte("BUF", Cu!TxAddr' + k - 1)
    <3>1. /\ k \in 1..Len(tx_word)-1 /\ k + 1 \in 1..Len(tx_word)
          /\ Cu!TxAddr + (k + 1) - 1 = Cu!TxAddr' + k - 1
      BY <1>3, <1>4, <1>7, <2>2
    <3> QED BY <1>1, <1>2, <1>4, <3>1
  <2> QED BY <2>2, <2>3, <2>4, <2>5
<1> QED BY <1>7, <1>8 DEF StagedIInv

\* A word of the buffer arrives, to be staged a byte at a time.
LEMMA WordReadStep ==
  ASSUME CommandIInv, SetupIInv, StagedIInv, Clock, Cu!Staging, Cu!ReadWord
  PROVE  StagedIInv'
<1>1. /\ state = "CU_TX_RD_WORD" /\ bus_ack /\ state' = "CU_TX_ST_WORD"
      /\ UNCHANGED <<cb, cmd, ia, cfg, tx_go, tx_len, idx, tx_bytes, tbd>>
      /\ ram_wr' = Cu!NoRam /\ tx_word' = rdata
  BY DEF Cu!Staging, Cu!ReadWord, Cu!Goto, Cu!StageNothing, Cu!listVars, Cu!setupVars, Cu!sendVars
<1>2. StagingTypeOK /\ StagedInv /\ GoInv /\ TbdInv /\ WordInv
  BY DEF StagedIInv
<1>3. /\ SoFar /\ Len(Frame(cb)) \in Nat /\ Len(Frame(cb)) <= RamBytes /\ RamBytes \in Nat
  BY <1>1, InTheBuffer DEF Opened
<1>4. SoFar' /\ Frame(cb)' = Frame(cb)
  BY <1>1, <1>2, <1>3, StagesNothing, SameFrame
<1>5. StagingTypeOK'
  BY <1>1, <1>2, RamMoves DEF StagingTypeOK
<1>6. TbdInv' /\ GoInv'
  BY <1>1, <1>2 DEF TbdInv, GoInv, Counted, Opened
<1>7. WordInv'
  <2>1. Cu!TxAddr \in Nat /\ Cu!TxAddr' = Cu!TxAddr
    BY <1>1, <1>2 DEF StagingTypeOK, Cu!TxAddr
  <2>2. tx_word' = [k \in 1..4 |-> Byte("BUF", Cu!TxAddr + k - 1)]
    BY <1>1, BufRead
  <2>3. \A k \in 1..4 : Byte("BUF", Cu!TxAddr + k - 1) \in [of : {"BUF"}, n : Nat]
    BY <2>1 DEF Byte
  <2>4. tx_word' \in Seq([of : {"BUF"}, n : Nat]) /\ Len(tx_word') = 4
    BY <2>2, <2>3
  <2>5. tx_word' # <<>>
    <3>1. tx_word' = <<>> => Len(tx_word') = 0
      BY EmptySeq
    <3>2. Len(tx_word') = 4
      BY <2>4
    <3> QED BY <3>1, <3>2
  <2>6. \A k \in 1..Len(tx_word') : tx_word'[k] = Byte("BUF", Cu!TxAddr' + k - 1)
    BY <2>1, <2>2, <2>4
  <2>7. tbd'.off + Len(tx_word') <= tbd'.count
    BY <1>1, <1>2, <2>4 DEF WordInv
  <2> QED BY <1>1, <2>4, <2>5, <2>6, <2>7 DEF WordInv
<1>8. tx_bytes >= tbd.off /\ FollowedBy(tx_bytes - tbd.off, ChainBytes[tbd.at])
  BY <1>1, <1>2 DEF StagedInv, Opened
<1>9. FollowedBy(tx_bytes - tbd.off, ChainBytes[tbd.at])' /\ tx_bytes' >= tbd'.off
  BY <1>1, <1>4, <1>8 DEF FollowedBy
<1>10. StagedInv'
  BY <1>1, <1>4, <1>9 DEF StagedInv, Counted, Opened, Cu!HdrStates
<1> QED BY <1>5, <1>6, <1>7, <1>10 DEF StagedIInv

\* While the transmitter has the frame nothing is staged, and it is told to go
\* only when everything is.
LEMMA SendStep ==
  ASSUME CommandIInv, SetupIInv, StagedIInv, Clock, Cu!Sending
  PROVE  StagedIInv'
<1>1. /\ UNCHANGED <<cb, ia, cfg, idx, tbd, tx_word>>
      /\ ram_wr' = Cu!NoRam
  BY DEF Cu!Sending, Cu!listVars, Cu!setupVars, Cu!bufVars
<1>2. StagingTypeOK /\ StagedInv /\ GoInv /\ KindInv
  BY DEF StagedIInv, SetupIInv
<1>9. /\ state \in Cu!SendStates /\ state' \in Cu!SendStates \cup {"CU_FINISH"}
      /\ tx_bytes' \in {tx_bytes, tx_bytes + 1}
      /\ state' = "CU_TX_GO" => state = "CU_TX_GO" /\ UNCHANGED tx_bytes
      /\ tx_go' => state' = "CU_TX_GO" /\ tx_len' = tx_bytes /\ ~Cu!Loopback
  <2> USE DEF Cu!Goto, Cu!sendVars, Cu!SendStates
  <2>1. CASE Cu!Go
    <3>1. CASE Cu!AttemptOver
      BY <2>1, <3>1 DEF Cu!Go
    <3>2. CASE ~Cu!AttemptOver
      <4>1. tx_go => ~Cu!Loopback
        BY <1>2 DEF GoInv
      <4>2. /\ state = "CU_TX_GO" /\ tx_len' = tx_bytes /\ UNCHANGED tx_bytes
            /\ tx_go' = (tx_go \/ ~Cu!Loopback)
            /\ state' = IF Cu!Loopback THEN "CU_TX_LB_PAD" ELSE "CU_TX_GO"
        BY <2>1, <3>2 DEF Cu!Go
      <4>3. tx_go' => ~Cu!Loopback
        BY <4>1, <4>2
      <4> QED BY <4>2, <4>3
    <3> QED BY <3>1, <3>2
  <2>2. CASE Cu!PadLoopback \/ Cu!EndLoopback
    BY <1>2, <2>2 DEF Cu!PadLoopback, Cu!EndLoopback, GoInv
  <2> QED BY <2>1, <2>2 DEF Cu!Sending
<1>3. StagingTypeOK'
  BY <1>1, <1>2, <1>9, RamMoves DEF StagingTypeOK
<1>4. TbdInv' /\ WordInv'
  BY <1>9 DEF TbdInv, WordInv, Counted, Opened, Cu!SendStates
<1>5. Frame(cb)' = Frame(cb) /\ Cu!Loopback' = Cu!Loopback
  BY <1>1, SameFrame DEF Cu!Loopback
<1>6. state' = "CU_TX_GO" => SoFar'
  <2> SUFFICES ASSUME state' = "CU_TX_GO" PROVE SoFar'
    OBVIOUS
  <2>1. /\ SoFar /\ Len(Frame(cb)) \in Nat /\ Len(Frame(cb)) <= RamBytes /\ RamBytes \in Nat
    BY <1>2, <1>9, InHand DEF StagedInv
  <2> QED BY <1>1, <1>2, <1>9, <2>1, StagesNothing
<1>7. GoInv'
  <2>1. state' = "CU_TX_GO" => tx_bytes' = Len(Frame(cb))' /\ ~ram_wr'.we
    BY <1>1, <1>2, <1>5, <1>9 DEF GoInv, Cu!NoRam
  <2>2. tx_go' => state' = "CU_TX_GO" /\ tx_len' = tx_bytes' /\ ~Cu!Loopback'
    BY <1>5, <1>9
  <2> QED BY <2>1, <2>2 DEF GoInv
<1>8. StagedInv'
  BY <1>6, <1>9 DEF StagedInv, Counted, Opened, Cu!HdrStates, Cu!BufStates, Cu!SendStates
<1> QED BY <1>3, <1>4, <1>7, <1>8 DEF StagedIInv

\* A transmission starts with nothing staged.
LEMMA DispatchStep ==
  ASSUME CommandIInv, SetupIInv, StagedIInv, Clock, Cu!Dispatch
  PROVE  StagedIInv'
<1>1. /\ state = "CU_WR_BUSY" /\ idx' = 0 /\ state' = Cu!FirstState
      /\ tx_bytes' = IF cmd.op = "TRANSMIT" THEN 0 ELSE tx_bytes
      /\ UNCHANGED <<cb, cmd, ia, cfg, tbd, tx_word, tx_go, tx_len>>
  BY DEF Cu!Dispatch, Cu!Goto, Cu!listVars, Cu!setupVars, Cu!bufVars
<1>2. StagingTypeOK /\ GoInv
  BY DEF StagedIInv
<1>3. cb \in Blocks /\ cmd = Cb[cb].cmd
  BY <1>1 DEF CommandIInv, ListInv
<1>4. StagingTypeOK'
  BY <1>1, <1>2, RamMoves DEF StagingTypeOK
<1>5. ~tx_go'
  BY <1>1, <1>2 DEF GoInv
<1>6. CASE cmd.op = "TRANSMIT"
  <2>1. /\ state' = IF Cu!AlLoc THEN "CU_TX_RD_TBD" ELSE "CU_TX_HDR_DST"
        /\ tx_bytes' = 0
    BY <1>1, <1>6 DEF Cu!FirstState
  <2>2. /\ Frame(cb)' = Frame(cb) /\ Cu!AlLoc' = Cu!AlLoc
        /\ Len(Frame(cb)) \in Nat
        /\ Cu!AlLoc => Frame(cb) = ChainBytes[Cb[cb].tbd]
        /\ Len(ChainBytes[Cb[cb].tbd]) \in Nat
    BY <1>1, <1>3, <1>6, SameFrame, FrameIs DEF Cu!AlLoc
  <2>3. SoFar'
    BY <2>1, <2>2 DEF SoFar
  <2>4. Cu!AlLoc => FollowedBy(tx_bytes, ChainBytes[Cb[cb].tbd])'
    BY <1>1, <2>1, <2>2 DEF FollowedBy
  <2>5. TbdInv' /\ WordInv' /\ GoInv'
    BY <1>5, <2>1 DEF TbdInv, WordInv, GoInv, Counted, Opened
  <2>6. StagedInv'
    BY <1>1, <2>1, <2>2, <2>3, <2>4 DEF StagedInv, Counted, Opened, Cu!HdrStates
  <2> QED BY <1>4, <2>5, <2>6 DEF StagedIInv
<1>7. CASE cmd.op # "TRANSMIT"
  <2>1. state' \in {"CU_IA", "CU_CFG", "CU_MC_RD_CNT", "CU_TDR_WR", "CU_FINISH"}
    BY <1>1, <1>7 DEF Cu!FirstState
  <2> QED BY <1>4, <1>5, <2>1 DEF StagedIInv, TbdInv, WordInv, GoInv, StagedInv, Counted,
             Opened, Cu!HdrStates, Cu!BufStates
<1> QED BY <1>6, <1>7

\* Between transmissions nothing is said of the RAM.
LEMMA ElseStep ==
  ASSUME CommandIInv, SetupIInv, StagedIInv, Clock,
         Cu!Idle \/ Cu!Fetch \/ Cu!Setup \/ Cu!Finish \/ Cu!NextBlock
  PROVE  StagedIInv'
<1>1. /\ UNCHANGED <<tbd, tx_bytes, tx_go, tx_len>>
      /\ idx' \in {0, idx, idx + 1}
      /\ state # "CU_TX_GO"
      /\ state' \in {"CU_IDLE"} \cup Cu!ListStates \cup Cu!SetupStates
  <2> USE DEF Cu!Goto, Cu!bufVars, Cu!sendVars, Cu!ListStates, Cu!SetupStates
  <2>1. CASE Cu!Idle
    BY <2>1 DEF Cu!Idle
  <2>2. CASE Cu!Fetch
    BY <2>2 DEF Cu!Fetch
  <2>3. CASE Cu!Finish
    BY <2>3 DEF Cu!Finish, Cu!Completed
  <2>4. CASE Cu!NextBlock
    BY <2>4 DEF Cu!NextBlock, Cu!StopOrSuspend, Cu!GoOn
  <2>5. CASE Cu!Setup
    BY <2>5 DEF Cu!Setup, Cu!SetupIa, Cu!SetupCfg, Cu!SetupMcCount, Cu!SetupMcAddr, Cu!WriteTdr
  <2> QED BY <2>1, <2>2, <2>3, <2>4, <2>5
<1>2. StagingTypeOK /\ GoInv
  BY DEF StagedIInv
<1>3. StagingTypeOK'
  BY <1>1, <1>2, RamMoves DEF StagingTypeOK
<1>4. ~tx_go'
  BY <1>1, <1>2 DEF GoInv
<1> QED BY <1>1, <1>3, <1>4 DEF StagedIInv, TbdInv, WordInv, GoInv, StagedInv, Counted,
           Opened, Cu!HdrStates, Cu!BufStates, Cu!ListStates, Cu!SetupStates

\* Waiting, the unit stages nothing more, and what was on its way arrives.
LEMMA WaitStep ==
  ASSUME CommandIInv, SetupIInv, StagedIInv, Clock, Cu!Wait
  PROVE  StagedIInv'
<1>1. /\ UNCHANGED <<state, cb, ia, cfg, idx, tbd, tx_word, tx_bytes, tx_go, tx_len>>
      /\ ram_wr' = Cu!NoRam /\ state # "CU_TX_GO"
  BY DEF Cu!Wait, Cu!NoPulses, Cu!listVars, Cu!setupVars, Cu!bufVars, Cu!sendVars,
         Cu!OwnPace, Cu!LbPace, Cu!RoomPace
<1>2. StagingTypeOK /\ TbdInv /\ WordInv /\ StagedInv /\ GoInv /\ KindInv
  BY DEF StagedIInv, SetupIInv
<1>3. StagingTypeOK'
  BY <1>1, <1>2, RamMoves DEF StagingTypeOK
<1>4. /\ Cu!TxAddr' = Cu!TxAddr /\ Cu!AlLoc' = Cu!AlLoc /\ Cu!Loopback' = Cu!Loopback
      /\ Frame(cb)' = Frame(cb)
  BY <1>1, SameFrame DEF Cu!TxAddr, Cu!AlLoc, Cu!Loopback
<1>5. TbdInv' /\ WordInv' /\ GoInv'
  BY <1>1, <1>2, <1>4 DEF TbdInv, WordInv, GoInv
<1>6. state \in Cu!HdrStates \cup Cu!BufStates => SoFar'
  <2> SUFFICES ASSUME state \in Cu!HdrStates \cup Cu!BufStates PROVE SoFar'
    OBVIOUS
  <2>1. /\ SoFar /\ Len(Frame(cb)) \in Nat /\ Len(Frame(cb)) <= RamBytes /\ RamBytes \in Nat
    BY <1>2, InHand DEF StagedInv
  <2> QED BY <1>1, <1>2, <2>1, StagesNothing
<1>7. StagedInv'
  <2>1. \A p \in Int : \A s :
          FollowedBy(p, s) <=> /\ Len(Frame(cb)') = p + Len(s)
                               /\ \A k \in 1..Len(s) : Frame(cb)'[p + k] = s[k]
    BY <1>4 DEF FollowedBy
  <2>2. /\ FollowedBy(tx_bytes, ChainBytes[Cb[cb].tbd]) =>
             FollowedBy(tx_bytes, ChainBytes[Cb[cb].tbd])'
        /\ FollowedBy(tx_bytes, ChainBytes[tbd.at]) => FollowedBy(tx_bytes, ChainBytes[tbd.at])'
        /\ FollowedBy(tx_bytes - tbd.off, ChainBytes[tbd.at]) =>
             FollowedBy(tx_bytes - tbd.off, ChainBytes[tbd.at])'
        /\ FollowedBy(tx_bytes, ChainBytes[Td[tbd.at].link]) =>
             FollowedBy(tx_bytes, ChainBytes[Td[tbd.at].link])'
    BY <1>1, <1>4 DEF FollowedBy
  <2> QED BY <1>1, <1>2, <1>4, <1>6, <2>2 DEF StagedInv
<1> QED BY <1>3, <1>5, <1>7 DEF StagedIInv

LEMMA StagingResets ==
  ASSUME StagedIInv, Clock, Cu!CuReset
  PROVE  StagedIInv'
<1>1. /\ state' = "CU_IDLE" /\ idx' = 0 /\ tx_bytes' = 0 /\ ~tx_go'
      /\ tbd' = [at |-> Null, count |-> 0, eof |-> FALSE, buf |-> 0, off |-> 0]
  BY DEF Cu!CuReset, Cu!NoTbd
<1>2. DOMAIN ram' = 0..RamBytes-1
  BY RamMoves DEF StagedIInv
<1>3. StagingTypeOK'
  BY <1>1, <1>2 DEF StagingTypeOK
<1> QED BY <1>1, <1>3 DEF StagedIInv, TbdInv, WordInv, GoInv, StagedInv, Counted, Opened,
           Cu!HdrStates, Cu!BufStates

LEMMA StagedKept ==
  CommandIInv /\ SetupIInv /\ StagedIInv /\ [Next]_vars => StagedIInv'
<1> SUFFICES ASSUME CommandIInv, SetupIInv, StagedIInv, [Next]_vars
             PROVE  StagedIInv'
  OBVIOUS
<1>1. CASE Clock
  <2>1. Cu!CuEdge
    BY <1>1 DEF Clock
  <2>2. CASE Cu!Staging
    <3>1. CASE Cu!OpenTbd
      BY <1>1, <2>2, <3>1, OpenStep
    <3>2. CASE Cu!StageHeader
      BY <1>1, <2>2, <3>2, HeaderStep
    <3>3. CASE Cu!Select
      BY <1>1, <2>2, <3>3, SelectStep
    <3>4. CASE Cu!StageByte
      BY <1>1, <2>2, <3>4, ByteStep
    <3>5. CASE Cu!ReadWord
      BY <1>1, <2>2, <3>5, WordReadStep
    <3>6. CASE Cu!StageWord
      BY <1>1, <2>2, <3>6, WordStep
    <3> QED BY <2>2, <3>1, <3>2, <3>3, <3>4, <3>5, <3>6 DEF Cu!Staging
  <2> QED BY <1>1, <2>1, <2>2, CuCases, SendStep, DispatchStep, ElseStep, WaitStep,
             StagingResets
<1>2. CASE Tick \/ UNCHANGED vars
  <2>1. UNCHANGED <<cuVars, ram>>
    BY <1>2 DEF Tick, vars
  <2>2. /\ UNCHANGED <<state, cb, ia, cfg, idx, tbd, tx_word, tx_bytes, tx_go, tx_len, ram_wr,
                       ram>>
        /\ StagingTypeOK /\ TbdInv /\ WordInv /\ StagedInv /\ GoInv
    BY <2>1 DEF cuVars, StagedIInv
  <2>3. /\ Cu!TxAddr' = Cu!TxAddr /\ Cu!AlLoc' = Cu!AlLoc /\ Cu!Loopback' = Cu!Loopback
        /\ Frame(cb)' = Frame(cb)
    BY <2>2, SameFrame DEF Cu!TxAddr, Cu!AlLoc, Cu!Loopback
  <2>4. StagingTypeOK' /\ TbdInv' /\ WordInv' /\ GoInv'
    BY <2>2, <2>3 DEF StagingTypeOK, TbdInv, WordInv, GoInv
  <2>5. /\ SoFar => SoFar'
        /\ FollowedBy(tx_bytes, ChainBytes[Cb[cb].tbd]) =>
             FollowedBy(tx_bytes, ChainBytes[Cb[cb].tbd])'
        /\ FollowedBy(tx_bytes, ChainBytes[tbd.at]) => FollowedBy(tx_bytes, ChainBytes[tbd.at])'
        /\ FollowedBy(tx_bytes - tbd.off, ChainBytes[tbd.at]) =>
             FollowedBy(tx_bytes - tbd.off, ChainBytes[tbd.at])'
        /\ FollowedBy(tx_bytes, ChainBytes[Td[tbd.at].link]) =>
             FollowedBy(tx_bytes, ChainBytes[Td[tbd.at].link])'
    BY <2>2, <2>3 DEF SoFar, RamSoon, FollowedBy
  <2>6. StagedInv'
    BY <2>2, <2>3, <2>5 DEF StagedInv
  <2> QED BY <2>4, <2>6 DEF StagedIInv
<1> QED BY <1>1, <1>2 DEF Next

\* Whatever the buffers and the header, the staging RAM holds the frame so far.
THEOREM StagingInvariance == Spec => []StagedIInv
<1>1. Init => StagedIInv
  <2> SUFFICES ASSUME Init PROVE StagedIInv
    OBVIOUS
  <2>1. /\ state = "CU_IDLE" /\ idx = 0 /\ tx_bytes = 0 /\ ~tx_go
        /\ tbd = [at |-> Null, count |-> 0, eof |-> FALSE, buf |-> 0, off |-> 0]
        /\ DOMAIN ram = 0..RamBytes-1
    BY DEF Init, Cu!CuInit, Cu!NoTbd
  <2>2. StagingTypeOK
    BY <2>1 DEF StagingTypeOK
  <2> QED BY <2>1, <2>2 DEF StagedIInv, TbdInv, WordInv, GoInv, StagedInv, Counted, Opened,
             Cu!HdrStates, Cu!BufStates
<1> QED BY CommandInvariance, SetupInvariance, StagedKept, <1>1, PTL DEF Spec

\* When the transmitter is told to go, the whole frame is in the staging RAM and
\* its length is right, however the buffers were cut and aligned (CU_TX_GO).
THEOREM FramesStagedWhole == Spec => []StagedWhole
<1>1. CommandIInv /\ SetupIInv /\ StagedIInv => StagedWhole
  <2> SUFFICES ASSUME CommandIInv, SetupIInv, StagedIInv, tx_go
               PROVE  /\ tx_len = Len(Frame(cb))
                      /\ \A k \in 1..Len(Frame(cb)) : ram[k - 1] = Frame(cb)[k]
    BY DEF StagedWhole
  <2>1. /\ state = "CU_TX_GO" /\ tx_len = tx_bytes /\ tx_bytes = Len(Frame(cb)) /\ ~ram_wr.we
        /\ SoFar
    BY DEF StagedIInv, GoInv, StagedInv
  <2>2. Len(Frame(cb)) \in Nat
    BY <2>1, InHand DEF SetupIInv
  <2>3. ASSUME NEW k \in 1..Len(Frame(cb))
        PROVE  ram[k - 1] = Frame(cb)[k]
    <3>1. k - 1 \in 0..tx_bytes-1 /\ (k - 1) + 1 = k
      BY <2>1, <2>2
    <3>2. RamSoon(k - 1) = Frame(cb)[(k - 1) + 1]
      BY <2>1, <3>1 DEF SoFar
    <3> QED BY <2>1, <3>1, <3>2 DEF RamSoon
  <2> QED BY <2>1, <2>3
<1> QED BY CommandInvariance, SetupInvariance, StagingInvariance, <1>1, PTL

-----------------------------------------------------------------------------
\* The handshake with the transmitter.

Setting == Cu!SetupStates \cup {"CU_TX_LB_PAD", "CU_TX_LB_END", "CU_FINISH"}
Buffering == Opened \cup {"CU_TX_NEXT_TBD"}

\* Where an edge leads the unit.
LEMMA Moves ==
  ASSUME Cu!CuEdge, ~core_rst
  PROVE  /\ state = "CU_IDLE" => state' \in {"CU_IDLE", "CU_FETCH_CMD"}
         /\ state = "CU_NEXT" => state' \in {"CU_IDLE", "CU_FETCH_CMD"}
         /\ state = "CU_FETCH_CMD" => state' = IF bus_ack THEN "CU_FETCH_LINK" ELSE state
         /\ state = "CU_FETCH_LINK" => state' = IF bus_ack THEN "CU_WR_BUSY" ELSE state
         /\ state = "CU_WR_BUSY" =>
              IF bus_ack THEN state' \in Setting \cup {"CU_TX_HDR_DST", "CU_TX_RD_TBD"}
                         ELSE state' = state
         /\ state \in Cu!HdrStates =>
              state' \in Cu!HdrStates \/ (state' = "CU_TX_RD_TBD" /\ bus_ack)
         /\ state = "CU_TX_RD_TBD" =>
              IF bus_ack THEN state' \in {"CU_FINISH", "CU_TX_RD_CNT"} ELSE state' = state
         /\ state = "CU_TX_RD_CNT" => state' = IF bus_ack THEN "CU_TX_RD_BUF_LO" ELSE state
         /\ state = "CU_TX_RD_BUF_LO" => state' = IF bus_ack THEN "CU_TX_RD_BUF_HI" ELSE state
         /\ state = "CU_TX_RD_BUF_HI" => state' = IF bus_ack THEN "CU_TX_SEL" ELSE state
         /\ state \in Buffering => state' \in Buffering \cup {"CU_TX_GO", "CU_TX_RD_CNT"}
         /\ state = "CU_FINISH" => state' = IF bus_ack THEN "CU_NEXT" ELSE state
         /\ state \in Setting \ {"CU_FINISH"} =>
              /\ state' \in Setting
              /\ state' = "CU_FINISH" => bus_ack \/ state \in Unasking
<1> USE DEF Cu!Goto, Setting, Buffering, Opened, Cu!SetupStates, Cu!HdrStates
<1>1. CASE Cu!CuReset
  BY <1>1 DEF Cu!CuReset
<1>2. CASE Cu!Idle \/ Cu!Fetch
  BY <1>2 DEF Cu!Idle, Cu!Fetch
<1>3. CASE Cu!Finish \/ Cu!NextBlock
  BY <1>3 DEF Cu!Finish, Cu!Completed, Cu!NextBlock, Cu!StopOrSuspend, Cu!GoOn
<1>4. CASE Cu!Wait
  BY <1>4 DEF Cu!Wait, Cu!OwnPace, Cu!LbPace, Cu!RoomPace
<1>5. CASE Cu!Dispatch
  BY <1>5 DEF Cu!Dispatch, Cu!FirstState
<1>6. CASE Cu!Setup
  BY <1>6 DEF Cu!Setup, Cu!SetupIa, Cu!SetupCfg, Cu!SetupMcCount, Cu!SetupMcAddr, Cu!WriteTdr
<1>7. CASE Cu!Staging
  <2>1. CASE Cu!OpenTbd
    BY <2>1 DEF Cu!OpenTbd
  <2>2. CASE Cu!StageHeader
    BY <2>2 DEF Cu!StageHeader, Cu!Header
  <2>3. CASE Cu!Select \/ Cu!StageByte \/ Cu!ReadWord \/ Cu!StageWord
    BY <2>3 DEF Cu!Select, Cu!StageByte, Cu!ReadWord, Cu!StageWord
  <2> QED BY <1>7, <2>1, <2>2, <2>3 DEF Cu!Staging
<1>8. CASE Cu!Sending
  BY <1>8 DEF Cu!Sending, Cu!Go, Cu!PadLoopback, Cu!EndLoopback, Unasking
<1> QED BY CuCases, <1>1, <1>2, <1>3, <1>4, <1>5, <1>6, <1>7, <1>8

\* An access takes its three edges.
LEMMA AccessTakes ==
  ASSUME CommandIInv, Clock
  PROVE  /\ AccessLeft \in 1..3 /\ AccessLeft' \in 1..3
         /\ bus_ack <=> AccessLeft = 1
         /\ ~bus_ack => AccessLeft' >= AccessLeft - 1
         /\ bus_ack => AccessLeft' = 3
         /\ state \in Unasking \/ (state = "CU_IDLE" /\ cu_ctl # "NOP") => AccessLeft' = 3
<1>1. PortEdge /\ CommandTypeOK /\ PortInv /\ PulseInv
  BY DEF Clock, CommandIInv
<1>2. port \in {"IDLE", "ACTIVE", "ACK", "OTHER"} /\ port' \in {"IDLE", "ACTIVE", "ACK", "OTHER"}
  BY <1>1, PortSteps DEF CommandTypeOK
<1>3. /\ port = "ACK" => port' = "IDLE"
      /\ port \in {"IDLE", "OTHER"} => port' # "ACK"
  BY <1>1 DEF PortEdge, PortMoves, PortIdle, PortStart, PortWait, PortDone, PortAck,
     OtherStart, OtherDone, portVars
<1>4. state \in Unasking \/ (state = "CU_IDLE" /\ cu_ctl # "NOP") => port' \in {"IDLE", "OTHER"}
  BY <1>1, NoAsking, PortSteps DEF PortInv, PulseInv
<1> QED BY <1>2, <1>3, <1>4 DEF AccessLeft, bus_ack

\* The states, as the edges that are left to the next go tell them apart.
LEMMA EdgesAre ==
  ASSUME NEW s \in Cu!States, NEW left
  PROVE  /\ \/ s \in {"CU_IDLE", "CU_NEXT", "CU_FETCH_CMD", "CU_FETCH_LINK", "CU_WR_BUSY",
                          "CU_TX_RD_TBD", "CU_TX_RD_CNT", "CU_TX_RD_BUF_LO", "CU_TX_RD_BUF_HI",
                          "CU_TX_GO"}
            \/ s \in Cu!HdrStates \/ s \in Buffering \/ s \in Setting
         /\ s \in {"CU_IDLE", "CU_NEXT"} => EdgesFrom(s, left) = 24
         /\ s = "CU_FETCH_CMD" => EdgesFrom(s, left) = 20 + left
         /\ s = "CU_FETCH_LINK" => EdgesFrom(s, left) = 17 + left
         /\ s = "CU_WR_BUSY" => EdgesFrom(s, left) = 14 + left
         /\ s \in Cu!HdrStates => EdgesFrom(s, left) = 14
         /\ s = "CU_TX_RD_TBD" => EdgesFrom(s, left) = 11 + left
         /\ s = "CU_TX_RD_CNT" => EdgesFrom(s, left) = 8 + left
         /\ s = "CU_TX_RD_BUF_LO" => EdgesFrom(s, left) = 5 + left
         /\ s = "CU_TX_RD_BUF_HI" => EdgesFrom(s, left) = 2 + left
         /\ s \in Buffering => EdgesFrom(s, left) = 2
         /\ s = "CU_TX_GO" => EdgesFrom(s, left) = 1
         /\ s \in Setting =>
              EdgesFrom(s, left) = IF s = "CU_FINISH" THEN 24 + left ELSE 27
<1>1. \/ s \in {"CU_IDLE", "CU_NEXT", "CU_FETCH_CMD", "CU_FETCH_LINK", "CU_WR_BUSY",
                    "CU_TX_RD_TBD", "CU_TX_RD_CNT", "CU_TX_RD_BUF_LO", "CU_TX_RD_BUF_HI",
                    "CU_TX_GO"}
      \/ s \in Cu!HdrStates \/ s \in Buffering \/ s \in Setting
  BY DEF Cu!States, Cu!ListStates, Cu!SetupStates, Cu!BufStates, Cu!SendStates,
     Cu!HdrStates, Setting, Buffering, Opened
<1> USE DEF EdgesFrom, Cu!HdrStates, Opened
<1>2. /\ s \in {"CU_IDLE", "CU_NEXT"} => EdgesFrom(s, left) = 24
      /\ s = "CU_FETCH_CMD" => EdgesFrom(s, left) = 20 + left
      /\ s = "CU_FETCH_LINK" => EdgesFrom(s, left) = 17 + left
      /\ s = "CU_WR_BUSY" => EdgesFrom(s, left) = 14 + left
  OBVIOUS
<1>3. /\ s \in Cu!HdrStates => EdgesFrom(s, left) = 14
      /\ s = "CU_TX_RD_TBD" => EdgesFrom(s, left) = 11 + left
      /\ s = "CU_TX_RD_CNT" => EdgesFrom(s, left) = 8 + left
      /\ s = "CU_TX_RD_BUF_LO" => EdgesFrom(s, left) = 5 + left
      /\ s = "CU_TX_RD_BUF_HI" => EdgesFrom(s, left) = 2 + left
  OBVIOUS
<1>4. s \in Buffering => EdgesFrom(s, left) = 2
  BY DEF Buffering
<1>5. s = "CU_TX_GO" => EdgesFrom(s, left) = 1
  OBVIOUS
<1>6. s \in Setting => EdgesFrom(s, left) = IF s = "CU_FINISH" THEN 24 + left ELSE 27
  BY DEF Setting, Cu!SetupStates
<1> QED BY <1>1, <1>2, <1>3, <1>4, <1>5, <1>6

LEMMA EdgesPositive ==
  ASSUME NEW s \in Cu!States, NEW left \in 1..3
  PROVE  EdgesFrom(s, left) \in Nat \ {0}
BY EdgesAre

\* The unit comes no more than one edge nearer to its next go on each of them.
LEMMA NearerByOne ==
  ASSUME CommandIInv, Clock, ~core_rst, state # "CU_TX_GO"
  PROVE  EdgesToGo \in Int /\ EdgesToGo' \in Int /\ EdgesToGo' >= EdgesToGo - 1
<1>1. state \in Cu!States /\ state' \in Cu!States /\ Cu!CuEdge
  BY TypeStep DEF Clock, CommandIInv, CommandTypeOK
<1>2. /\ AccessLeft \in 1..3 /\ AccessLeft' \in 1..3
      /\ bus_ack <=> AccessLeft = 1
      /\ ~bus_ack => AccessLeft' >= AccessLeft - 1
      /\ bus_ack => AccessLeft' = 3
      /\ state \in Unasking \/ (state = "CU_IDLE" /\ cu_ctl # "NOP") => AccessLeft' = 3
  BY AccessTakes
<1>3. /\ state' \in {"CU_IDLE", "CU_NEXT"} => EdgesToGo' = 24
      /\ state' = "CU_FETCH_CMD" => EdgesToGo' = 20 + AccessLeft'
      /\ state' = "CU_FETCH_LINK" => EdgesToGo' = 17 + AccessLeft'
      /\ state' = "CU_WR_BUSY" => EdgesToGo' = 14 + AccessLeft'
      /\ state' \in Cu!HdrStates => EdgesToGo' = 14
      /\ state' = "CU_TX_RD_TBD" => EdgesToGo' = 11 + AccessLeft'
      /\ state' = "CU_TX_RD_CNT" => EdgesToGo' = 8 + AccessLeft'
      /\ state' = "CU_TX_RD_BUF_LO" => EdgesToGo' = 5 + AccessLeft'
      /\ state' = "CU_TX_RD_BUF_HI" => EdgesToGo' = 2 + AccessLeft'
      /\ state' \in Buffering => EdgesToGo' = 2
      /\ state' = "CU_TX_GO" => EdgesToGo' = 1
      /\ state' \in Setting =>
           EdgesToGo' = IF state' = "CU_FINISH" THEN 24 + AccessLeft' ELSE 27
  BY <1>1, EdgesAre DEF EdgesToGo
<1>4. CASE state = "CU_IDLE"
  <2>1. Cu!Idle
    BY <1>1, <1>4, CuCases, CarryingSteps DEF Cu!CuReset, Cu!Fetch, Cu!Finish, Cu!Completed,
       Cu!NextBlock, Cu!Wait, Cu!OwnPace, Carrying, Cu!SetupStates, Cu!HdrStates,
       Cu!BufStates, Cu!SendStates, Cu!LbPace, Cu!RoomPace
  <2>2. state' = "CU_IDLE" \/ (state' = "CU_FETCH_CMD" /\ cu_ctl # "NOP")
    BY <1>4, <2>1 DEF Cu!Idle, Cu!Resumes, Cu!Goto
  <2> QED BY <1>1, <1>2, <1>3, <1>4, <2>2, EdgesAre DEF EdgesToGo
<1>5. CASE state \in {"CU_NEXT", "CU_FETCH_CMD", "CU_FETCH_LINK"}
  BY <1>1, <1>2, <1>3, <1>5, Moves, EdgesAre DEF EdgesToGo, Unasking
<1>6. CASE state = "CU_WR_BUSY"
  BY <1>1, <1>2, <1>3, <1>6, Moves, EdgesAre DEF EdgesToGo, Cu!HdrStates
<1>7. CASE state \in Cu!HdrStates
  BY <1>1, <1>2, <1>3, <1>7, Moves, EdgesAre DEF EdgesToGo
<1>8. CASE state = "CU_TX_RD_TBD"
  BY <1>1, <1>2, <1>3, <1>8, Moves, EdgesAre DEF EdgesToGo, Setting
<1>9. CASE state \in {"CU_TX_RD_CNT", "CU_TX_RD_BUF_LO", "CU_TX_RD_BUF_HI"}
  BY <1>1, <1>2, <1>3, <1>9, Moves, EdgesAre DEF EdgesToGo, Buffering, Opened
<1>10. CASE state \in Buffering
  BY <1>1, <1>2, <1>3, <1>10, Moves, EdgesAre DEF EdgesToGo
<1>11. CASE state \in Setting
  <2>1. CASE state = "CU_FINISH"
    BY <1>1, <1>2, <1>3, <2>1, Moves, EdgesAre DEF EdgesToGo, Setting
  <2>2. CASE state # "CU_FINISH"
    <3>1. state' \in Setting /\ EdgesToGo = 27
      BY <1>1, <1>11, <2>2, Moves, EdgesAre DEF EdgesToGo
    <3>2. EdgesToGo' = IF state' = "CU_FINISH" THEN 24 + AccessLeft' ELSE 27
      BY <1>3, <3>1
    <3>3. CASE state' = "CU_FINISH"
      <4>1. AccessLeft' = 3
        BY <1>1, <1>2, <1>11, <2>2, <3>3, Moves
      <4> QED BY <3>1, <3>2, <3>3, <4>1
    <3> QED BY <3>1, <3>2, <3>3
  <2> QED BY <2>1, <2>2
<1> QED BY <1>1, <1>4, <1>5, <1>6, <1>7, <1>8, <1>9, <1>10, <1>11, EdgesAre DEF EdgesToGo

\* What the unit does with the transmitter, edge by edge.
LEMMA GoMoves ==
  ASSUME Cu!CuEdge, ~core_rst
  PROVE  /\ done_s1' = tx_done /\ done_s2' = done_s1
         /\ state # "CU_TX_GO" => UNCHANGED <<tx_go, tx_len>>
         /\ state = "CU_TX_GO" =>
              /\ UNCHANGED <<cb, cmd, ia, cfg>> /\ tx_len' = tx_bytes
              /\ IF tx_go /\ done_s2
                 THEN tx_go' = FALSE /\ ok' = tx_ok /\ state' = "CU_FINISH"
                 ELSE /\ tx_go' = (tx_go \/ ~Cu!Loopback)
                      /\ state' = IF Cu!Loopback THEN "CU_TX_LB_PAD" ELSE "CU_TX_GO"
<1>1. ~Cu!CuReset /\ done_s1' = tx_done /\ done_s2' = done_s1
  BY DEF Cu!CuEdge, Cu!CuReset, Cu!Sync
<1>2. CASE state # "CU_TX_GO"
  <2>1. CASE Cu!Sending
    BY <1>1, <1>2, <2>1 DEF Cu!Sending, Cu!Go, Cu!PadLoopback, Cu!EndLoopback, Cu!sendVars
  <2>2. CASE Cu!Idle \/ Cu!Fetch \/ Cu!Finish \/ Cu!NextBlock \/ Cu!Wait \/ Cu!Dispatch
               \/ Cu!Setup \/ Cu!Staging
    BY <1>1, <1>2, <2>2 DEF Cu!Idle, Cu!Fetch, Cu!Finish, Cu!NextBlock, Cu!Wait, Cu!Dispatch,
       Cu!Setup, Cu!Staging, Cu!sendVars
  <2> QED BY <1>1, <2>1, <2>2, CuCases
<1>3. CASE state = "CU_TX_GO"
  <2>1. ~(Cu!Idle \/ Cu!Fetch \/ Cu!Finish \/ Cu!NextBlock \/ Cu!Wait \/ Cu!Dispatch)
    BY <1>3 DEF Cu!Idle, Cu!Fetch, Cu!Finish, Cu!Completed, Cu!NextBlock, Cu!Wait, Cu!Dispatch,
       Cu!OwnPace, Cu!LbPace, Cu!RoomPace
  <2>2. ~(Cu!Setup \/ Cu!Staging)
    BY <1>3 DEF Cu!Setup, Cu!SetupIa, Cu!SetupCfg, Cu!SetupMcCount, Cu!SetupMcAddr, Cu!WriteTdr,
       Cu!Staging, Cu!OpenTbd, Cu!StageHeader, Cu!Select, Cu!StageByte, Cu!ReadWord, Cu!StageWord
  <2>3. Cu!Sending /\ Cu!Go
    BY <1>1, <1>3, <2>1, <2>2, CuCases DEF Cu!Sending, Cu!PadLoopback, Cu!EndLoopback
  <2> QED BY <1>1, <1>3, <2>3 DEF Cu!Sending, Cu!Go, Cu!AttemptOver, Cu!Goto, Cu!listVars,
             Cu!setupVars
<1> QED BY <1>2, <1>3

\* What mii_tx reports, as it changes.
LEMMA ReportMoves ==
  ASSUME NEW r \in Reports
  PROVE  /\ [r EXCEPT !.ncoll = 0, !.xcoll = FALSE] \in Reports
         /\ [r EXCEPT !.xcoll = TRUE] \in Reports
         /\ [r EXCEPT !.ncoll = IF @ = 15 THEN 15 ELSE @ + 1] \in Reports
<1>1. ASSUME NEW q \in Reports, NEW v \in Nat PROVE [q EXCEPT !.ncoll = v] \in Reports
  BY DEF Reports
<1>2. ASSUME NEW q \in Reports, NEW v \in BOOLEAN PROVE [q EXCEPT !.xcoll = v] \in Reports
  BY DEF Reports
<1>3. r.ncoll \in Nat
  BY DEF Reports
<1>4. [r EXCEPT !.ncoll = 0, !.xcoll = FALSE] = [[r EXCEPT !.ncoll = 0] EXCEPT !.xcoll = FALSE]
  OBVIOUS
<1>5. [r EXCEPT !.ncoll = IF @ = 15 THEN 15 ELSE @ + 1]
        = [r EXCEPT !.ncoll = IF r.ncoll = 15 THEN 15 ELSE r.ncoll + 1]
  OBVIOUS
<1>6. (IF r.ncoll = 15 THEN 15 ELSE r.ncoll + 1) \in Nat
  BY <1>3
<1>7. [r EXCEPT !.ncoll = 0] \in Reports
  BY <1>1
<1> QED BY <1>1, <1>2, <1>4, <1>5, <1>6, <1>7

\* The registers of mii_tx, and what it is told, keep their types.
LEMMA TickTypes ==
  ASSUME SendTypeOK, Tick
  PROVE  SendTypeOK'
<1>1. PICK m \in Medium : Tx!TxEdge(m.crs, m.col)
  BY DEF Tick
<1>2. /\ {tx_go, done_s1, done_s2, core_rst}' \subseteq BOOLEAN
      /\ lead' \in 0..Ratio /\ cfg'[5].min_len \in Nat
      /\ tx_rst_q' \in 0..3
  BY ListAssumption DEF Tick, SendTypeOK, cuVars, ctlVars
<1>3. /\ tx_state \in Tx!States /\ tx_report \in Reports /\ tx_idx \in Nat
      /\ {tx_done, tx_ok, go_s1, go_s2, deferred, tx_go} \subseteq BOOLEAN
  BY DEF SendTypeOK
<1>4. /\ Tx!Collided \in Reports /\ [Tx!Collided EXCEPT !.xcoll = TRUE] \in Reports
  BY <1>3, ReportMoves DEF Tx!Collided
<1>5. /\ [tx_report EXCEPT !.ncoll = 0, !.xcoll = FALSE] \in Reports
      /\ [tx_report EXCEPT !.xcoll = TRUE] \in Reports
  BY <1>3, ReportMoves
<1>6. /\ tx_state' \in Tx!States /\ tx_idx' \in Nat
      /\ tx_report' \in Reports /\ {tx_done, tx_ok, go_s1, go_s2, deferred}' \subseteq BOOLEAN
  <2> USE <1>3 DEF Tx!States, Tx!Goto, Tx!Attempt, Tx!Outcome, Tx!Sync
  <2>1. CASE Tx!TxReset
    BY <2>1 DEF Tx!TxReset, Tx!NoReport, Reports
  <2>2. CASE Tx!Sync /\ Tx!Idle
    BY <1>5, <2>2 DEF Tx!Idle
  <2>3. CASE Tx!Sync /\ Tx!Defer(m.crs)
    <3>1. CASE Tx!DeferBusy
      BY <1>5, <2>3, <3>1 DEF Tx!Defer, Tx!DeferBusy
    <3>2. CASE Tx!DeferQuiet
      BY <2>3, <3>2 DEF Tx!Defer, Tx!DeferQuiet
    <3> QED BY <2>3, <3>1, <3>2 DEF Tx!Defer
  <2>4. CASE Tx!Sync /\ (Tx!Preamble(m.col) \/ Tx!Data(m.col) \/ Tx!Fcs(m.col))
    BY <2>4 DEF Tx!Preamble, Tx!Data, Tx!Fcs
  <2>5. CASE Tx!Sync /\ (Tx!End \/ Tx!Backoff)
    BY <2>5 DEF Tx!End, Tx!Backoff
  <2>6. CASE Tx!Sync /\ Tx!Jam
    BY <1>4, <2>6 DEF Tx!Jam, Tx!GiveUp
  <2>7. CASE Tx!Sync /\ Tx!Done
    BY <2>7 DEF Tx!Done, Tx!DoneHolds, Reports
  <2> QED BY <1>1, <2>1, <2>2, <2>3, <2>4, <2>5, <2>6, <2>7 DEF Tx!TxEdge
<1> QED BY <1>2, <1>6 DEF SendTypeOK

\* What an edge of tx_clk does outside reset, by the state of mii_tx.
LEMMA TxMoves ==
  ASSUME SendTypeOK, Tick, ~tx_rst
  PROVE  /\ go_s1' = tx_go /\ go_s2' = go_s1
         /\ tx_state = "T_IDLE" =>
              /\ txd' = Tx!Quiet /\ UNCHANGED <<tx_done, tx_ok>>
              /\ IF go_s2 /\ ~tx_done THEN tx_state' = "T_DEFER" /\ ~tx_report'.xcoll
                                      ELSE UNCHANGED <<tx_state, tx_report>>
         /\ tx_state = "T_DEFER" =>
              /\ UNCHANGED <<txd, tx_done, tx_ok>>
              /\ \/ tx_state' = "T_DONE" /\ tx_report'.xcoll
                 \/ tx_state' = "T_DEFER" /\ UNCHANGED tx_report
                 \/ tx_state' = "T_PREAMBLE" /\ tx_idx' = 0 /\ UNCHANGED tx_report
         /\ tx_state = "T_PREAMBLE" =>
              /\ tx_state' \in {"T_PREAMBLE", "T_DATA", "T_JAM"}
              /\ txd' = Tx!Symbol("PREAMBLE")
              /\ UNCHANGED <<tx_idx, tx_report, tx_done, tx_ok>>
         /\ tx_state = "T_DATA" =>
              /\ txd' = Tx!Symbol(Tx!CurByte)
              /\ UNCHANGED <<tx_report, tx_done, tx_ok>>
              /\ \/ tx_state' = "T_JAM"
                 \/ tx_state' \in {"T_FCS", "T_END"} /\ tx_idx + 1 >= Tx!SendLen
                 \/ /\ tx_state' = "T_DATA" /\ tx_idx' = tx_idx + 1
                    /\ ~(tx_idx + 1 >= Tx!SendLen)
         /\ tx_state = "T_FCS" =>
              /\ txd' = Tx!Symbol("FCS") /\ tx_state' \in {"T_FCS", "T_END", "T_JAM"}
              /\ UNCHANGED <<tx_report, tx_done, tx_ok>>
         /\ tx_state = "T_END" =>
              tx_state' = "T_DONE" /\ UNCHANGED <<tx_report, tx_done, tx_ok>>
         /\ tx_state = "T_JAM" =>
              /\ UNCHANGED <<tx_done, tx_ok>>
              /\ \/ tx_state' = "T_JAM" /\ UNCHANGED tx_report
                 \/ tx_state' = "T_DONE" /\ tx_report'.xcoll
                 \/ tx_state' = "T_BACKOFF" /\ tx_report'.xcoll = tx_report.xcoll /\ txd' = Tx!Quiet
         /\ tx_state = "T_BACKOFF" =>
              /\ tx_state' \in {"T_DEFER", "T_BACKOFF"} /\ txd' = Tx!Quiet
              /\ UNCHANGED <<tx_report, tx_done, tx_ok>>
         /\ tx_state = "T_DONE" =>
              /\ tx_report'.xcoll = tx_report.xcoll
              /\ IF go_s2 THEN tx_state' = "T_DONE" /\ tx_done' /\ tx_ok' = ~tx_report.xcoll
                          ELSE tx_state' = "T_IDLE" /\ ~tx_done' /\ UNCHANGED tx_ok
<1>1. PICK m \in Medium : Tx!TxEdge(m.crs, m.col)
  BY DEF Tick
<1>2. /\ Tx!Sync
      /\ \/ Tx!Idle \/ Tx!Defer(m.crs) \/ Tx!Preamble(m.col) \/ Tx!Data(m.col) \/ Tx!Fcs(m.col)
         \/ Tx!End \/ Tx!Jam \/ Tx!Backoff \/ Tx!Done
  BY <1>1 DEF Tx!TxEdge, Tx!TxReset
<1>3. tx_report \in Reports
  BY DEF SendTypeOK
<1> USE <1>2, <1>3 DEF Tx!Sync, Tx!Goto, Tx!Attempt, Tx!Outcome, Reports
<1>4. CASE Tx!Idle
  BY <1>4 DEF Tx!Idle
<1>5. CASE Tx!Defer(m.crs)
  BY <1>5 DEF Tx!Defer, Tx!DeferBusy, Tx!DeferQuiet
<1>6. CASE Tx!Preamble(m.col)
  BY <1>6 DEF Tx!Preamble
<1>7. CASE Tx!Data(m.col)
  BY <1>7 DEF Tx!Data
<1>8. CASE Tx!Fcs(m.col) \/ Tx!End \/ Tx!Backoff
  BY <1>8 DEF Tx!Fcs, Tx!End, Tx!Backoff
<1>9. CASE Tx!Jam
  BY <1>9 DEF Tx!Jam, Tx!GiveUp, Tx!Collided
<1>10. CASE Tx!Done
  BY <1>10 DEF Tx!Done, Tx!DoneHolds
<1> QED BY <1>4, <1>5, <1>6, <1>7, <1>8, <1>9, <1>10

\* No frame is padded to less than nothing.
LEMMA MinLenStep ==
  ASSUME CommandIInv, SetupIInv, cfg[5].min_len \in Nat, Clock
  PROVE  cfg'[5].min_len \in Nat
<1>1. Cu!CuEdge
  BY DEF Clock
<1>2. CASE Cu!CuReset
  BY <1>2 DEF Cu!CuReset, Cu!ZeroCfgWord
<1>3. CASE Cu!Setup /\ Cu!SetupCfg
  <2>1. state = "CU_CFG" /\ bus_ack /\ cfg' = [cfg EXCEPT ![idx] = rdata]
    BY <1>3 DEF Cu!SetupCfg
  <2>2. cb \in Blocks /\ rdata = Cb[cb].cfg[idx] /\ Cb[cb].cmd.op = "CONFIGURE"
    BY <2>1, SetupRead DEF SetupIInv, KindInv, Cu!SetupStates
  <2>3. idx = 5 => rdata.min_len \in Nat
    BY <2>2, SendAssumption
  <2> QED BY <2>1, <2>3 DEF SetupIInv, McTypeOK
<1>4. CASE Cu!Setup /\ ~Cu!SetupCfg
  BY <1>4 DEF Cu!Setup, Cu!SetupIa, Cu!SetupMcCount, Cu!SetupMcAddr, Cu!WriteTdr, Cu!setupVars
<1>5. CASE Cu!Idle \/ Cu!Fetch \/ Cu!Finish \/ Cu!NextBlock \/ Cu!Wait \/ Cu!Dispatch
             \/ Cu!Staging \/ Cu!Sending
  BY <1>5, Untouched
<1> QED BY <1>1, <1>2, <1>3, <1>4, <1>5, CuCases

LEMMA ClockTypes ==
  ASSUME CommandIInv, SetupIInv, SendTypeOK, Clock
  PROVE  SendTypeOK'
<1>1. /\ Cu!CuEdge /\ ControlEdge /\ ResetEdge /\ CommandTypeOK
      /\ lead' = IF TxAtRest THEN 0 ELSE lead + 1
      /\ TxAtRest \/ lead < Ratio
      /\ UNCHANGED <<tx_state, tx_idx, go_s1, go_s2, tx_done, tx_ok, deferred, tx_report>>
  BY DEF Clock, macVars, CommandIInv
<1>2. lead' \in 0..Ratio /\ tx_rst_q' \in 0..3 /\ core_rst' \in BOOLEAN
  <2>1. lead \in 0..Ratio /\ Ratio \in Nat /\ tx_rst_q \in 0..3
    BY ListAssumption DEF SendTypeOK
  <2>2. lead' \in 0..Ratio /\ tx_rst_q' \in 0..3
    BY <1>1, <2>1 DEF ResetEdge
  <2>3. core_rst' \in BOOLEAN
    BY <1>1 DEF ControlEdge
  <2> QED BY <2>2, <2>3
<1>3. {tx_go, done_s1, done_s2}' \subseteq BOOLEAN
  <2>1. CASE Cu!CuReset
    BY <2>1 DEF Cu!CuReset
  <2>2. CASE ~core_rst
    BY <1>1, <2>2, GoMoves DEF SendTypeOK
  <2> QED BY <1>1, <2>1, <2>2, CuCases
<1>4. cfg'[5].min_len \in Nat
  BY MinLenStep DEF SendTypeOK
<1> QED BY <1>1, <1>2, <1>3, <1>4 DEF SendTypeOK

\* Go is raised with mii_tx at rest and nothing left of the handshake before.
LEMMA Raises ==
  ASSUME CommandIInv, StagedIInv, SendTypeOK, HandInv, SettleInv, NearClocks,
         Clock, ~tx_go, tx_go'
  PROVE  /\ ~core_rst /\ state = "CU_TX_GO" /\ ~Unreached
         /\ ~tx_done /\ ~done_s1 /\ ~done_s2
         /\ tx_state = "T_IDLE" /\ ~go_s1 /\ ~go_s2
<1>1. Cu!CuEdge
  BY DEF Clock
<1>2. ~core_rst
  BY <1>1, CuCases DEF Cu!CuReset, Cu!CuEdge
<1>3. state = "CU_TX_GO"
  BY <1>1, <1>2, GoMoves
<1>4. EdgesToGo = 1
  BY <1>3, EdgesAre DEF EdgesToGo, CommandIInv, CommandTypeOK
<1>5. Unsettled < 1
  BY <1>2, <1>4 DEF SettleInv
<1>6. ~Unreached /\ ~tx_done /\ ~done_s1 /\ ~done_s2
  BY <1>5, ListAssumption DEF Unsettled, SendTypeOK
<1> QED BY <1>2, <1>3, <1>6 DEF HandInv

\* The handshake, on an edge of clk.
LEMMA HandClock ==
  ASSUME CommandIInv, StagedIInv, SendTypeOK, ResetInv, HandInv, SettleInv, NearClocks, Clock
  PROVE  ResetInv' /\ HandInv'
<1>1. /\ Cu!CuEdge /\ ResetEdge /\ GoInv
      /\ UNCHANGED <<tx_state, go_s1, go_s2, tx_done>>
  BY DEF Clock, macVars, StagedIInv
<1>2. CASE core_rst
  <2>1. ~tx_go'
    BY <1>1, <1>2 DEF Cu!CuEdge, Cu!CuReset
  <2>2. Unreached'
    BY <1>1, <1>2 DEF ResetEdge, ResetInv, Unreached
  <2> QED BY <2>1, <2>2 DEF ResetInv, HandInv, Unreached
<1>3. CASE core_rst'
  <2>1. Unreached'
    BY <1>1, <1>3 DEF ResetEdge, Unreached
  <2> QED BY <1>3, <2>1 DEF ResetInv, HandInv, Unreached
<1>4. CASE ~core_rst /\ ~core_rst'
  <2>1. tx_rst_q' = tx_rst_q /\ (Unreached' <=> Unreached)
    BY <1>1, <1>4 DEF ResetEdge, Unreached
  <2>2. ResetInv'
    BY <1>1, <1>4, <2>1 DEF ResetInv
  <2>3. done_s1' = tx_done /\ done_s2' = done_s1
    BY <1>1, <1>4, GoMoves
  <2>4. CASE ~tx_go /\ tx_go'
    BY <1>1, <2>1, <2>2, <2>3, <2>4, Raises DEF HandInv
  <2>5. CASE tx_go /\ ~tx_go'
    <3>1. state = "CU_TX_GO" /\ done_s2
      BY <1>1, <1>4, <2>5, GoMoves
    <3> QED BY <1>1, <1>4, <2>1, <2>2, <2>3, <2>5, <3>1 DEF HandInv
  <2>6. CASE tx_go' = tx_go
    BY <1>1, <1>4, <2>1, <2>2, <2>3, <2>6 DEF HandInv
  <2>7. tx_go \in BOOLEAN /\ tx_go' \in BOOLEAN
    <3>1. state = "CU_TX_GO" => tx_go' \in BOOLEAN
      BY <1>1, <1>4, GoMoves DEF SendTypeOK
    <3> QED BY <1>1, <1>4, <3>1, GoMoves DEF SendTypeOK
  <2> QED BY <2>2, <2>4, <2>5, <2>6, <2>7
<1> QED BY <1>2, <1>3, <1>4

\* The handshake, on an edge of tx_clk.
LEMMA HandTick ==
  ASSUME SendTypeOK, ResetInv, HandInv, Tick
  PROVE  ResetInv' /\ HandInv'
<1>1. /\ UNCHANGED <<tx_go, done_s1, done_s2, core_rst>>
      /\ tx_rst_q' = IF core_rst THEN 3 ELSE IF tx_rst_q > 0 THEN tx_rst_q - 1 ELSE 0
  BY DEF Tick, cuVars, ctlVars
<1>2. CASE tx_rst
  <2>1. tx_state' = "T_IDLE" /\ ~go_s1' /\ ~go_s2' /\ ~tx_done'
    BY <1>2 DEF Tick, Tx!TxEdge, Tx!TxReset
  <2>2. tx_go' /\ Unreached' => core_rst'
    BY <1>1, <1>2 DEF Unreached, SendTypeOK
  <2>3. ~Unreached' => ~core_rst
    BY <1>1 DEF Unreached
  <2>4. tx_go' /\ ~Unreached' => ~done_s1' /\ ~done_s2'
    BY <1>1, <1>2, <2>3 DEF Unreached, HandInv, ResetInv, SendTypeOK, tx_rst
  <2> QED BY <1>1, <2>1, <2>2, <2>4 DEF HandInv, ResetInv, Unreached
<1>3. CASE ~tx_rst
  <2>1. tx_rst_q = 0 /\ ~core_rst /\ ~Unreached /\ tx_rst_q' = 0 /\ ~Unreached'
    BY <1>1, <1>3 DEF tx_rst, Unreached, ResetInv
  <2>2. ResetInv'
    BY <1>1, <2>1 DEF ResetInv
  <2>3. tx_state \in Tx!States /\ tx_done \in BOOLEAN
    BY DEF SendTypeOK
  <2>4. HandInv'
    <3>1. CASE tx_state = "T_IDLE"
      BY <1>1, <1>3, <2>1, <3>1, TxMoves DEF HandInv
    <3>2. CASE tx_state = "T_DONE"
      BY <1>1, <1>3, <2>1, <3>2, TxMoves DEF HandInv
    <3>3. CASE tx_state \notin {"T_IDLE", "T_DONE"}
      <4>1. tx_state' # "T_IDLE" /\ tx_done' = tx_done
        BY <1>3, <2>3, <3>3, TxMoves DEF Tx!States
      <4> QED BY <1>1, <1>3, <2>1, <3>3, <4>1, TxMoves DEF HandInv
    <3> QED BY <3>1, <3>2, <3>3
  <2> QED BY <2>2, <2>4
<1> QED BY <1>2, <1>3

\* What is left of a handshake goes away, an edge of clk at a time.
LEMMA SettlesByOne ==
  ASSUME SendTypeOK, Clock, ~core_rst, ~core_rst'
  PROVE  /\ Unsettled \in Int /\ Unsettled' \in Int
         /\ Unsettled' <= Unsettled - 1 \/ Unsettled' <= 0
<1>1. /\ Cu!CuEdge /\ ResetEdge
      /\ TxAtRest \/ lead < Ratio
      /\ lead' = IF TxAtRest THEN 0 ELSE lead + 1
      /\ UNCHANGED <<go_s1, go_s2, tx_done>>
  BY DEF Clock, macVars
<1>2. done_s1' = tx_done /\ done_s2' = done_s1
  BY <1>1, GoMoves
<1>3. tx_rst_q' = tx_rst_q /\ (Unreached' <=> Unreached)
  BY <1>1 DEF ResetEdge, Unreached
<1>4. lead \in 0..Ratio /\ Ratio \in Nat
  BY ListAssumption DEF SendTypeOK
<1>5. CASE Unreached \/ tx_done
  <2>1. lead < Ratio /\ lead' = lead + 1
    BY <1>1, <1>5 DEF TxAtRest, Unreached
  <2> QED BY <1>1, <1>3, <1>4, <1>5, <2>1 DEF Unsettled
<1>6. CASE ~Unreached /\ ~tx_done
  BY <1>1, <1>2, <1>3, <1>6 DEF Unsettled
<1> QED BY <1>5, <1>6

LEMMA AtMostTen ==
  ASSUME NEW r \in Nat, NEW l \in Nat, r <= 8
  PROVE  r - l + 2 < 24
OBVIOUS

LEMMA SettleClock ==
  ASSUME CommandIInv, StagedIInv, SendTypeOK, ResetInv, HandInv, SettleInv, NearClocks, Clock
  PROVE  SettleInv'
<1> SUFFICES ASSUME ~tx_go', ~core_rst'
             PROVE  Unsettled' < EdgesToGo'
  BY DEF SettleInv
<1>1. /\ Cu!CuEdge /\ ResetEdge
      /\ TxAtRest \/ lead < Ratio
      /\ lead' = IF TxAtRest THEN 0 ELSE lead + 1
      /\ UNCHANGED <<go_s1, go_s2, tx_done>>
  BY DEF Clock, macVars
<1>2. lead \in 0..Ratio /\ lead' \in 0..Ratio /\ Ratio \in Nat /\ Ratio <= 8
  BY <1>1, ListAssumption DEF SendTypeOK, NearClocks
<1>3. state' \in Cu!States /\ AccessLeft' \in 1..3
  BY TypeStep, AccessTakes DEF CommandTypeOK
<1>4. EdgesToGo' \in Nat \ {0}
  BY <1>3, EdgesPositive DEF EdgesToGo
<1>5. CASE core_rst
  <2>1. state' = "CU_IDLE"
    BY <1>1, <1>5 DEF Cu!CuEdge, Cu!CuReset
  <2>2. EdgesToGo' = 24
    BY <1>3, <2>1, EdgesAre DEF EdgesToGo
  <2>3. Unreached'
    BY <1>1, <1>5 DEF ResetEdge, ResetInv, Unreached
  <2>4. Unsettled' = Ratio - lead' + 2
    BY <2>3 DEF Unsettled
  <2>5. lead' \in Nat /\ Ratio \in Nat /\ Ratio <= 8
    BY <1>2
  <2>6. Ratio - lead' + 2 < 24
    BY <2>5, AtMostTen
  <2> QED BY <2>2, <2>4, <2>6
<1>6. CASE ~core_rst /\ tx_go
  <2>1. state = "CU_TX_GO" /\ done_s2 /\ state' = "CU_FINISH"
    BY <1>1, <1>6, GoMoves DEF SendTypeOK
  <2>2. ~Unreached /\ tx_done /\ go_s1 /\ go_s2
    BY <1>6, <2>1 DEF HandInv
  <2>3. AccessLeft' = 3
    BY <2>1, AccessTakes DEF Unasking
  <2>4. EdgesToGo' = 27
    BY <1>3, <2>1, <2>3, EdgesAre DEF EdgesToGo, Setting
  <2>5. lead' >= 1
    BY <1>1, <1>2, <2>2 DEF TxAtRest
  <2>6. ~Unreached'
    BY <1>1, <2>2 DEF ResetEdge, Unreached
  <2> QED BY <1>1, <1>2, <2>2, <2>4, <2>5, <2>6 DEF Unsettled
<1>7. CASE ~core_rst /\ ~tx_go
  <2>1. Unsettled < EdgesToGo
    BY <1>7 DEF SettleInv
  <2>2. /\ Unsettled \in Int /\ Unsettled' \in Int
        /\ Unsettled' <= Unsettled - 1 \/ Unsettled' <= 0
    BY <1>7, SettlesByOne
  <2>3. CASE state = "CU_TX_GO"
    <3>1. EdgesToGo = 1
      BY <2>3, EdgesAre DEF EdgesToGo, CommandIInv, CommandTypeOK
    <3> QED BY <1>4, <2>1, <2>2, <3>1
  <2>4. CASE state # "CU_TX_GO"
    BY <1>4, <1>7, <2>1, <2>2, <2>4, NearerByOne
  <2> QED BY <2>3, <2>4
<1> QED BY <1>5, <1>6, <1>7

LEMMA SettleTick ==
  ASSUME CommandIInv, SendTypeOK, ResetInv, HandInv, SettleInv, Tick
  PROVE  SettleInv'
<1> SUFFICES ASSUME ~tx_go', ~core_rst'
             PROVE  Unsettled' < EdgesToGo'
  BY DEF SettleInv
<1>1. /\ UNCHANGED <<tx_go, done_s1, done_s2, core_rst, state, port>>
      /\ tx_rst_q' = IF core_rst THEN 3 ELSE IF tx_rst_q > 0 THEN tx_rst_q - 1 ELSE 0
      /\ lead' = 0
  BY DEF Tick, cuVars, ctlVars, portVars
<1>2. EdgesToGo' = EdgesToGo
  BY <1>1 DEF EdgesToGo, AccessLeft
<1>3. Unsettled < EdgesToGo
  BY <1>1 DEF SettleInv
<1>4. ~Unreached'
  BY <1>1 DEF SendTypeOK, Unreached
<1>5. lead \in 0..Ratio /\ Ratio \in Nat
  BY ListAssumption DEF SendTypeOK
<1>6. EdgesToGo \in Int
  BY EdgesPositive DEF EdgesToGo, AccessLeft, CommandIInv, CommandTypeOK
<1>7. Unsettled \in Int /\ Unsettled' \in Int /\ Unsettled' <= Unsettled
  <2>1. CASE tx_rst
    <3>1. ~tx_done'
      BY <2>1 DEF Tick, Tx!TxEdge, Tx!TxReset
    <3>2. Unreached \/ ~tx_done
      BY <2>1 DEF Unreached, tx_rst, ResetInv, SendTypeOK
    <3> QED BY <1>1, <1>4, <1>5, <3>1, <3>2 DEF Unsettled
  <2>2. CASE ~tx_rst
    <3>1. ~Unreached
      BY <2>2 DEF Unreached, tx_rst
    <3>2. CASE tx_done
      <4>1. tx_state = "T_DONE" /\ (go_s1 => go_s2)
        BY <3>1, <3>2 DEF HandInv
      <4>2. ~go_s1' /\ go_s2' = go_s1 /\ (go_s2 => tx_done') /\ (~go_s2 => ~tx_done')
        BY <1>1, <2>2, <4>1, TxMoves
      <4> QED BY <1>1, <1>4, <1>5, <3>1, <3>2, <4>1, <4>2 DEF Unsettled
    <3>3. CASE ~tx_done
      <4>1. tx_state = "T_IDLE"
        BY <1>1, <3>1, <3>3 DEF HandInv
      <4>2. ~tx_done'
        BY <2>2, <3>3, <4>1, TxMoves
      <4> QED BY <1>1, <1>4, <1>5, <3>1, <3>3, <4>2 DEF Unsettled
    <3> QED BY <3>2, <3>3
  <2> QED BY <2>1, <2>2
<1> QED BY <1>2, <1>3, <1>6, <1>7

\* A step in a block's own states keeps the block in hand and what it was set up with.
LEMMA InHandStays ==
  ASSUME Cu!CuEdge, ~core_rst, state \in Staged \cup Cu!SendStates \cup {"CU_WR_BUSY", "CU_FINISH"}
  PROVE  UNCHANGED <<cb, cmd, ia, cfg>>
<1>1. state \notin {"CU_IDLE", "CU_NEXT", "CU_FETCH_CMD", "CU_FETCH_LINK"} \cup Cu!SetupStates
  BY DEF Staged, Cu!HdrStates, Cu!BufStates, Cu!SendStates, Cu!SetupStates
<1>2. ~(Cu!CuReset \/ Cu!Idle \/ Cu!Fetch \/ Cu!NextBlock \/ Cu!Setup)
  BY <1>1 DEF Cu!CuReset, Cu!Idle, Cu!Fetch, Cu!NextBlock, Cu!Setup, Cu!SetupIa, Cu!SetupCfg,
     Cu!SetupMcCount, Cu!SetupMcAddr, Cu!WriteTdr, Cu!SetupStates
<1>3. CASE Cu!Finish \/ Cu!Wait \/ Cu!Dispatch
  BY <1>3, Untouched DEF Cu!Finish, Cu!Wait, Cu!Dispatch, Cu!listVars
<1>4. CASE Cu!Staging \/ Cu!Sending
  BY <1>4, Untouched DEF Cu!Staging, Cu!Sending, Cu!listVars
<1> QED BY <1>2, <1>3, <1>4, CuCases

\* The part of the unit at work in a state.
LEMMA AtWork ==
  ASSUME Cu!CuEdge, ~core_rst
  PROVE  /\ state = "CU_WR_BUSY" => Cu!Dispatch \/ Cu!Wait
         /\ state = "CU_FINISH" => Cu!Finish \/ Cu!Wait
         /\ state \in Cu!SetupStates => Cu!Setup \/ Cu!Wait
         /\ state \in Cu!HdrStates \cup Cu!BufStates => Cu!Staging \/ Cu!Wait
         /\ state \in Cu!SendStates => Cu!Sending \/ Cu!Wait
<1> USE DEF Cu!HdrStates, Cu!BufStates, Cu!SendStates, Cu!SetupStates
<1>1. ~Cu!CuReset
  BY DEF Cu!CuReset
<1>2. /\ Cu!Idle => state = "CU_IDLE"
      /\ Cu!Fetch => state \in {"CU_FETCH_CMD", "CU_FETCH_LINK"}
      /\ Cu!Finish => state = "CU_FINISH"
      /\ Cu!NextBlock => state = "CU_NEXT"
      /\ Cu!Dispatch => state = "CU_WR_BUSY"
  BY DEF Cu!Idle, Cu!Fetch, Cu!Finish, Cu!Completed, Cu!NextBlock, Cu!Dispatch
<1>3. Cu!Setup => state \in Cu!SetupStates
  BY DEF Cu!Setup, Cu!SetupIa, Cu!SetupCfg, Cu!SetupMcCount, Cu!SetupMcAddr, Cu!WriteTdr
<1>4. Cu!Staging => state \in Cu!HdrStates \cup Cu!BufStates
  BY DEF Cu!Staging, Cu!OpenTbd, Cu!StageHeader, Cu!Select, Cu!StageByte, Cu!ReadWord, Cu!StageWord
<1>5. Cu!Sending => state \in Cu!SendStates
  BY DEF Cu!Sending, Cu!Go, Cu!PadLoopback, Cu!EndLoopback
<1> QED BY <1>1, <1>2, <1>3, <1>4, <1>5, CuCases

\* How a frame comes to be sent, and how its block comes to its end.
LEMMA PathClock ==
  ASSUME CommandIInv, SetupIInv, StagedIInv, PathInv, Clock, ~core_rst
  PROVE  /\ PathInv'
         /\ state' \in Staged => state \in Staged \cup {"CU_WR_BUSY"}
         /\ state' = "CU_FINISH" /\ cmd'.op = "TRANSMIT" /\ ~Cu!Loopback' =>
              \/ state = "CU_FINISH" /\ ok' = ok
              \/ state = "CU_TX_RD_TBD" /\ ~ok'
              \/ state = "CU_TX_GO" /\ tx_go /\ done_s2 /\ ok' = tx_ok
<1>1. Cu!CuEdge /\ KindInv /\ state \in Cu!States /\ state' \in Cu!States
  BY TypeStep DEF Clock, SetupIInv, CommandIInv, CommandTypeOK
<1> USE DEF Staged, Cu!HdrStates, Cu!BufStates
<1>2. CASE state \in {"CU_IDLE", "CU_NEXT", "CU_FETCH_CMD", "CU_FETCH_LINK"}
  BY <1>1, <1>2, Moves DEF PathInv
<1>3. CASE state = "CU_WR_BUSY"
  <2>1. UNCHANGED cmd /\ (state' = state \/ state' = Cu!FirstState)
    BY <1>1, <1>3, AtWork DEF Cu!Dispatch, Cu!Wait, Cu!Goto
  <2> QED BY <1>3, <2>1 DEF PathInv, Cu!FirstState
<1>4. CASE state \in Cu!HdrStates
  BY <1>1, <1>4, Moves DEF PathInv
<1>5. CASE state = "CU_TX_RD_TBD"
  <2>1. UNCHANGED cb
    BY <1>1, <1>5, InHandStays
  <2>2. CASE Cu!Wait
    BY <1>5, <2>2 DEF Cu!Wait, PathInv
  <2>3. CASE Cu!Staging
    <3>1. /\ bus_ack /\ ok' = (ok /\ rdata # Null)
          /\ state' = IF rdata = Null THEN "CU_FINISH" ELSE "CU_TX_RD_CNT"
      BY <1>5, <2>3 DEF Cu!Staging, Cu!OpenTbd, Cu!StageHeader, Cu!Select, Cu!StageByte,
         Cu!ReadWord, Cu!StageWord, Cu!Goto
    <3>2. rdata = Cb[cb].tbd
      BY <1>5, <3>1, BlockRead
    <3> QED BY <1>5, <2>1, <3>1, <3>2 DEF PathInv
  <2> QED BY <1>1, <1>5, <2>2, <2>3, AtWork
<1>6. CASE state \in Cu!BufStates \ {"CU_TX_RD_TBD"}
  <2>1. UNCHANGED cb
    BY <1>1, <1>6, InHandStays
  <2>2. state' \in (Cu!BufStates \ {"CU_TX_RD_TBD"}) \cup {"CU_TX_GO"}
    BY <1>1, <1>6, Moves DEF Buffering, Opened
  <2> QED BY <1>6, <2>1, <2>2 DEF PathInv
<1>7. CASE state = "CU_TX_GO"
  <2>1. UNCHANGED <<cb, cfg>>
    BY <1>1, <1>7, GoMoves
  <2>2. CASE tx_go /\ done_s2
    BY <1>1, <1>7, <2>2, GoMoves DEF PathInv
  <2>3. CASE ~(tx_go /\ done_s2)
    <3>1. state' = IF Cu!Loopback THEN "CU_TX_LB_PAD" ELSE "CU_TX_GO"
      BY <1>1, <1>7, <2>3, GoMoves
    <3> QED BY <1>7, <2>1, <3>1 DEF PathInv, Cu!Loopback
  <2> QED BY <2>2, <2>3
<1>8. CASE state \in {"CU_TX_LB_PAD", "CU_TX_LB_END"}
  <2>1. UNCHANGED cfg /\ Cu!Loopback
    BY <1>1, <1>8, InHandStays DEF Cu!SendStates, PathInv
  <2>2. state' \in {"CU_TX_LB_PAD", "CU_TX_LB_END", "CU_FINISH"}
    BY <1>1, <1>8, AtWork DEF Cu!Sending, Cu!Go, Cu!PadLoopback, Cu!EndLoopback, Cu!Wait, Cu!Goto,
       Cu!SendStates
  <2> QED BY <2>1, <2>2 DEF PathInv, Cu!Loopback
<1>9. CASE state = "CU_FINISH"
  <2>1. CASE Cu!Finish
    BY <2>1 DEF Cu!Finish, Cu!Goto, PathInv
  <2>2. CASE Cu!Wait
    BY <1>9, <2>2 DEF Cu!Wait, PathInv
  <2> QED BY <1>1, <1>9, <2>1, <2>2, AtWork
<1>10. CASE state \in Cu!SetupStates
  <2>1. UNCHANGED cmd /\ state' \in Cu!SetupStates \cup {"CU_FINISH"}
    BY <1>1, <1>10, AtWork DEF Cu!Setup, Cu!SetupIa, Cu!SetupCfg, Cu!SetupMcCount, Cu!SetupMcAddr,
       Cu!WriteTdr, Cu!Wait, Cu!Goto, Cu!SetupStates
  <2>2. cmd.op # "TRANSMIT"
    BY <1>1, <1>10 DEF KindInv, Cu!SetupStates
  <2> QED BY <2>1, <2>2 DEF PathInv, Cu!SetupStates
<1> QED BY <1>1, <1>2, <1>3, <1>4, <1>5, <1>6, <1>7, <1>8, <1>9, <1>10 DEF Cu!States,
           Cu!ListStates, Cu!SendStates

\* The bytes of a frame, one by one.
LEMMA OneMore ==
  ASSUME NEW n \in Nat, NEW f
  PROVE  /\ FirstOf(0, f) = <<>>
         /\ Append(FirstOf(n, f), f[n + 1]) = FirstOf(n + 1, f)
<1>1. FirstOf(0, f) = <<>>
  BY DEF FirstOf
<1>2. Append(FirstOf(n, f), f[n + 1]) = FirstOf(n + 1, f)
  <2> DEFINE S == {f[k] : k \in 1..n+1}
  <2>1. FirstOf(n, f) \in Seq(S) /\ Len(FirstOf(n, f)) = n /\ f[n + 1] \in S
    BY DEF FirstOf
  <2>2. FirstOf(n + 1, f) \in Seq(S) /\ Len(FirstOf(n + 1, f)) = n + 1
    BY DEF FirstOf
  <2>3. /\ Append(FirstOf(n, f), f[n + 1]) \in Seq(S)
        /\ Len(Append(FirstOf(n, f), f[n + 1])) = n + 1
    BY <2>1
  <2>4. ASSUME NEW k \in 1..n+1
        PROVE  Append(FirstOf(n, f), f[n + 1])[k] = FirstOf(n + 1, f)[k]
    <3>1. CASE k = n + 1
      BY <2>1, <3>1 DEF FirstOf
    <3>2. CASE k # n + 1
      BY <2>1, <3>2 DEF FirstOf
    <3> QED BY <3>1, <3>2
  <2> QED BY <2>2, <2>3, <2>4
<1> QED BY <1>1, <1>2

\* What is to go on the wire, while the transmitter has the frame.
LEMMA ToSend ==
  ASSUME CommandIInv, SetupIInv, StagedIInv, SendTypeOK, PathInv, tx_go
  PROVE  /\ Tx!SendLen \in Nat \ {0} /\ tx_len \in Nat /\ tx_len <= RamBytes
         /\ RamBytes \in Nat
         /\ FirstOf(Tx!SendLen, OnTheWire) = OnTheWire
         /\ \A n \in Nat : n < Tx!SendLen =>
              OnTheWire[n + 1] = IF n < tx_len THEN ram[n] ELSE Tx!Pad
<1>1. /\ state = "CU_TX_GO" /\ tx_len = Len(Frame(cb)) /\ ~ram_wr.we /\ SoFar
      /\ tx_bytes = Len(Frame(cb))
  BY DEF StagedIInv, GoInv, StagedInv
<1>2. /\ cb \in Blocks /\ Cb[cb].cmd.op = "TRANSMIT"
      /\ Len(Frame(cb)) \in Nat /\ Len(Frame(cb)) <= RamBytes /\ RamBytes \in Nat
  BY <1>1, InHand DEF SetupIInv
<1>3. Len(Frame(cb)) > 0
  <2>1. Cb[cb].tbd # Null /\ ChainBytes[Cb[cb].tbd] # <<>>
    BY <1>1, <1>2, SendAssumption DEF PathInv
  <2>2. ChainBytes[Cb[cb].tbd] \in Seq(BufSet)
    BY <1>2, FrameIs, ChainIs
  <2>3. Len(ChainBytes[Cb[cb].tbd]) > 0
    BY <2>1, <2>2
  <2> QED BY <1>2, <2>3, FrameIs
<1>4. Tx!PadLen \in Nat
  BY DEF SendTypeOK, Tx!PadLen, Cu!MinLen
<1>5. Tx!SendLen = IF Len(Frame(cb)) > Tx!PadLen THEN Len(Frame(cb)) ELSE Tx!PadLen
  BY <1>1 DEF Tx!SendLen
<1>6. OnTheWire = [k \in 1..Tx!SendLen |-> IF k <= Len(Frame(cb)) THEN Frame(cb)[k] ELSE Tx!Pad]
  BY <1>5 DEF OnTheWire, Padded
<1>7. Tx!SendLen \in Nat \ {0}
  BY <1>2, <1>3, <1>4, <1>5
<1>8. FirstOf(Tx!SendLen, OnTheWire) = OnTheWire
  BY <1>6 DEF FirstOf
<1>9. ASSUME NEW n \in Nat, n < Tx!SendLen
      PROVE  OnTheWire[n + 1] = IF n < tx_len THEN ram[n] ELSE Tx!Pad
  <2>1. n + 1 \in 1..Tx!SendLen
    BY <1>7, <1>9
  <2>2. OnTheWire[n + 1] = IF n + 1 <= Len(Frame(cb)) THEN Frame(cb)[n + 1] ELSE Tx!Pad
    BY <1>6, <2>1
  <2>3. CASE n < tx_len
    <3>1. n \in 0..tx_bytes-1
      BY <1>1, <1>2, <2>3
    <3>2. ram[n] = Frame(cb)[n + 1]
      BY <1>1, <3>1 DEF SoFar, RamSoon
    <3> QED BY <1>1, <1>2, <2>2, <2>3, <3>2
  <2>4. CASE ~(n < tx_len)
    BY <1>1, <1>2, <2>2, <2>4
  <2> QED BY <2>3, <2>4
<1> QED BY <1>1, <1>2, <1>7, <1>8, <1>9

\* The wire and what was sent, on an edge of clk.
LEMMA SentClock ==
  ASSUME CommandIInv, SetupIInv, StagedIInv, SendIInv, NearClocks, Clock
  PROVE  PathInv' /\ WireInv' /\ SentInv'
<1>1. /\ Cu!CuEdge /\ ResetEdge
      /\ UNCHANGED <<tx_state, tx_idx, tx_done, tx_ok, tx_report, txd, ram_q, wire>>
      /\ sent' = IF core_rst \/ state = "CU_WR_BUSY" THEN <<>> ELSE sent
      /\ SendTypeOK /\ HandInv /\ SettleInv /\ PathInv /\ WireInv /\ SentInv
  BY DEF Clock, macVars, SendIInv
<1>2. CASE core_rst
  <2>1. state' = "CU_IDLE" /\ ~tx_go'
    BY <1>1, <1>2 DEF Cu!CuEdge, Cu!CuReset
  <2> QED BY <2>1 DEF PathInv, WireInv, SentInv, ReportedSent, Staged, Cu!HdrStates, Cu!BufStates
<1>3. CASE ~core_rst
  <2> USE <1>3
  <2>1. PathInv'
    BY <1>1, PathClock
  <2>2. state' \in Staged /\ ~tx_go' => sent' = <<>>
    <3> SUFFICES ASSUME state' \in Staged, ~tx_go' PROVE sent' = <<>>
      OBVIOUS
    <3>1. state \in Staged \cup {"CU_WR_BUSY"}
      BY <1>1, PathClock
    <3>2. ~tx_go
      <4> SUFFICES ASSUME tx_go PROVE FALSE
        OBVIOUS
      <4>1. state = "CU_TX_GO"
        BY DEF StagedIInv, GoInv
      <4>2. state' = "CU_FINISH"
        BY <1>1, <4>1, GoMoves DEF SendTypeOK
      <4> QED BY <4>2 DEF Staged, Cu!HdrStates, Cu!BufStates
    <3> QED BY <1>1, <3>1, <3>2 DEF SentInv
  <2>3. ASSUME tx_go', ~Unreached'
        PROVE  /\ WireInv'
               /\ tx_state' # "T_DONE" => sent' = <<>>
               /\ tx_state' \in Working => ~tx_report'.xcoll
               /\ tx_state' = "T_DONE" => sent' = IF tx_report'.xcoll THEN <<>> ELSE <<OnTheWire>>'
               /\ tx_done' => tx_ok' = ~tx_report'.xcoll
    <3>1. CASE ~tx_go
      <4>1. state = "CU_TX_GO" /\ tx_state = "T_IDLE" /\ ~tx_done
        BY <1>1, <2>3, <3>1, Raises
      <4>2. sent' = <<>>
        BY <1>1, <3>1, <4>1 DEF SentInv, Staged
      <4> QED BY <1>1, <4>1, <4>2 DEF WireInv, Working
    <3>2. CASE tx_go
      <4>1. ~Unreached
        BY <1>1, <2>3 DEF ResetEdge, Unreached
      <4>2. state = "CU_TX_GO" /\ tx_len = tx_bytes /\ ~ram_wr.we
        BY <3>2 DEF StagedIInv, GoInv
      <4>3. UNCHANGED <<cb, ia, cfg, ram, tx_len, sent>>
        BY <1>1, <4>2, GoMoves DEF Clock, RamEdge
      <4>4. OnTheWire' = OnTheWire /\ Tx!SendLen' = Tx!SendLen
        BY <4>3, SameFrame DEF OnTheWire, Padded, Tx!PadLen, Tx!SendLen, Cu!MinLen
      <4> QED BY <1>1, <3>2, <4>1, <4>3, <4>4 DEF WireInv, SentInv, FirstOf
    <3> QED BY <3>1, <3>2
  <2>4. ReportedSent'
    <3> SUFFICES ASSUME state' = "CU_FINISH", cmd'.op = "TRANSMIT", ~Cu!Loopback'
                 PROVE  IF ok' THEN sent' = <<OnTheWire>>' ELSE sent' = <<>>
      BY DEF ReportedSent, OnTheWire
    <3>1. \/ state = "CU_FINISH" /\ ok' = ok
          \/ state = "CU_TX_RD_TBD" /\ ~ok'
          \/ state = "CU_TX_GO" /\ tx_go /\ done_s2 /\ ok' = tx_ok
      BY <1>1, PathClock
    <3>2. UNCHANGED <<cb, cmd, ia, cfg, sent>>
      BY <1>1, <3>1, InHandStays DEF Staged, Cu!BufStates
    <3>3. OnTheWire' = OnTheWire
      BY <3>2, SameFrame DEF OnTheWire, Padded, Tx!PadLen, Cu!MinLen
    <3>4. CASE state = "CU_FINISH" /\ ok' = ok
      BY <1>1, <3>2, <3>3, <3>4 DEF SentInv, ReportedSent, OnTheWire, Cu!Loopback
    <3>5. CASE state = "CU_TX_RD_TBD" /\ ~ok'
      <4>1. ~tx_go
        BY <3>5 DEF StagedIInv, GoInv
      <4> QED BY <1>1, <3>2, <3>5, <4>1 DEF SentInv, Staged, Cu!BufStates
    <3>6. CASE state = "CU_TX_GO" /\ tx_go /\ done_s2 /\ ok' = tx_ok
      <4>1. ~Unreached /\ tx_done /\ tx_state = "T_DONE"
        BY <1>1, <3>6 DEF HandInv
      <4> QED BY <1>1, <3>2, <3>3, <3>6, <4>1 DEF SentInv
    <3> QED BY <3>1, <3>4, <3>5, <3>6
  <2> QED BY <2>1, <2>2, <2>3, <2>4 DEF WireInv, SentInv
<1> QED BY <1>2, <1>3

\* The wire and what was sent, on an edge of tx_clk.
LEMMA SentTick ==
  ASSUME CommandIInv, SetupIInv, StagedIInv, SendIInv, Tick
  PROVE  PathInv' /\ WireInv' /\ SentInv'
<1>1. /\ UNCHANGED <<state, cb, cmd, ia, cfg, ok, tx_go, tx_len, core_rst, ram>>
      /\ ram_q' = ram[Tx!RamAddr % RamBytes] /\ WireHistory
      /\ tx_rst_q' = IF core_rst THEN 3 ELSE IF tx_rst_q > 0 THEN tx_rst_q - 1 ELSE 0
      /\ SendTypeOK /\ ResetInv /\ HandInv /\ PathInv /\ WireInv /\ SentInv
  BY DEF Tick, cuVars, ctlVars, SendIInv
<1>2. OnTheWire' = OnTheWire /\ Tx!SendLen' = Tx!SendLen
  BY <1>1, SameFrame DEF OnTheWire, Padded, Tx!PadLen, Tx!SendLen, Cu!MinLen
<1>3. PathInv'
  BY <1>1 DEF PathInv, Cu!Loopback
<1>4. ~tx_go => sent' = sent
  <2> SUFFICES ASSUME ~tx_go, ~tx_rst, tx_state = "T_END" PROVE FALSE
    BY <1>1 DEF WireHistory
  <2> QED BY <1>1 DEF HandInv, tx_rst, Unreached
<1>5. state' \in Staged /\ ~tx_go' => sent' = <<>>
  BY <1>1, <1>4 DEF SentInv
<1>6. ReportedSent'
  <2> SUFFICES ASSUME state = "CU_FINISH"
               PROVE  ReportedSent'
    BY <1>1 DEF ReportedSent
  <2>1. sent' = sent
    BY <1>4 DEF StagedIInv, GoInv
  <2> QED BY <1>1, <1>2, <2>1 DEF SentInv, ReportedSent, OnTheWire, Cu!Loopback
<1>7. ASSUME tx_go, ~Unreached'
      PROVE  /\ WireInv'
             /\ tx_state' # "T_DONE" => sent' = <<>>
             /\ tx_state' \in Working => ~tx_report'.xcoll
             /\ tx_state' = "T_DONE" => sent' = IF tx_report'.xcoll THEN <<>> ELSE <<OnTheWire>>
             /\ tx_done' => tx_ok' = ~tx_report'.xcoll
  <2> USE <1>7
  <2>1. ~Unreached
    BY <1>1 DEF HandInv, Unreached
  <2>2. tx_state \in Tx!States /\ go_s2 \in BOOLEAN /\ tx_done \in BOOLEAN
    BY <1>1 DEF SendTypeOK
  <2>3. CASE tx_rst
    <3>1. tx_state = "T_IDLE" /\ sent' = <<>>
      BY <1>1, <2>1, <2>3 DEF ResetInv, SentInv, WireHistory, SendTypeOK, tx_rst, Unreached
    <3>2. tx_state' = "T_IDLE" /\ ~tx_done'
      BY <2>3 DEF Tick, Tx!TxEdge, Tx!TxReset
    <3> QED BY <3>1, <3>2 DEF WireInv, Working
  <2>4. CASE ~tx_rst
    <3> USE <2>4
    <3>1. /\ tx_state # "T_DONE" => sent = <<>> /\ ~tx_done
          /\ tx_state \in Working => ~tx_report.xcoll
          /\ tx_state # "T_END" => sent' = sent
      BY <1>1, <2>1 DEF SentInv, HandInv, WireHistory
    <3>2. CASE tx_state = "T_IDLE"
      <4>1. tx_state' \in {"T_IDLE", "T_DEFER"} /\ ~txd'.en /\ ~tx_done'
            /\ (tx_state' = "T_DEFER" => ~tx_report'.xcoll)
        BY <1>1, <3>1, <3>2, TxMoves DEF Tx!Quiet
      <4> QED BY <3>1, <3>2, <4>1 DEF WireInv, Working
    <3>3. CASE tx_state = "T_DEFER"
      <4>1. ~txd'.en /\ wire' = <<>> /\ ~tx_done'
        BY <1>1, <2>1, <3>1, <3>3, TxMoves DEF WireInv, WireHistory
      <4>2. \/ tx_state' = "T_DONE" /\ tx_report'.xcoll
            \/ tx_state' = "T_DEFER" /\ UNCHANGED tx_report
            \/ tx_state' = "T_PREAMBLE" /\ tx_idx' = 0 /\ UNCHANGED tx_report
        BY <1>1, <3>3, TxMoves
      <4> QED BY <3>1, <3>3, <4>1, <4>2 DEF WireInv, Working
    <3>4. CASE tx_state = "T_PREAMBLE"
      <4>1. /\ tx_state' \in {"T_PREAMBLE", "T_DATA", "T_JAM"}
            /\ UNCHANGED <<tx_idx, tx_report, tx_done>> /\ txd'.en
        BY <1>1, <3>4, TxMoves DEF Tx!Symbol
      <4>2. tx_idx' = 0 /\ wire' = <<>> /\ ram_q' = ram[0 % RamBytes]
        BY <1>1, <2>1, <3>4, <4>1 DEF WireInv, WireHistory, Tx!RamAddr
      <4>3. Tx!SendLen \in Nat \ {0} /\ RamBytes \in Nat \ {0}
        BY <1>1, ToSend, ListAssumption
      <4>4. 0 % RamBytes = 0
        BY <4>3
      <4>5. WireInv'
        BY <1>1, <1>2, <4>1, <4>2, <4>3, <4>4, OneMore DEF WireInv
      <4> QED BY <3>1, <3>4, <4>1, <4>5 DEF Working
    <3>5. CASE tx_state = "T_DATA"
      <4>1. /\ txd' = Tx!Symbol(Tx!CurByte) /\ UNCHANGED <<tx_report, tx_done>>
            /\ \/ tx_state' = "T_JAM"
               \/ tx_state' \in {"T_FCS", "T_END"} /\ tx_idx + 1 >= Tx!SendLen
               \/ /\ tx_state' = "T_DATA" /\ tx_idx' = tx_idx + 1
                  /\ ~(tx_idx + 1 >= Tx!SendLen)
        BY <1>1, <3>5, TxMoves
      <4>2. /\ tx_idx < Tx!SendLen /\ wire = FirstOf(tx_idx, OnTheWire)
            /\ tx_idx < tx_len => ram_q = ram[tx_idx]
            /\ tx_idx \in Nat
        BY <1>1, <2>1, <3>5 DEF WireInv, SendTypeOK
      <4>3. /\ Tx!SendLen \in Nat \ {0} /\ tx_len \in Nat /\ tx_len <= RamBytes
            /\ RamBytes \in Nat
            /\ FirstOf(Tx!SendLen, OnTheWire) = OnTheWire
            /\ OnTheWire[tx_idx + 1] = IF tx_idx < tx_len THEN ram[tx_idx] ELSE Tx!Pad
        BY <1>1, <4>2, ToSend
      <4>4. Tx!CurByte = OnTheWire[tx_idx + 1]
        BY <4>2, <4>3 DEF Tx!CurByte
      <4>5. wire' = FirstOf(tx_idx + 1, OnTheWire)
        BY <1>1, <3>5, <4>1, <4>2, <4>4, OneMore DEF WireHistory, Tx!Symbol
      <4>6. CASE tx_state' = "T_JAM"
        BY <3>1, <3>5, <4>1, <4>6 DEF WireInv, Working
      <4>7. CASE tx_state' \in {"T_FCS", "T_END"} /\ tx_idx + 1 >= Tx!SendLen
        <5>1. tx_idx + 1 = Tx!SendLen
          BY <4>2, <4>3, <4>7
        <5> QED BY <1>2, <3>1, <3>5, <4>1, <4>3, <4>5, <4>7, <5>1 DEF WireInv, Working
      <4>8. CASE tx_state' = "T_DATA" /\ tx_idx' = tx_idx + 1 /\ ~(tx_idx + 1 >= Tx!SendLen)
        <5>1. tx_idx + 1 < Tx!SendLen
          BY <4>2, <4>3, <4>8
        <5>2. tx_idx + 1 < tx_len => ram_q' = ram[tx_idx + 1]
          <6> SUFFICES ASSUME tx_idx + 1 < tx_len PROVE ram_q' = ram[tx_idx + 1]
            OBVIOUS
          <6>1. (tx_idx + 1) % RamBytes = tx_idx + 1
            BY <4>2, <4>3
          <6> QED BY <1>1, <3>5, <6>1 DEF Tx!RamAddr
        <5>3. WireInv'
          BY <1>1, <1>2, <4>5, <4>8, <5>1, <5>2 DEF WireInv, FirstOf
        <5> QED BY <3>1, <3>5, <4>1, <4>8, <5>3 DEF Working
      <4> QED BY <4>1, <4>6, <4>7, <4>8
    <3>6. CASE tx_state = "T_FCS"
      <4>1. /\ txd'.en /\ tx_state' \in {"T_FCS", "T_END", "T_JAM"}
            /\ UNCHANGED <<tx_report, tx_done>>
        BY <1>1, <3>6, TxMoves DEF Tx!Symbol
      <4>2. wire' = OnTheWire
        BY <1>1, <2>1, <3>6, <4>1 DEF WireInv, WireHistory
      <4> QED BY <1>2, <3>1, <3>6, <4>1, <4>2 DEF WireInv, Working
    <3>7. CASE tx_state = "T_END"
      <4>1. tx_state' = "T_DONE" /\ UNCHANGED <<tx_report, tx_done>>
        BY <1>1, <3>7, TxMoves
      <4>2. sent' = <<OnTheWire>>
        <5>1. wire = OnTheWire /\ sent' = Append(<<>>, wire)
          BY <1>1, <2>1, <3>1, <3>7 DEF WireInv, WireHistory
        <5> QED BY <5>1
      <4> QED BY <3>1, <3>7, <4>1, <4>2 DEF WireInv, Working
    <3>8. CASE tx_state = "T_JAM"
      <4>1. /\ UNCHANGED tx_done
            /\ \/ tx_state' = "T_JAM" /\ UNCHANGED tx_report
               \/ tx_state' = "T_DONE" /\ tx_report'.xcoll
               \/ tx_state' = "T_BACKOFF" /\ tx_report'.xcoll = tx_report.xcoll
        BY <1>1, <3>8, TxMoves
      <4> QED BY <3>1, <3>8, <4>1 DEF WireInv, Working
    <3>9. CASE tx_state = "T_BACKOFF"
      <4>1. /\ tx_state' \in {"T_DEFER", "T_BACKOFF"} /\ ~txd'.en
            /\ UNCHANGED <<tx_report, tx_done>>
        BY <1>1, <3>9, TxMoves DEF Tx!Quiet
      <4> QED BY <3>1, <3>9, <4>1 DEF WireInv, Working
    <3>10. CASE tx_state = "T_DONE"
      <4>1. /\ tx_state' = "T_DONE" /\ tx_report'.xcoll = tx_report.xcoll
            /\ tx_ok' = ~tx_report.xcoll
        BY <1>1, <2>1, <3>10, TxMoves DEF HandInv
      <4> QED BY <1>1, <2>1, <3>1, <3>10, <4>1 DEF WireInv, SentInv, Working
    <3> QED BY <2>2, <3>2, <3>3, <3>4, <3>5, <3>6, <3>7, <3>8, <3>9, <3>10 DEF Tx!States
  <2> QED BY <2>3, <2>4
<1> QED BY <1>1, <1>2, <1>3, <1>5, <1>6, <1>7 DEF WireInv, SentInv

LEMMA SendStutters ==
  ASSUME UNCHANGED vars, SendIInv
  PROVE  SendIInv'
<1>1. UNCHANGED <<cuVars, ctlVars, portVars, macVars, ram, ram_q, tx_rst_q, lead, wire, sent>>
  BY DEF vars
<1>2. OnTheWire' = OnTheWire /\ Tx!SendLen' = Tx!SendLen
  BY <1>1, SameFrame DEF cuVars, OnTheWire, Padded, Tx!PadLen, Tx!SendLen, Cu!MinLen
<1>3. SendTypeOK' /\ ResetInv' /\ HandInv' /\ PathInv'
  BY <1>1 DEF SendIInv, SendTypeOK, ResetInv, HandInv, PathInv, cuVars, ctlVars, macVars, Unreached,
     Cu!Loopback
<1>4. SettleInv'
  BY <1>1 DEF SendIInv, SettleInv, Unsettled, EdgesToGo, AccessLeft, cuVars, ctlVars, macVars,
     portVars, Unreached
<1>5. WireInv' /\ SentInv'
  BY <1>1, <1>2 DEF SendIInv, WireInv, SentInv, ReportedSent, OnTheWire, FirstOf, cuVars, macVars,
     Unreached, Cu!Loopback
<1> QED BY <1>3, <1>4, <1>5 DEF SendIInv

\* Go and done, the frame on the wire, and what was sent, for clocks that are
\* near enough.
THEOREM SendInvariance ==
  ASSUME NearClocks
  PROVE  Spec => []SendIInv
<1>1. Init => SendIInv
  <2> SUFFICES ASSUME Init PROVE SendIInv
    OBVIOUS
  <2>1. /\ state = "CU_IDLE" /\ ~tx_go /\ ~done_s1 /\ ~done_s2 /\ cfg[5].min_len = 0
        /\ ~core_rst /\ tx_rst_q = 0 /\ lead = 0 /\ sent = <<>>
        /\ tx_state = "T_IDLE" /\ ~go_s1 /\ ~go_s2 /\ ~tx_done /\ tx_idx = 0
    BY DEF Init, Cu!CuInit, Tx!TxInit, Cu!ZeroCfgWord
  <2>2. /\ {done_s1, done_s2, tx_go, core_rst, go_s1, go_s2, tx_done, tx_ok, deferred} \subseteq BOOLEAN
        /\ tx_report \in Reports
    BY DEF Init, Cu!CuInit, Tx!TxInit, Tx!NoReport, Reports
  <2>3. SendTypeOK
    BY <2>1, <2>2, ListAssumption DEF SendTypeOK, Tx!States
  <2>4. SettleInv
    BY <2>1, EdgesAre DEF SettleInv, Unsettled, EdgesToGo, EdgesFrom, Unreached
  <2>5. ResetInv /\ HandInv /\ PathInv
    BY <2>1 DEF ResetInv, HandInv, PathInv, Unreached, Cu!BufStates
  <2>6. WireInv /\ SentInv
    BY <2>1 DEF WireInv, SentInv, ReportedSent, Staged, Cu!HdrStates, Cu!BufStates
  <2> QED BY <2>3, <2>4, <2>5, <2>6 DEF SendIInv
<1>2. CommandIInv /\ SetupIInv /\ StagedIInv /\ SendIInv /\ [Next]_vars => SendIInv'
  <2> SUFFICES ASSUME CommandIInv, SetupIInv, StagedIInv, SendIInv, [Next]_vars
               PROVE  SendIInv'
    OBVIOUS
  <2>1. CASE Clock
    BY <2>1, ClockTypes, HandClock, SettleClock, SentClock DEF SendIInv
  <2>2. CASE Tick
    BY <2>2, TickTypes, HandTick, SettleTick, SentTick DEF SendIInv
  <2>3. CASE UNCHANGED vars
    BY <2>3, SendStutters
  <2> QED BY <2>1, <2>2, <2>3 DEF Next
<1> QED BY CommandInvariance, SetupInvariance, StagingInvariance, <1>1, <1>2, PTL DEF Spec

\* "The handshake with the system side is four phase" (mii_tx.sv): go is raised
\* only when done has fallen, and ie_cu has seen it fall.
THEOREM HandshakeIsFourPhase ==
  ASSUME NearClocks
  PROVE  Spec => FourPhase
<1>1. CommandIInv /\ StagedIInv /\ SendIInv /\ [Next]_vars
        => [~tx_go /\ tx_go' => ~tx_done /\ ~done_s2]_vars
  <2> SUFFICES ASSUME CommandIInv, StagedIInv, SendIInv, Next, ~tx_go, tx_go'
               PROVE  ~tx_done /\ ~done_s2
    OBVIOUS
  <2>1. Clock
    BY DEF Next, Tick, cuVars
  <2> QED BY <2>1, Raises DEF SendIInv
<1> QED BY CommandInvariance, StagingInvariance, SendInvariance, <1>1, PTL DEF Spec, FourPhase

\* A transmission reported good put that frame on the wire, once, padded; one
\* reported bad put no whole frame there (CU_TX_GO, mii_tx.sv).
THEOREM ReportedAsSent ==
  ASSUME NearClocks
  PROVE  Spec => []ReportedSent
<1>1. SendIInv => ReportedSent
  BY DEF SendIInv, SentInv
<1> QED BY SendInvariance, <1>1, PTL
-----------------------------------------------------------------------------
\* The words handed to the receive unit under loopback.

\* The FIFO never holds more than fits, and room in it is only taken by a word.
LEMMA RoomStays ==
  ASSUME lb_level \in 0..LbDepth, Clock
  PROVE  /\ lb_level' \in 0..LbDepth
         /\ ~lb_full /\ ~lb_wr.wr => ~lb_full'
<1>1. LbDepth \in Nat /\ LbDepth > 0
  BY ListAssumption
<1>2. CASE core_rst
  BY <1>1, <1>2 DEF Clock, LbEdge, lb_full
<1>3. CASE ~core_rst
  <2>1. PICK taken \in 0..(IF lb_level > 0 THEN 1 ELSE 0) :
          lb_level' = lb_level - taken + Len(LbPush)
    BY <1>3 DEF Clock, LbEdge
  <2>2. CASE lb_wr.wr /\ ~lb_full
    <3>1. Len(LbPush) = 1 /\ lb_level < LbDepth
      BY <1>1, <2>2 DEF LbPush, lb_full
    <3> QED BY <1>1, <2>1, <2>2, <3>1
  <2>3. CASE ~(lb_wr.wr /\ ~lb_full)
    <3>1. Len(LbPush) = 0
      BY <2>3 DEF LbPush
    <3> QED BY <1>1, <2>1, <2>3, <3>1 DEF lb_full
  <2> QED BY <2>2, <2>3
<1> QED BY <1>2, <1>3

\* What was put in the FIFO during a block stays recorded to its end.
LEMMA LoopKept ==
  ASSUME Clock, ~core_rst, state # "CU_WR_BUSY"
  PROVE  /\ LoopWords' = LoopWords \o LbPush'
         /\ ~lb_wr'.wr => LbPush' = <<>>
         /\ lb_wr'.wr => LbPush' \in
              {<<>>, <<[at |-> tx_bytes', end |-> lb_wr'.end, data |-> lb_wr'.data]>>}
BY DEF Clock, LbEdge, LoopWords, LbPush

LEMMA WireStays ==
  ASSUME UNCHANGED <<cb, ia, cfg>>
  PROVE  OnTheWire' = OnTheWire /\ LoopFrame' = LoopFrame
BY SameFrame DEF OnTheWire, LoopFrame, Padded, Tx!PadLen, Cu!MinLen

\* The frame, then its padding.
LEMMA WireIs ==
  ASSUME cb \in Blocks, Cb[cb].cmd.op = "TRANSMIT", cfg[5].min_len \in Nat
  PROVE  /\ Len(Frame(cb)) \in Nat /\ Len(OnTheWire) \in Nat
         /\ Len(Frame(cb)) <= Len(OnTheWire)
         /\ Cu!MinLen \in Nat /\ Cu!MinLen <= Len(OnTheWire) + 4
         /\ DOMAIN OnTheWire = 1..Len(OnTheWire)
         /\ \A k \in 1..Len(OnTheWire) :
              OnTheWire[k] = IF k <= Len(Frame(cb)) THEN Frame(cb)[k] ELSE Cu!Pad
<1> DEFINE n == IF Len(Frame(cb)) > Tx!PadLen THEN Len(Frame(cb)) ELSE Tx!PadLen
<1>1. Len(Frame(cb)) \in Nat
  BY FrameIs
<1>2. Cu!MinLen \in Nat /\ Tx!PadLen \in Nat /\ Cu!MinLen <= Tx!PadLen + 4
  BY DEF Tx!PadLen, Cu!MinLen
<1>3. OnTheWire = [k \in 1..n |-> IF k <= Len(Frame(cb)) THEN Frame(cb)[k] ELSE Tx!Pad]
  BY DEF OnTheWire, Padded
<1>4. n \in Nat /\ Len(Frame(cb)) <= n /\ Tx!PadLen <= n
  BY <1>1, <1>2
<1> HIDE DEF n
<1>5. Len(OnTheWire) = n /\ DOMAIN OnTheWire = 1..n
  BY <1>3, <1>4
<1>6. Tx!Pad = Cu!Pad
  BY DEF Tx!Pad, Cu!Pad
<1> QED BY <1>1, <1>2, <1>3, <1>4, <1>5, <1>6

\* One more byte handed over, or none: those the FIFO took are still in order.
LEMMA StillInOrder ==
  ASSUME Clock, ~core_rst, state # "CU_WR_BUSY", UNCHANGED <<cb, ia, cfg>>,
         tx_bytes \in Nat, TakenInOrder(LoopWords),
         \/ lb_wr' = Cu!NoLb /\ tx_bytes' \in {tx_bytes, tx_bytes + 1}
         \/ /\ lb_wr' = [wr |-> TRUE, end |-> FALSE, data |-> OnTheWire[tx_bytes + 1]]
            /\ tx_bytes' = tx_bytes + 1
  PROVE  TakenInOrder(LoopWords)'
<1> DEFINE w == [at |-> tx_bytes', end |-> FALSE, data |-> OnTheWire[tx_bytes']]
<1>1. OnTheWire' = OnTheWire
  BY WireStays
<1>2. Words \subseteq Words' /\ \A v \in Words : v.at \in 1..tx_bytes
  BY <1>1 DEF Words
<1>3. LoopWords \in Seq(Words')
  BY <1>2 DEF TakenInOrder
<1>4. /\ LoopWords' = LoopWords \o LbPush'
      /\ LbPush' = <<>> \/ (tx_bytes' = tx_bytes + 1 /\ LbPush' = <<w>>)
  BY LoopKept DEF Cu!NoLb
<1>5. CASE LbPush' = <<>>
  <2>1. LoopWords' = LoopWords
    BY <1>3, <1>4, <1>5
  <2> QED BY <1>3, <2>1 DEF TakenInOrder
<1>6. CASE tx_bytes' = tx_bytes + 1 /\ LbPush' = <<w>>
  <2> DEFINE s == LoopWords
  <2>1. w \in Words' /\ w.at = tx_bytes + 1
    <3>1. tx_bytes' \in 1..tx_bytes'
      BY <1>6
    <3>2. Words' = {[at |-> n, end |-> FALSE, data |-> OnTheWire[n]] : n \in 1..tx_bytes'}
      BY <1>1 DEF Words
    <3> QED BY <1>6, <3>1, <3>2
  <2>2. LoopWords' = Append(s, w)
    BY <1>3, <1>4, <1>6, <2>1
  <2> HIDE DEF w
  <2>3. /\ Append(s, w) \in Seq(Words') /\ Len(Append(s, w)) = Len(s) + 1 /\ Len(s) \in Nat
        /\ Append(s, w)[Len(s) + 1] = w
        /\ \A k \in 1..Len(s) : Append(s, w)[k] = s[k] /\ s[k].at \in 1..tx_bytes
    <3>1. \A k \in 1..Len(s) : s[k] \in Words
      BY DEF TakenInOrder
    <3> QED BY <1>2, <1>3, <2>1, <3>1
  <2>4. ASSUME NEW j \in 1..Len(s) + 1, NEW k \in 1..Len(s) + 1, j < k
        PROVE  Append(s, w)[j].at < Append(s, w)[k].at
    <3>1. j \in 1..Len(s)
      BY <2>3, <2>4
    <3>2. CASE k = Len(s) + 1
      BY <2>1, <2>3, <3>1, <3>2
    <3>3. CASE k # Len(s) + 1
      <4>1. k \in 1..Len(s)
        BY <2>3, <3>3
      <4> QED BY <2>3, <2>4, <3>1, <4>1 DEF TakenInOrder
    <3> QED BY <3>2, <3>3
  <2> QED BY <2>2, <2>3, <2>4 DEF TakenInOrder
<1> QED BY <1>4, <1>5, <1>6

\* The end behind them completes the frame.
LEMMA EndCompletes ==
  ASSUME TakenInOrder(LoopWords), cb \in Blocks, Cb[cb].cmd.op = "TRANSMIT", cfg[5].min_len \in Nat,
         tx_bytes \in Nat, tx_bytes <= Len(OnTheWire), UNCHANGED <<cb, ia, cfg>>,
         NEW w, w.end, LoopWords' = Append(LoopWords, w)
  PROVE  LoopbackFraming'
<1> DEFINE s == LoopWords
           t == LoopWords'
<1>1. Len(s) \in Nat /\ \A k \in 1..Len(s) : s[k] \in Words
  BY DEF TakenInOrder
<1>2. \A k \in 1..Len(s) : /\ ~s[k].end /\ s[k].at \in 1..Len(OnTheWire)
                           /\ s[k].data = OnTheWire[s[k].at]
  BY <1>1, WireIs DEF Words
<1>3. s \in Seq(Words \cup {w})
  BY DEF TakenInOrder
<1>4. /\ Len(t) = Len(s) + 1 /\ t[Len(s) + 1] = w
      /\ \A k \in 1..Len(s) : t[k] = s[k]
  BY <1>1, <1>3
<1>5. LoopFrame' = OnTheWire /\ DOMAIN OnTheWire = 1..Len(OnTheWire)
  BY WireStays, WireIs DEF LoopFrame, OnTheWire
<1> HIDE DEF t
<1>6. Len(t) > 0 /\ \A k \in 1..Len(t) : t[k].end <=> k = Len(t)
  <2> SUFFICES ASSUME NEW k \in 1..Len(t) PROVE t[k].end <=> k = Len(t)
    BY <1>1, <1>4
  <2>1. k = Len(s) + 1 \/ k \in 1..Len(s)
    BY <1>1, <1>4
  <2> QED BY <1>1, <1>2, <1>4, <2>1
<1>7. Len(t) - 1 = Len(s)
  BY <1>1, <1>4
<1>8. \A k \in 1..Len(t)-1 : t[k].at \in DOMAIN LoopFrame' /\ t[k].data = LoopFrame'[t[k].at]
  BY <1>2, <1>4, <1>5, <1>7
<1>9. \A j, k \in 1..Len(t)-1 : j < k => t[j].at < t[k].at
  BY <1>4, <1>7 DEF TakenInOrder
<1> QED BY <1>6, <1>8, <1>9 DEF LoopbackFraming, t

\* What a part of the unit that stages bytes hands over.
LEMMA HandsOver ==
  ASSUME CommandIInv, SetupIInv, StagedIInv, Clock, Cu!Staging, cfg[5].min_len \in Nat
  PROVE  /\ UNCHANGED <<cb, cmd, ia, cfg>> /\ cb \in Blocks /\ Cb[cb].cmd.op = "TRANSMIT"
         /\ state' = "CU_FINISH" => ~ok'
         /\ state' \in Cu!HdrStates \cup Cu!BufStates \cup {"CU_TX_GO"} =>
              \/ lb_wr' = Cu!NoLb /\ UNCHANGED tx_bytes
              \/ /\ lb_wr' \in
                      {Cu!NoLb, [wr |-> TRUE, end |-> FALSE, data |-> OnTheWire[tx_bytes + 1]]}
                 /\ tx_bytes' = tx_bytes + 1
         /\ state' \in Cu!HdrStates \cup Cu!BufStates \cup {"CU_TX_GO", "CU_FINISH"}
<1>1. /\ state \in Cu!HdrStates \cup Cu!BufStates
      /\ UNCHANGED <<cb, cmd, ia, cfg>>
  BY Untouched DEF Cu!Staging, Cu!listVars, Cu!OpenTbd, Cu!StageHeader, Cu!Select, Cu!StageByte,
     Cu!ReadWord, Cu!StageWord, Cu!HdrStates, Cu!BufStates
<1>2. /\ cb \in Blocks /\ Cb[cb].cmd.op = "TRANSMIT"
      /\ Len(Frame(cb)) \in Nat /\ Len(Frame(cb)) <= RamBytes /\ RamBytes \in Nat
  BY <1>1, InHand DEF SetupIInv
<1>3. /\ state' = "CU_FINISH" => ~ok'
      /\ state' \in Cu!HdrStates \cup Cu!BufStates \cup {"CU_TX_GO", "CU_FINISH"}
      /\ (lb_wr' = Cu!NoLb /\ UNCHANGED tx_bytes) \/ \E byte : Cu!Stage(byte)
  <2> USE DEF Cu!Goto, Cu!HdrStates, Cu!BufStates, Cu!StageNothing
  <2>1. CASE Cu!OpenTbd
    <3>1. lb_wr' = Cu!NoLb /\ UNCHANGED tx_bytes
      BY <2>1 DEF Cu!OpenTbd
    <3>2. CASE state = "CU_TX_RD_TBD"
      <4>1. /\ ok' = (ok /\ rdata # Null)
            /\ state' = IF rdata = Null THEN "CU_FINISH" ELSE "CU_TX_RD_CNT"
        BY <2>1, <3>2 DEF Cu!OpenTbd
      <4> QED BY <3>1, <4>1
    <3>3. CASE state # "CU_TX_RD_TBD"
      <4>1. state' \in Cu!BufStates \cup {"CU_TX_GO"} /\ state' # "CU_FINISH"
        BY <2>1, <3>3 DEF Cu!OpenTbd
      <4> QED BY <3>1, <4>1
    <3> QED BY <3>2, <3>3
  <2>2. CASE Cu!StageHeader
    BY <2>2 DEF Cu!StageHeader, Cu!Header
  <2>3. CASE Cu!Select \/ Cu!ReadWord
    BY <2>3 DEF Cu!Select, Cu!ReadWord
  <2>4. CASE Cu!StageByte \/ Cu!StageWord
    BY <2>4 DEF Cu!StageByte, Cu!StageWord
  <2> QED BY <2>1, <2>2, <2>3, <2>4 DEF Cu!Staging
<1>4. ASSUME NEW byte, Cu!Stage(byte),
             state' \in Cu!HdrStates \cup Cu!BufStates \cup {"CU_TX_GO"}
      PROVE  byte = OnTheWire[tx_bytes + 1]
  <2>1. StagedIInv'
    BY StagedKept DEF Next
  <2>2. SoFar' /\ tx_bytes \in Nat /\ Frame(cb)' = Frame(cb)
    BY <1>1, <1>4, <2>1, SameFrame DEF StagedIInv, StagedInv, StagingTypeOK
  <2>3. /\ tx_bytes' = tx_bytes + 1
        /\ ram_wr' = [we |-> TRUE, addr |-> tx_bytes % RamBytes, data |-> byte]
    BY <1>4 DEF Cu!Stage
  <2>4. PICK n \in Nat : n = tx_bytes
    BY <2>2
  <2>5. n + 1 <= Len(Frame(cb)) /\ RamSoon(n)' = Frame(cb)[n + 1]
    BY <2>2, <2>3, <2>4 DEF SoFar
  <2>6. byte = Frame(cb)[n + 1]
    <3>1. n < RamBytes
      BY <1>2, <2>4, <2>5
    <3>2. n % RamBytes = n
      BY ONLY <1>2, <3>1, n \in Nat
    <3>3. ram_wr'.we /\ ram_wr'.addr = n /\ ram_wr'.data = byte
      BY ONLY <2>3, <2>4, <3>2
    <3>4. RamSoon(n)' = byte
      BY ONLY <3>3 DEF RamSoon
    <3> QED BY ONLY <2>5, <3>4
  <2>7. tx_bytes + 1 \in 1..Len(OnTheWire)
    BY <1>2, <2>4, <2>5, WireIs
  <2> QED BY <1>2, <2>4, <2>5, <2>6, <2>7, WireIs
<1>5. ASSUME NEW byte, Cu!Stage(byte)
      PROVE  /\ lb_wr' \in {Cu!NoLb, [wr |-> TRUE, end |-> FALSE, data |-> byte]}
             /\ tx_bytes' = tx_bytes + 1
  BY <1>5 DEF Cu!Stage
<1> QED BY <1>1, <1>2, <1>3, <1>4, <1>5

\* A step of the unit that hands nothing over.
LEMMA HandsNothing ==
  ASSUME Clock, ~core_rst, state \in Handing, state' \in Handing, LoopInv,
         tx_bytes \in Nat, UNCHANGED <<cb, ia, cfg, tx_bytes>>, lb_wr' = Cu!NoLb,
         state' = "CU_TX_LB_PAD" => tx_bytes >= Len(Frame(cb))
  PROVE  LoopInv'
<1>1. state # "CU_WR_BUSY" /\ state' # "CU_FINISH"
  BY DEF Handing, Staged, Cu!HdrStates, Cu!BufStates
<1>2. TakenInOrder(LoopWords)' /\ OnTheWire' = OnTheWire /\ Frame(cb)' = Frame(cb)
  BY <1>1, StillInOrder, WireStays, SameFrame DEF LoopInv
<1>3. tx_bytes' <= Len(OnTheWire)' /\ ~lb_wr'.wr
  BY <1>2 DEF LoopInv, Cu!NoLb
<1> QED BY <1>1, <1>2, <1>3 DEF LoopInv, LoopbackFraming, LoopedBack

\* The loop, on an edge of clk.
LEMMA LoopClock ==
  ASSUME CommandIInv, SetupIInv, StagedIInv, LoopIInv, Clock
  PROVE  LoopIInv'
<1>1. /\ Cu!CuEdge /\ KindInv /\ state \in Cu!States /\ state' \in Cu!States
      /\ cfg[5].min_len \in Nat /\ tx_bytes \in Nat /\ LoopInv
  BY TypeStep DEF Clock, SetupIInv, CommandIInv, CommandTypeOK, StagedIInv, StagingTypeOK,
     LoopIInv, LoopTypeOK
<1>2. LoopTypeOK'
  BY MinLenStep, RoomStays DEF LoopIInv, LoopTypeOK
<1> SUFFICES LoopInv'
  BY <1>2 DEF LoopIInv
<1> USE DEF Handing, Staged, Cu!HdrStates, Cu!BufStates
<1>3. CASE state' \notin Handing /\ ~LoopedBack'
  BY <1>3 DEF LoopInv, LoopbackFraming
<1>4. CASE core_rst
  <2>1. state' = "CU_IDLE"
    BY <1>1, <1>4 DEF Cu!CuEdge, Cu!CuReset
  <2> QED BY <1>3, <2>1 DEF LoopedBack
<1>5. CASE ~core_rst /\ state \in {"CU_IDLE", "CU_NEXT", "CU_FETCH_CMD", "CU_FETCH_LINK"}
  <2>1. state' \notin Handing \cup {"CU_FINISH"}
    BY <1>1, <1>5, Moves
  <2> QED BY <1>3, <2>1 DEF LoopedBack
<1>6. CASE ~core_rst /\ state \in Cu!SetupStates
  <2>1. UNCHANGED cmd /\ state' \in Cu!SetupStates \cup {"CU_FINISH"}
    BY <1>1, <1>6, AtWork DEF Cu!Setup, Cu!SetupIa, Cu!SetupCfg, Cu!SetupMcCount, Cu!SetupMcAddr,
       Cu!WriteTdr, Cu!Wait, Cu!Goto, Cu!SetupStates
  <2>2. cmd.op # "TRANSMIT"
    BY <1>1, <1>6 DEF KindInv, Cu!SetupStates
  <2> QED BY <1>3, <2>1, <2>2 DEF LoopedBack, Cu!SetupStates
<1>7. CASE ~core_rst /\ state = "CU_WR_BUSY"
  <2>1. CASE Cu!Wait
    BY <1>3, <1>7, <2>1 DEF Cu!Wait, LoopedBack
  <2>2. CASE Cu!Dispatch
    <3>1. /\ state' = Cu!FirstState /\ UNCHANGED <<cmd, cb, ia, cfg>>
          /\ lb_wr' = Cu!NoLb
          /\ cmd.op = "TRANSMIT" => tx_bytes' = 0
      BY <2>2 DEF Cu!Dispatch, Cu!Goto, Cu!NoPulses, Cu!listVars, Cu!setupVars
    <3>2. CASE cmd.op # "TRANSMIT"
      <4>1. state' \notin Handing
        BY <3>1, <3>2 DEF Cu!FirstState
      <4> QED BY <1>3, <3>1, <3>2, <4>1 DEF LoopedBack
    <3>3. CASE cmd.op = "TRANSMIT"
      <4>1. state' \notin {"CU_FINISH", "CU_TX_LB_PAD", "CU_TX_LB_END"} /\ tx_bytes' = 0
        BY <3>1, <3>3 DEF Cu!FirstState
      <4>2. LoopWords' = <<>>
        BY <1>7, <3>1 DEF Clock, LbEdge, LoopWords, LbPush, Cu!NoLb
      <4>3. TakenInOrder(LoopWords)'
        BY <4>2 DEF TakenInOrder
      <4>4. cb \in Blocks /\ Cb[cb].cmd.op = "TRANSMIT"
        BY <1>7, <3>3 DEF CommandIInv, ListInv
      <4>5. Len(OnTheWire)' \in Nat
        BY <1>1, <3>1, <4>4, WireIs, WireStays
      <4> QED BY <4>1, <4>3, <4>5 DEF LoopInv, LoopbackFraming, LoopedBack
    <3> QED BY <3>2, <3>3
  <2> QED BY <1>1, <1>7, <2>1, <2>2, AtWork
<1>8. CASE ~core_rst /\ state \in Cu!HdrStates \cup Cu!BufStates
  <2>1. CASE Cu!Wait
    <3>1. UNCHANGED <<state, cb, ia, cfg, tx_bytes>> /\ lb_wr' = Cu!NoLb
      BY <2>1 DEF Cu!Wait, Cu!NoPulses, Cu!listVars, Cu!setupVars
    <3> QED BY <1>1, <1>8, <3>1, HandsNothing
  <2>2. CASE Cu!Staging
    <3>1. /\ UNCHANGED <<cb, cmd, ia, cfg>> /\ cb \in Blocks /\ Cb[cb].cmd.op = "TRANSMIT"
          /\ state' = "CU_FINISH" => ~ok'
          /\ state' \in Cu!HdrStates \cup Cu!BufStates \cup {"CU_TX_GO", "CU_FINISH"}
      BY <1>1, <2>2, HandsOver
    <3>2. CASE state' = "CU_FINISH"
      BY <1>3, <3>1, <3>2 DEF LoopedBack
    <3>3. CASE state' # "CU_FINISH"
      <4>1. \/ lb_wr' = Cu!NoLb /\ tx_bytes' \in {tx_bytes, tx_bytes + 1}
            \/ /\ lb_wr' = [wr |-> TRUE, end |-> FALSE, data |-> OnTheWire[tx_bytes + 1]]
               /\ tx_bytes' = tx_bytes + 1
        BY <1>1, <2>2, <3>1, <3>3, HandsOver
      <4>2. TakenInOrder(LoopWords)'
        BY <1>1, <1>8, <3>1, <4>1, StillInOrder DEF LoopInv
      <4>3. tx_bytes' <= Len(OnTheWire)'
        <5>1. StagedIInv'
          BY StagedKept DEF Next
        <5>2. tx_bytes' <= Len(Frame(cb))' /\ tx_bytes' \in Nat
          BY <3>1, <3>3, <5>1 DEF StagedIInv, StagedInv, SoFar, StagingTypeOK
        <5>3. /\ OnTheWire' = OnTheWire /\ Frame(cb)' = Frame(cb)
              /\ Len(Frame(cb)) \in Nat /\ Len(OnTheWire) \in Nat
              /\ Len(Frame(cb)) <= Len(OnTheWire)
          BY <1>1, <3>1, WireStays, SameFrame, WireIs
        <5> QED BY <5>2, <5>3
      <4> QED BY <3>1, <3>3, <4>2, <4>3 DEF LoopInv, LoopbackFraming, LoopedBack
    <3> QED BY <3>2, <3>3
  <2> QED BY <1>1, <1>8, <2>1, <2>2, AtWork
<1>9. CASE ~core_rst /\ state = "CU_TX_GO"
  <2>1. /\ UNCHANGED <<cb, cmd, ia, cfg, tx_bytes>> /\ lb_wr' = Cu!NoLb
        /\ state' = "CU_FINISH" => ~Cu!Loopback
        /\ state' \in {"CU_TX_GO", "CU_TX_LB_PAD", "CU_FINISH"}
        /\ tx_bytes = Len(Frame(cb))
    <3>1. Cu!Sending /\ Cu!Go
      BY <1>1, <1>9, AtWork DEF Cu!Sending, Cu!PadLoopback, Cu!EndLoopback, Cu!Wait, Cu!OwnPace,
         Cu!LbPace, Cu!RoomPace, Cu!SendStates
    <3>2. tx_go => ~Cu!Loopback
      BY DEF StagedIInv, GoInv
    <3>3. tx_bytes = Len(Frame(cb))
      BY <1>9 DEF StagedIInv, GoInv
    <3> QED BY <3>1, <3>2, <3>3 DEF Cu!Sending, Cu!Go, Cu!AttemptOver, Cu!Goto, Cu!listVars,
               Cu!setupVars
  <2>2. CASE state' = "CU_FINISH"
    BY <1>3, <2>1, <2>2 DEF LoopedBack, Cu!Loopback
  <2>3. CASE state' # "CU_FINISH"
    BY <1>1, <1>9, <2>1, <2>3, HandsNothing
  <2> QED BY <2>2, <2>3
<1>10. CASE ~core_rst /\ state = "CU_TX_LB_PAD"
  <2>1. UNCHANGED <<cb, cmd, ia, cfg>> /\ tx_bytes >= Len(Frame(cb))
    BY <1>1, <1>10, InHandStays DEF Cu!SendStates, LoopInv
  <2>2. cb \in Blocks /\ Cb[cb].cmd.op = "TRANSMIT"
    BY <1>1, <1>10 DEF CommandIInv, ListInv, KindInv, Cu!SendStates
  <2>3. CASE /\ lb_wr' = Cu!NoLb /\ UNCHANGED tx_bytes
             /\ state' \in {"CU_TX_LB_PAD", "CU_TX_LB_END"}
    BY <1>1, <1>10, <2>1, <2>3, HandsNothing
  <2>4. CASE /\ tx_bytes + 4 < Cu!MinLen /\ UNCHANGED state /\ tx_bytes' = tx_bytes + 1
             /\ lb_wr' = [wr |-> TRUE, end |-> FALSE, data |-> Cu!Pad]
    <3>1. tx_bytes + 1 <= Len(OnTheWire) /\ OnTheWire[tx_bytes + 1] = Cu!Pad
      BY <1>1, <2>1, <2>2, <2>4, WireIs
    <3>2. TakenInOrder(LoopWords)'
      BY <1>1, <1>10, <2>1, <2>4, <3>1, StillInOrder DEF LoopInv
    <3>3. OnTheWire' = OnTheWire /\ Frame(cb)' = Frame(cb) /\ Len(Frame(cb)) \in Nat
      BY <1>1, <2>1, <2>2, WireStays, SameFrame, WireIs
    <3>4. tx_bytes' <= Len(OnTheWire)' /\ tx_bytes' >= Len(Frame(cb))'
      BY <1>1, <2>1, <2>4, <3>1, <3>3
    <3> QED BY <1>10, <2>4, <3>2, <3>4 DEF LoopInv, LoopbackFraming, LoopedBack
  <2>5. CASE Cu!Wait
    BY <1>10, <2>3, <2>5 DEF Cu!Wait, Cu!NoPulses
  <2>6. CASE Cu!Sending
    <3>1. Cu!PadLoopback
      BY <1>10, <2>6 DEF Cu!Sending, Cu!Go, Cu!EndLoopback
    <3>2. CASE tx_bytes + 4 >= Cu!MinLen
      BY <2>3, <3>1, <3>2 DEF Cu!PadLoopback, Cu!Goto
    <3>3. CASE ~(tx_bytes + 4 >= Cu!MinLen)
      <4>1. tx_bytes + 4 < Cu!MinLen
        BY <1>1, <2>2, <3>3, WireIs
      <4> QED BY <2>4, <3>1, <3>3, <4>1 DEF Cu!PadLoopback
    <3> QED BY <3>2, <3>3
  <2> QED BY <1>1, <1>10, <2>5, <2>6, AtWork DEF Cu!SendStates
<1>11. CASE ~core_rst /\ state = "CU_TX_LB_END"
  <2>1. UNCHANGED <<cb, cmd, ia, cfg>> /\ ~lb_wr.wr
    BY <1>1, <1>11, InHandStays DEF Cu!SendStates, LoopInv
  <2>2. cb \in Blocks /\ Cb[cb].cmd.op = "TRANSMIT"
    BY <1>1, <1>11 DEF CommandIInv, ListInv, KindInv, Cu!SendStates
  <2>3. CASE Cu!Wait
    <3>1. UNCHANGED <<state, tx_bytes>> /\ lb_wr' = Cu!NoLb
      BY <2>3 DEF Cu!Wait, Cu!NoPulses
    <3> QED BY <1>1, <1>11, <2>1, <3>1, HandsNothing
  <2>4. CASE Cu!Sending
    <3>1. /\ state' = "CU_FINISH" /\ ~lb_full /\ UNCHANGED tx_bytes
          /\ lb_wr' = [wr |-> TRUE, end |-> TRUE, data |-> Cu!NoByte]
      BY <1>11, <2>4 DEF Cu!Sending, Cu!Go, Cu!PadLoopback, Cu!EndLoopback, Cu!EndRoom, Cu!Goto
    <3>2. ~lb_full'
      BY <2>1, <3>1, RoomStays DEF LoopIInv, LoopTypeOK
    <3>3. LbPush' = <<EndWord>>
      BY <3>1, <3>2 DEF LbPush, EndWord
    <3>4. TakenInOrder(LoopWords) /\ tx_bytes <= Len(OnTheWire)
      BY <1>1, <1>11 DEF LoopInv
    <3>5. LoopWords' = Append(LoopWords, EndWord) /\ LoopWords' \in Seq(Words \cup {EndWord})
      <4>1. LoopWords \in Seq(Words \cup {EndWord}) /\ EndWord \in Words \cup {EndWord}
        BY <3>4 DEF TakenInOrder
      <4>2. LoopWords' = LoopWords \o <<EndWord>>
        BY <1>11, <3>3, LoopKept
      <4> QED BY <4>1, <4>2
    <3>6. LoopbackFraming'
      BY <1>1, <2>1, <2>2, <3>4, <3>5, EndCompletes DEF EndWord
    <3>7. Words' = Words /\ EndWord' = EndWord
      BY <2>1, <3>1, WireStays DEF Words, EndWord
    <3> QED BY <3>1, <3>5, <3>6, <3>7 DEF LoopInv
  <2> QED BY <1>1, <1>11, <2>3, <2>4, AtWork DEF Cu!SendStates
<1>12. CASE ~core_rst /\ state = "CU_FINISH"
  <2>1. CASE Cu!Finish
    BY <1>3, <2>1 DEF Cu!Finish, Cu!Goto, LoopedBack
  <2>2. CASE Cu!Wait /\ LoopedBack'
    <3>1. UNCHANGED <<state, cb, cmd, ok, ia, cfg, tx_bytes>> /\ lb_wr' = Cu!NoLb
      BY <2>2 DEF Cu!Wait, Cu!NoPulses, Cu!listVars, Cu!setupVars
    <3>2. LoopedBack
      BY <2>2, <3>1 DEF LoopedBack, Cu!Loopback
    <3>3. LoopWords \in Seq(Words \cup {EndWord})
      BY <1>1, <3>2 DEF LoopInv
    <3>4. LoopWords' = LoopWords \o <<>>
      BY <1>12, <3>1, LoopKept DEF Cu!NoLb
    <3>5. LoopWords' = LoopWords
      BY <3>3, <3>4
    <3>6. Words' = Words /\ EndWord' = EndWord /\ LoopFrame' = LoopFrame
      BY <3>1, WireStays DEF Words, EndWord
    <3> QED BY <1>1, <1>12, <3>1, <3>2, <3>3, <3>5, <3>6 DEF LoopInv, LoopbackFraming
  <2>3. CASE Cu!Wait /\ ~LoopedBack'
    BY <1>3, <1>12, <2>3 DEF Cu!Wait
  <2> QED BY <1>1, <1>12, <2>1, <2>2, <2>3, AtWork
<1> QED BY <1>1, <1>4, <1>5, <1>6, <1>7, <1>8, <1>9, <1>10, <1>11, <1>12
        DEF Cu!States, Cu!ListStates, Cu!SendStates

\* Whatever else the loop loses, what it keeps of a frame is in order and ends.
THEOREM LoopInvariance == Spec => []LoopIInv
<1>1. Init => LoopIInv
  <2> SUFFICES ASSUME Init PROVE LoopIInv
    OBVIOUS
  <2>1. state = "CU_IDLE" /\ lb_level = 0 /\ cfg[5].min_len = 0
    BY DEF Init, Cu!CuInit, Cu!ZeroCfgWord
  <2>2. LoopTypeOK
    BY <2>1, ListAssumption DEF LoopTypeOK
  <2> QED BY <2>1, <2>2 DEF LoopIInv, LoopInv, LoopbackFraming, LoopedBack, Handing, Staged,
             Cu!HdrStates, Cu!BufStates
<1>2. CommandIInv /\ SetupIInv /\ StagedIInv /\ LoopIInv /\ [Next]_vars => LoopIInv'
  <2> SUFFICES ASSUME CommandIInv, SetupIInv, StagedIInv, LoopIInv, Tick \/ UNCHANGED vars
               PROVE  LoopIInv'
    BY LoopClock DEF Next
  <2>1. UNCHANGED <<state, cb, cmd, ok, ia, cfg, tx_bytes, lb_wr, lb_level, looped>>
    BY DEF Tick, vars, cuVars, lbVars
  <2>2. /\ OnTheWire' = OnTheWire /\ LoopFrame' = LoopFrame /\ Frame(cb)' = Frame(cb)
        /\ LoopWords' = LoopWords /\ LoopedBack' = LoopedBack
    BY <2>1, WireStays, SameFrame DEF LoopWords, LbPush, lb_full, LoopedBack, Cu!Loopback
  <2>3. Words' = Words /\ EndWord' = EndWord
    BY <2>1, <2>2 DEF Words, EndWord
  <2>4. TakenInOrder(LoopWords)' = TakenInOrder(LoopWords) /\ LoopbackFraming' = LoopbackFraming
    BY <2>2, <2>3 DEF TakenInOrder, LoopbackFraming
  <2> QED BY <2>1, <2>2, <2>3, <2>4 DEF LoopIInv, LoopTypeOK, LoopInv
<1> QED BY CommandInvariance, SetupInvariance, StagingInvariance, <1>1, <1>2, PTL DEF Spec

\* "With loopback configured the frame [...] is handed straight to the receive unit"
\* (ie_cu.sv): bytes may be lost on the way, but the end never is, once and last, and
\* what is there is the frame's, in its order (CU_TX_LB_PAD, CU_TX_LB_END).
THEOREM LoopedFramesEnd == Spec => []LoopbackFraming
<1>1. LoopIInv => LoopbackFraming
  BY DEF LoopIInv, LoopInv
<1> QED BY LoopInvariance, <1>1, PTL
=============================================================================
