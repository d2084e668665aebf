---------------------------- MODULE ReceiveProof ----------------------------
(***************************************************************************)
(* The receive unit's theorems, for all frame areas, frames, depths of the *)
(* FIFO and configurations, with the unit reset, started, suspended and    *)
(* aborted at will.                                                        *)
(***************************************************************************)
EXTENDS ReceiveInv, SequenceTheorems, FiniteSetTheorems, WellFoundedInduction, TLAPS

\* The edge of the unit, by what it is doing.
LEMMA RuCases ==
  ASSUME Ru!RuEdge
  PROVE  \/ Ru!RuReset
         \/ ~core_rst /\ Ru!Abort
         \/ /\ ~core_rst /\ ru_ctl # "ABORT"
            /\ \/ Ru!Idle \/ Ru!NoResource \/ Ru!Arm \/ Ru!Ready
               \/ Ru!Take \/ Ru!Dispose \/ Ru!WriteStatus \/ Ru!NextRfd \/ Ru!Wait
BY DEF Ru!RuEdge, Ru!Aborting

LEMMA SameWords == Ru!Controls = Controls /\ Unit!Controls = Controls
BY DEF Ru!Controls, Unit!Controls, Controls

\* What the steps of a frame do to the state they are in.
LEMMA TakeSteps ==
  ASSUME Ru!Take
  PROVE  /\ state \in {"RU_POP", "RU_FLUSH", "RU_FULL_PEEK", "RU_CLOSE_FULL"}
         /\ state' \in {"RU_POP", "RU_FLUSH", "RU_DROP", "RU_FULL_PEEK",
                        "RU_CLOSE_FULL", "RU_RD_NEXT_RBD", "RU_FIN_CLOSE_RBD"}
         /\ ru_ev' = {} /\ UNCHANGED suspended
<1> USE DEF Ru!Take, Ru!Goto
<1>1. CASE Ru!PopEnd
  BY <1>1 DEF Ru!PopEnd, Ru!PopNow
<1>2. CASE Ru!PopByte
  BY <1>2 DEF Ru!PopByte, Ru!PopNow, Ru!RejectByte, Ru!HeaderByte, Ru!BufferByte
<1>3. CASE Ru!Flush \/ Ru!FullPeek \/ Ru!CloseFull
  BY <1>3 DEF Ru!Flush, Ru!FullPeek, Ru!CloseFull
<1> QED BY <1>1, <1>2, <1>3

LEMMA DisposeSteps ==
  ASSUME Ru!Dispose
  PROVE  /\ state \in {"RU_DROP", "RU_FIN_CLOSE_RBD", "RU_COUNT_ERR",
                       "RU_FIN_WR_RFD_RBD", "RU_FIN_RD_CMD"}
         /\ state' \in {"RU_COUNT_ERR", "RU_FIN_WR_RFD_RBD", "RU_READY",
                        "RU_FIN_RD_CMD", "RU_FIN_WR_STATUS"}
         /\ ru_ev' = {} /\ UNCHANGED suspended
BY DEF Ru!Dispose, Ru!Drop, Ru!CloseRbd, Ru!CountErr, Ru!LinkBuffers, Ru!Goto

-----------------------------------------------------------------------------
\* The receive unit implements its contract with the SCB handler.

LEMMA EdgeKeepsPromise ==
  ASSUME Ru!RuEdge, suspended \in BOOLEAN, ru_ctl \in Controls
  PROVE  Unit!RuEdge
<1> USE DEF rus, Ru!Rus, Ru!Goto
<1>1. CASE Ru!RuReset
  BY <1>1 DEF Ru!RuReset, Unit!RuEdge, Unit!RuReset
<1>2. CASE ~core_rst /\ Ru!Abort
  BY <1>2 DEF Ru!Abort, Ru!Aborting, Unit!RuEdge, Unit!RuAbort
<1> HIDE DEF Ru!Goto
<1>3. CASE ~core_rst /\ ru_ctl # "ABORT" /\ Ru!Idle
  <2>1. state = "RU_IDLE" /\ ru_ev' = {}
    BY <1>3 DEF Ru!Idle
  <2>2. rus' = CASE ru_ctl = "START" -> "READY"
                 [] ru_ctl = "RESUME" /\ rus # "IDLE" -> "READY"
                 [] OTHER -> rus
    BY <1>3 DEF Ru!Idle, Ru!Goto
  <2> QED BY <1>3, <2>1, <2>2 DEF Unit!RuEdge, Unit!RuControl
<1>4. CASE ~core_rst /\ ru_ctl # "ABORT" /\ Ru!NoResource
  BY <1>4 DEF Ru!NoResource, Ru!Goto, Unit!RuEdge, Unit!RuControl
<1>5. CASE ~core_rst /\ ru_ctl # "ABORT" /\ Ru!Arm
  BY <1>5 DEF Ru!Arm, Ru!Goto, Unit!RuEdge, Unit!RuReceive, Unit!RuStarve
<1>6. CASE ~core_rst /\ ru_ctl # "ABORT" /\ Ru!Ready
  BY <1>6 DEF Ru!Ready, Ru!Goto, Unit!RuEdge, Unit!RuReceive
<1>7. CASE ~core_rst /\ ru_ctl # "ABORT" /\ (Ru!Take \/ Ru!Dispose)
  BY <1>7, TakeSteps, DisposeSteps DEF Unit!RuEdge, Unit!RuReceive
<1>8. CASE ~core_rst /\ ru_ctl # "ABORT" /\ (Ru!WriteStatus \/ Ru!NextRfd)
  BY <1>8 DEF Ru!WriteStatus, Ru!Filed, Ru!NextRfd, Ru!Goto, Unit!RuEdge,
     Unit!RuReceive, Unit!RuStop
<1>9. CASE ~core_rst /\ ru_ctl # "ABORT" /\ Ru!Wait
  <2>1. state \notin {"RU_IDLE", "RU_NO_RESOURCE"} /\ state' = state /\ ru_ev' = {}
    BY <1>9 DEF Ru!Wait, Ru!AckStates, Ru!ArmStates, Ru!FileStates
  <2> QED BY <1>9, <2>1 DEF Unit!RuEdge, Unit!RuReceive
<1> QED BY RuCases, <1>1, <1>2, <1>3, <1>4, <1>5, <1>6, <1>7, <1>8, <1>9

-----------------------------------------------------------------------------
\* The FIFO.

LEMMA ComingTyped ==
  ASSUME NEW w \in [of : Frames, n : Nat], NEW c \in NextComing(w.of, w.n)
  PROVE  c \in [of : Frames, n : Nat] /\ (w.n = Fr[w.of].len => c.n = 0)
BY DEF NextComing

LEMMA WordTyped ==
  ASSUME NEW c \in [of : Frames, n : Nat]
  PROVE  /\ Word(c.of, c.n) \in Words /\ Word(c.of, c.n).byte = c
         /\ Word(c.of, c.n).end = (c.n = Fr[c.of].len)
<1>1. Fr[c.of] \in [len : Nat, dst : STRING, err : SUBSET {"bad", "dribble", "overrun"}]
  BY FramesAssumption
<1> QED BY <1>1 DEF Word, Words

\* What is left when a word is read.
LEMMA LeftSteps ==
  ASSUME ReceiveTypeOK, FifoInv
  PROVE  /\ Left \in Seq(Words)
         /\ Ru!RxRd => /\ fifo # <<>> /\ Len(Left) = Len(fifo) - 1
                       /\ \A i \in 1..Len(Left) : Left[i] = fifo[i + 1]
         /\ ~Ru!RxRd => Left = fifo
         /\ \A i \in 1..Len(Left) : Left[i].end = (Left[i].byte.n = Fr[Left[i].byte.of].len)
         /\ \A i \in 1..Len(Left) : i < Len(Left) => Left[i + 1].byte \in Follows(Left[i])
         /\ Left # <<>> => coming \in Follows(Left[Len(Left)])
<1> USE DEF ReceiveTypeOK, FifoInv
<1>1. CASE ~Ru!RxRd
  BY <1>1 DEF Left
<1>2. CASE Ru!RxRd
  <2>1. fifo # <<>>
    BY <1>2 DEF Ru!RxRd, Ru!PopNow, rx_empty
  <2>2. /\ Left \in Seq(Words) /\ Len(Left) = Len(fifo) - 1
        /\ \A i \in 1..Len(Left) : Left[i] = fifo[i + 1]
    BY <1>2, <2>1, HeadTailProperties DEF Left
  <2>3. \A i \in 1..Len(Left) : i + 1 \in 1..Len(fifo) /\ i \in Nat
    BY <2>2, LenProperties
  <2>4. \A i \in 1..Len(Left) : i < Len(Left) => Left[i + 1].byte \in Follows(Left[i])
    <3> SUFFICES ASSUME NEW i \in 1..Len(Left), i < Len(Left)
                 PROVE  Left[i + 1].byte \in Follows(Left[i])
      OBVIOUS
    <3>1. i + 1 \in 1..Len(Left) /\ i + 1 \in 1..Len(fifo) /\ i + 1 < Len(fifo)
      BY <2>2, <2>3, LenProperties
    <3>2. Left[i] = fifo[i + 1] /\ Left[i + 1] = fifo[(i + 1) + 1]
      BY <2>2, <3>1
    <3> QED BY <3>1, <3>2
  <2>5. Left # <<>> => Left[Len(Left)] = fifo[Len(fifo)]
    <3>1. Left # <<>> => Len(Left) \in 1..Len(Left)
      BY <2>2, EmptySeq, LenProperties
    <3>2. (Len(fifo) - 1) + 1 = Len(fifo)
      BY LenProperties
    <3> QED BY <2>2, <3>1, <3>2
  <2> QED BY <1>2, <2>1, <2>2, <2>3, <2>4, <2>5
<1> QED BY <1>1, <1>2

LEMMA NextLeft ==
  ASSUME ReceiveTypeOK, FifoInv
  PROVE  LET next == IF Left = <<>> THEN coming ELSE Left[1].byte
         IN  IF Ru!RxRd THEN next \in Follows(fifo[1]) ELSE next = Upcoming
<1>1. CASE ~Ru!RxRd
  BY <1>1, LeftSteps DEF Upcoming
<1>2. CASE Ru!RxRd
  <2>1. /\ fifo # <<>> /\ Len(Left) = Len(fifo) - 1 /\ Left \in Seq(Words)
        /\ \A i \in 1..Len(Left) : Left[i] = fifo[i + 1]
    BY <1>2, LeftSteps
  <2>2. fifo \in Seq(Words) /\ Len(fifo) \in Nat \ {0} /\ Len(Left) \in Nat
    BY <2>1, EmptySeq, LenProperties DEF ReceiveTypeOK
  <2>3. CASE Left = <<>>
    <3>1. Len(fifo) = 1
      BY <2>1, <2>2, <2>3, EmptySeq
    <3> QED BY <1>2, <2>1, <2>3, <3>1 DEF FifoInv
  <2>4. CASE Left # <<>>
    <3>1. 1 \in 1..Len(Left) /\ 1 \in 1..Len(fifo) /\ 1 < Len(fifo)
      BY <2>1, <2>2, <2>4, EmptySeq
    <3>2. Left[1] = fifo[1 + 1]
      BY <2>1, <3>1
    <3>3. fifo[1 + 1].byte \in Follows(fifo[1])
      BY <3>1 DEF FifoInv
    <3> QED BY <1>2, <2>4, <3>2, <3>3
  <2> QED BY <2>3, <2>4
<1> QED BY <1>1, <1>2

\* On an edge the FIFO stays in order, and what comes next is what came next
\* before or, if a word was read, what follows that word.
LEMMA FifoSteps ==
  ASSUME ReceiveTypeOK, FifoInv, RxEdge
  PROVE  /\ fifo' \in Seq(Words) /\ coming' \in [of : Frames, n : Nat]
         /\ FifoInv'
         /\ core_rst => Upcoming'.n = 0
         /\ ~core_rst /\ Ru!RxRd => Upcoming' \in Follows(fifo[1])
         /\ ~core_rst /\ ~Ru!RxRd => Upcoming' = Upcoming
<1>1. CASE core_rst
  BY <1>1 DEF RxEdge, FifoInv, Upcoming
<1>2. CASE ~core_rst /\ NoArrival
  <2>1. fifo' = Left /\ coming' = coming
    BY <1>2 DEF NoArrival
  <2>2. FifoInv'
    BY <2>1, LeftSteps DEF FifoInv, Follows
  <2>3. fifo' \in Seq(Words) /\ coming' \in [of : Frames, n : Nat]
    BY <2>1, LeftSteps DEF ReceiveTypeOK
  <2>4. Upcoming' = IF Left = <<>> THEN coming ELSE Left[1].byte
    BY <2>1 DEF Upcoming
  <2> QED BY <1>2, <2>2, <2>3, <2>4, NextLeft DEF Upcoming
<1>3. CASE ~core_rst /\ Arrive
  <2> DEFINE w == Word(coming.of, coming.n)
  <2>1. fifo' = Append(Left, w) /\ coming' \in NextComing(coming.of, coming.n)
    BY <1>3 DEF Arrive
  <2>2. /\ w \in Words /\ w.byte = coming
        /\ w.end = (w.byte.n = Fr[w.byte.of].len)
    BY WordTyped DEF ReceiveTypeOK
  <2> HIDE DEF w
  <2>3. coming' \in [of : Frames, n : Nat] /\ coming' \in Follows(w)
    BY <2>1, <2>2, ComingTyped DEF ReceiveTypeOK, Follows
  <2>4. Left \in Seq(Words) /\ Len(Left) \in Nat
    BY LeftSteps, LenProperties
  <2>5. /\ fifo' \in Seq(Words) /\ fifo' # <<>> /\ Len(fifo') = Len(Left) + 1
        /\ \A i \in 1..Len(Left) : fifo'[i] = Left[i]
        /\ fifo'[Len(Left) + 1] = w
    BY <2>1, <2>2, <2>4, AppendProperties
  <2>6. \A i \in 1..Len(fifo') : fifo'[i].end = (fifo'[i].byte.n = Fr[fifo'[i].byte.of].len)
    <3> SUFFICES ASSUME NEW i \in 1..Len(fifo')
                 PROVE  fifo'[i].end = (fifo'[i].byte.n = Fr[fifo'[i].byte.of].len)
      OBVIOUS
    <3>1. CASE i = Len(Left) + 1
      BY <2>2, <2>5, <3>1
    <3>2. CASE i \in 1..Len(Left)
      BY <2>5, <3>2, LeftSteps
    <3> QED BY <2>4, <2>5, <3>1, <3>2
  <2>7. \A i \in 1..Len(fifo') : i < Len(fifo') => fifo'[i + 1].byte \in Follows(fifo'[i])
    <3> SUFFICES ASSUME NEW i \in 1..Len(fifo'), i < Len(fifo')
                 PROVE  fifo'[i + 1].byte \in Follows(fifo'[i])
      OBVIOUS
    <3>1. i \in 1..Len(Left) /\ fifo'[i] = Left[i]
      BY <2>4, <2>5
    <3>2. CASE i = Len(Left)
      <4>1. Left # <<>>
        BY <2>4, <3>1, EmptySeq
      <4>2. coming \in Follows(Left[i])
        BY <3>2, <4>1, LeftSteps
      <4> QED BY <2>2, <2>5, <3>1, <3>2, <4>2
    <3>3. CASE i < Len(Left)
      <4>1. i + 1 \in 1..Len(Left)
        BY <2>4, <3>1, <3>3
      <4> QED BY <2>5, <3>1, <3>3, <4>1, LeftSteps
    <3> QED BY <2>4, <3>1, <3>2, <3>3
  <2>8. FifoInv'
    BY <2>3, <2>5, <2>6, <2>7 DEF FifoInv, Follows
  <2>9. Upcoming' = IF Left = <<>> THEN coming ELSE Left[1].byte
    <3>1. CASE Left = <<>>
      BY <2>2, <2>5, <3>1, EmptySeq DEF Upcoming
    <3>2. CASE Left # <<>>
      <4>1. 1 \in 1..Len(Left)
        BY <2>4, <3>2, EmptySeq
      <4> QED BY <2>5, <3>2, <4>1 DEF Upcoming
    <3> QED BY <3>1, <3>2
  <2> QED BY <1>3, <2>3, <2>5, <2>8, <2>9, NextLeft
<1> QED BY <1>1, <1>2, <1>3 DEF RxEdge

-----------------------------------------------------------------------------
\* What the history records on an edge that is neither a reset nor an abort.
LEMMA HistorySteps ==
  ASSUME ReceiveTypeOK, DoneInv, History, ~core_rst, ru_ctl # "ABORT"
  PROVE  /\ cut' = cut /\ outcome' \in Seq(Fates)
         /\ cut => outcome' = <<>>
         /\ state \notin {"RU_READY", "RU_COUNT_ERR", "RU_FIN_WR_STATUS"}
              => outcome' = outcome
         /\ state \in {"RU_READY", "RU_COUNT_ERR", "RU_FIN_WR_STATUS"}
            /\ (IF state = "RU_READY" THEN rx_empty ELSE ~bus_ack)
              => outcome' = outcome
         /\ state = "RU_FIN_WR_STATUS" /\ bus_ack => Done'
<1> USE DEF ReceiveTypeOK, DoneInv, History, FrameHistory, Forget, Begins
<1>1. cut' = cut
  OBVIOUS
<1>2. CASE cut
  BY <1>1, <1>2, EmptySeq DEF Done
<1>3. CASE ~cut
  <2>1. Ru!WhichErr \in Fates
    BY DEF Ru!WhichErr, Ru!CounterOf, Ru!Counters, Fates
  <2>2. \A f \in Fates : /\ Append(outcome, f) \in Seq(Fates)
                         /\ Append(outcome, f)[Len(Append(outcome, f))] = f
    BY AppendProperties
  <2>3. <<>> \in Seq(Fates) /\ "FILED" \in Fates
    BY EmptySeq DEF Fates
  <2> QED BY <1>1, <1>3, <2>1, <2>2, <2>3 DEF Done
<1> QED BY <1>2, <1>3

\* A reset or an abort leaves no frame in hand that is followed further.
LEMMA ForgetSteps ==
  ASSUME ReceiveIInv, History, Ru!RuReset \/ (~core_rst /\ Ru!Abort)
  PROVE  /\ FrameInv' /\ GatherInv' /\ RewindInv' /\ DoneInv' /\ Rewound'
         /\ outcome' \in Seq(Fates) /\ cut' \in BOOLEAN
<1>1. state' = "RU_IDLE" /\ outcome' = <<>>
  BY DEF Ru!RuReset, Ru!Abort, Ru!Aborting, Ru!Goto, History, FrameHistory, Forget
<1>2. ~cut' => ~in_frame'
  <2>1. CASE Ru!RuReset
    BY <2>1 DEF Ru!RuReset
  <2>2. CASE ~core_rst /\ Ru!Abort
    BY <2>2 DEF Ru!Abort, Ru!Aborting, Ru!frameVars, History, ReceiveIInv, ReceiveTypeOK
  <2> QED BY <2>1, <2>2
<1>3. cut' \in BOOLEAN
  BY DEF History, ReceiveIInv, ReceiveTypeOK
<1>4. outcome' \in Seq(Fates)
  BY <1>1, EmptySeq
<1> QED
  BY <1>1, <1>2, <1>3, <1>4 DEF FrameInv, Amid, GatherInv, Ru!FileStates, RewindInv,
     DoneInv, Done, Between, Rewound

-----------------------------------------------------------------------------
\* The parts of the invariant that say where the unit is with a frame, action
\* by action.
UnitInv == FrameInv /\ GatherInv /\ RewindInv /\ DoneInv /\ Rewound

LEMMA ArmKeeps ==
  ASSUME ReceiveIInv, History, ~core_rst, ru_ctl # "ABORT",
         Ru!Idle \/ Ru!NoResource \/ Ru!Arm \/ Ru!NextRfd
  PROVE  UnitInv'
<1> USE DEF Ru!Goto
<1>1. /\ state \in {"RU_IDLE", "RU_NO_RESOURCE", "RU_RD_RFD_RBD", "RU_FIN_RD_LINK"} \cup Between
      /\ state' \in {"RU_IDLE", "RU_NO_RESOURCE", "RU_RD_RFD_RBD", "RU_POP", "RU_READY"}
                       \cup Between
      /\ state' \in Between => state \in Between \cup {"RU_RD_RFD_RBD", "RU_FIN_RD_LINK"}
      /\ state' \in {"RU_IDLE", "RU_NO_RESOURCE", "RU_RD_RFD_RBD"} => state \notin Between
      /\ state' = "RU_POP" => state \in Between /\ in_frame
      /\ state' = "RU_READY" => state \in Between /\ ~in_frame
      /\ UNCHANGED in_frame
  BY DEF ReceiveIInv, ReceiveTypeOK, Ru!Idle, Ru!NoResource, Ru!Arm, Ru!NextRfd, Between,
       Ru!frameVars
<1>2. cut' = cut /\ outcome' = outcome
  BY <1>1, HistorySteps DEF ReceiveIInv, Between
<1>3. FrameInv'
  BY <1>1, <1>2 DEF ReceiveIInv, FrameInv, Amid, Apart, Resting, Between, Ru!FileStates
<1>4. GatherInv' /\ RewindInv'
  BY <1>1 DEF GatherInv, RewindInv, Between, Ru!FileStates
<1>5. DoneInv' /\ Rewound'
  <2>1. ~cut /\ state \notin Between => ~in_frame
    BY <1>1 DEF ReceiveIInv, FrameInv, Apart, Resting, Ru!FileStates
  <2>2. cut => Done
    BY DEF ReceiveIInv, DoneInv, Done
  <2>3. ~in_frame \/ cut => Done
    BY <1>1, <2>2 DEF ReceiveIInv, DoneInv
  <2>4. Done' <=> Done
    BY <1>2 DEF Done
  <2>5. state' # "RU_POP" => (in_frame \/ Done) /\ (state' \notin Between => Done)
    BY <1>1, <2>1, <2>2, <2>3
  <2>6. DoneInv'
    BY <1>1, <1>2, <2>4, <2>5 DEF ReceiveIInv, DoneInv, Between
  <2>7. Rewound'
    BY <1>1, <2>4, <2>5 DEF Rewound, Done, Between
  <2> QED BY <2>6, <2>7
<1> QED BY <1>3, <1>4, <1>5 DEF UnitInv

LEMMA WaitKeeps ==
  ASSUME ReceiveIInv, History, ~core_rst, ru_ctl # "ABORT", Ru!Wait
  PROVE  UnitInv'
<1>1. UNCHANGED <<state, in_frame, flush_to_end, count_then_file, acc, bd, buf_off, frame_bd>>
  BY DEF Ru!Wait, Ru!bufVars, Ru!frameVars, Ru!pathVars
<1>2. cut' = cut /\ outcome' = outcome
  BY HistorySteps DEF ReceiveIInv, Ru!Wait, Ru!AckStates, Ru!ArmStates, Ru!FileStates
<1> QED
  BY <1>1, <1>2 DEF ReceiveIInv, UnitInv, FrameInv, GatherInv, RewindInv, DoneInv, Done,
     Rewound, Ru!AccDirty

LEMMA ReadyKeeps ==
  ASSUME ReceiveIInv, History, ~core_rst, ru_ctl # "ABORT", Ru!Ready
  PROVE  UnitInv'
<1>1. state = "RU_READY" /\ state' = "RU_POP" /\ in_frame' = TRUE
  BY DEF Ru!Ready, Ru!Goto
<1>2. cut' = cut /\ (cut => outcome' = <<>>)
  BY HistorySteps DEF ReceiveIInv
<1> QED
  BY <1>1, <1>2 DEF UnitInv, FrameInv, Amid, Apart, Resting, Ru!FileStates, GatherInv,
       RewindInv,
     DoneInv, Between, Rewound

LEMMA TakeKeeps ==
  ASSUME ReceiveIInv, History, ~core_rst, ru_ctl # "ABORT", Ru!Take
  PROVE  UnitInv'
<1> USE DEF Ru!Goto
<1>1. cut' = cut /\ outcome' = outcome
  BY TakeSteps, HistorySteps DEF ReceiveIInv
<1>2. FrameInv'
  <2>1. CASE Ru!PopEnd
    BY <1>1, <2>1 DEF Ru!PopEnd, Ru!TakeEnd, FrameInv, Amid, Apart, Resting, Ru!FileStates
  <2>2. CASE Ru!PopByte
    <3>1. state = "RU_POP" /\ UNCHANGED in_frame
      BY <2>2 DEF Ru!PopByte, Ru!PopNow
    <3>2. \/ state' = "RU_DROP"
          \/ state' = "RU_POP"
          \/ state' = "RU_FLUSH" /\ flush_to_end' = FALSE
      BY <2>2, <3>1 DEF Ru!PopByte, Ru!RejectByte, Ru!HeaderByte, Ru!BufferByte
    <3> QED BY <1>1, <3>1, <3>2 DEF ReceiveIInv, FrameInv, Amid, Apart, Resting, Ru!FileStates
  <2>3. CASE Ru!Flush
    BY <1>1, <2>3 DEF ReceiveIInv, ReceiveTypeOK, Ru!Flush, Ru!frameVars, FrameInv, Amid,
         Apart, Resting,
       Ru!FileStates
  <2>4. CASE Ru!FullPeek \/ Ru!CloseFull
    BY <1>1, <2>4 DEF ReceiveIInv, Ru!FullPeek, Ru!CloseFull, Ru!TakeEnd, FrameInv, Amid,
         Apart,
       Resting, Ru!FileStates
  <2> QED BY <2>1, <2>2, <2>3, <2>4 DEF Ru!Take
<1>3. GatherInv'
  <2>1. CASE Ru!PopEnd \/ Ru!PopByte
    <3>1. state' \in {"RU_POP", "RU_FLUSH"} \/ (state' = "RU_DROP" /\ acc' = Ru!NoAcc)
      BY <2>1 DEF Ru!PopEnd, Ru!PopByte, Ru!PopNow, Ru!RejectByte, Ru!HeaderByte, Ru!BufferByte
    <3> QED BY <3>1 DEF GatherInv, Ru!FileStates, Ru!AccDirty, Ru!NoAcc
  <2>2. CASE Ru!Flush
    BY <2>2 DEF Ru!Flush, GatherInv, Ru!FileStates, Ru!AccDirty
  <2>3. CASE Ru!FullPeek \/ Ru!CloseFull
    BY <2>3 DEF ReceiveIInv, Ru!FullPeek, Ru!CloseFull, GatherInv, Ru!FileStates, Ru!AccDirty
  <2> QED BY <2>1, <2>2, <2>3 DEF Ru!Take
<1>4. RewindInv' /\ Rewound'
  BY TakeSteps DEF RewindInv, Rewound
<1>5. DoneInv'
  <2>1. state' \in Between => state = "RU_CLOSE_FULL" /\ UNCHANGED in_frame
    BY DEF Ru!Take, Ru!PopEnd, Ru!PopByte, Ru!PopNow, Ru!RejectByte, Ru!HeaderByte,
       Ru!BufferByte, Ru!Flush, Ru!FullPeek, Ru!CloseFull, Between
  <2>2. state' \in Between => cut \/ in_frame'
    BY <2>1 DEF ReceiveIInv, FrameInv, Amid
  <2> QED BY <1>1, <2>2, TakeSteps DEF ReceiveIInv, DoneInv, Done
<1> QED BY <1>2, <1>3, <1>4, <1>5 DEF UnitInv

LEMMA DisposeKeeps ==
  ASSUME ReceiveIInv, History, ~core_rst, ru_ctl # "ABORT", Ru!Dispose \/ Ru!WriteStatus
  PROVE  UnitInv'
<1> USE DEF Ru!Goto
<1>1. cut' = cut /\ (cut => outcome' = <<>>)
  BY HistorySteps DEF ReceiveIInv
<1>2. /\ state \in Ru!FileStates \cup {"RU_DROP", "RU_COUNT_ERR"}
      /\ state' \in Ru!FileStates \cup {"RU_COUNT_ERR", "RU_READY"}
      /\ UNCHANGED acc
      /\ in_frame' = FALSE \/ (state # "RU_DROP" /\ UNCHANGED in_frame)
  BY DEF Ru!Dispose, Ru!Drop, Ru!CloseRbd, Ru!CountErr, Ru!LinkBuffers, Ru!WriteStatus,
     Ru!Filed, Ru!FileStates, Ru!frameVars
<1>3. FrameInv'
  BY <1>1, <1>2 DEF ReceiveIInv, FrameInv, Amid, Apart, Resting, Ru!FileStates
<1>4. GatherInv'
  BY <1>2 DEF ReceiveIInv, GatherInv, Ru!AccDirty
<1>5. RewindInv'
  BY DEF ReceiveIInv, RewindInv, Ru!Dispose, Ru!Drop, Ru!CloseRbd, Ru!Rewind, Ru!CountErr,
     Ru!LinkBuffers, Ru!WriteStatus, Ru!Filed
<1>6. DoneInv'
  <2>1. state' = "RU_FIN_RD_LINK" => state = "RU_FIN_WR_STATUS" /\ bus_ack
    BY DEF Ru!Dispose, Ru!Drop, Ru!CloseRbd, Ru!CountErr, Ru!LinkBuffers, Ru!WriteStatus,
         Ru!Filed
  <2>2. state' = "RU_FIN_RD_LINK" => Done'
    BY <2>1, HistorySteps DEF ReceiveIInv
  <2> QED BY <1>1, <1>2, <2>2 DEF DoneInv, Between, Ru!FileStates
<1>7. Rewound'
  <2> SUFFICES ASSUME state' = "RU_READY"
               PROVE  Rewound'
    BY DEF Rewound
  <2>1. state = "RU_COUNT_ERR" /\ ~count_then_file /\ UNCHANGED <<bd, buf_off, frame_bd>>
    BY DEF ReceiveIInv, ReceiveTypeOK, Ru!Dispose, Ru!Drop, Ru!CloseRbd, Ru!CountErr,
       Ru!LinkBuffers, Ru!WriteStatus, Ru!bufVars
  <2> QED BY <1>2, <2>1 DEF ReceiveIInv, RewindInv, GatherInv, Rewound, Ru!AccDirty
<1> QED BY <1>3, <1>4, <1>5, <1>6, <1>7 DEF UnitInv

LEMMA UnitKeeps ==
  ASSUME ReceiveIInv, Clock
  PROVE  UnitInv'
<1>1. Ru!RuEdge /\ History
  BY DEF Clock
<1> QED
  BY <1>1, RuCases, ForgetSteps, ArmKeeps, ReadyKeeps, TakeKeeps, DisposeKeeps, WaitKeeps
     DEF UnitInv

-----------------------------------------------------------------------------
\* Types.

LEMMA TakeTypes ==
  ASSUME ReceiveTypeOK, Ru!Take
  PROVE  {in_frame', count_then_file', flush_to_end'} \subseteq BOOLEAN
<1> USE DEF ReceiveTypeOK, Ru!Take, Ru!frameVars
<1>1. CASE Ru!PopEnd
  BY <1>1 DEF Ru!PopEnd, Ru!TakeEnd
<1>2. CASE Ru!PopByte
  <2>1. flush_to_end' = flush_to_end \/ flush_to_end' = FALSE
    BY <1>2 DEF Ru!PopByte, Ru!RejectByte, Ru!HeaderByte, Ru!BufferByte
  <2>2. UNCHANGED <<in_frame, count_then_file>>
    BY <1>2 DEF Ru!PopByte
  <2> QED BY <2>1, <2>2
<1>3. CASE Ru!Flush \/ Ru!FullPeek \/ Ru!CloseFull
  BY <1>3 DEF Ru!Flush, Ru!FullPeek, Ru!CloseFull, Ru!TakeEnd
<1> QED BY <1>1, <1>2, <1>3

LEMMA UnitTypes ==
  ASSUME ReceiveTypeOK, Ru!RuEdge
  PROVE  /\ state' \in Ru!States
         /\ {suspended', in_frame', count_then_file', flush_to_end'} \subseteq BOOLEAN
<1> USE DEF ReceiveTypeOK, Ru!Goto, Ru!frameVars, Ru!pathVars, Ru!States, Ru!ArmStates,
            Ru!TakeStates, Ru!FileStates
<1>1. CASE Ru!RuReset \/ (~core_rst /\ Ru!Abort)
  BY <1>1 DEF Ru!RuReset, Ru!Abort
<1>2. CASE Ru!Idle \/ Ru!NoResource
  BY <1>2 DEF Ru!Idle, Ru!NoResource
<1>3. CASE Ru!Arm \/ Ru!Ready
  <2>1. UNCHANGED <<suspended, count_then_file, flush_to_end>>
    BY <1>3 DEF Ru!Arm, Ru!Ready
  <2>2. in_frame' = in_frame \/ in_frame' = TRUE
    BY <1>3 DEF Ru!Arm, Ru!Ready
  <2>3. state' \in Ru!States
    BY <1>3 DEF Ru!Arm, Ru!Ready
  <2> QED BY <2>1, <2>2, <2>3
<1>4. CASE Ru!Take
  BY <1>4, TakeSteps, TakeTypes
<1>5. CASE Ru!Dispose
  <2>1. {in_frame', count_then_file'} \subseteq BOOLEAN
    BY <1>5 DEF Ru!Dispose, Ru!Drop, Ru!CloseRbd, Ru!CountErr, Ru!LinkBuffers
  <2>2. UNCHANGED flush_to_end
    BY <1>5 DEF Ru!Dispose
  <2> QED BY <1>5, <2>1, <2>2, DisposeSteps
<1>6. CASE Ru!WriteStatus \/ Ru!NextRfd \/ Ru!Wait
  BY <1>6 DEF Ru!WriteStatus, Ru!NextRfd, Ru!Wait
<1> QED BY RuCases, <1>1, <1>2, <1>3, <1>4, <1>5, <1>6

LEMMA TypeKeeps ==
  ASSUME ReceiveIInv, Clock
  PROVE  ReceiveTypeOK'
<1> USE DEF ReceiveIInv, Clock
<1>1. /\ state' \in Ru!States
      /\ {suspended', in_frame', count_then_file', flush_to_end'} \subseteq BOOLEAN
  BY UnitTypes
<1>2. fifo' \in Seq(Words) /\ coming' \in [of : Frames, n : Nat]
  BY FifoSteps
<1>3. ru_ctl' \in Controls
  <2>1. "NOP" \in Controls /\ Pulses \subseteq Controls
    BY AreaAssumption DEF Controls
  <2> QED BY <2>1 DEF ControlEdge, CoreEdge
<1>4. outcome' \in Seq(Fates) /\ cut' \in BOOLEAN
  <2>1. CASE Ru!RuReset \/ (~core_rst /\ Ru!Abort)
    BY <2>1, ForgetSteps
  <2>2. CASE ~core_rst /\ ru_ctl # "ABORT"
    BY <2>2, HistorySteps DEF ReceiveTypeOK
  <2> QED BY <2>1, <2>2, RuCases
<1> QED BY <1>1, <1>2, <1>3, <1>4 DEF ReceiveTypeOK

-----------------------------------------------------------------------------
\* Frames do not run together.

\* A unit that ends an edge with no frame in hand, not cut off from one, had
\* none and read nothing, or has just read a frame's end.
LEMMA EndSteps ==
  ASSUME ReceiveIInv, Clock, ~core_rst, ~in_frame', ~cut'
  PROVE  ~cut /\ ((~in_frame /\ ~Ru!RxRd) \/ (Ru!RxRd /\ rx_data.end))
<1>1. ~cut /\ Ru!RuEdge
  BY DEF Clock, History
<1>2. CASE in_frame
  <2>1. ru_ctl # "ABORT"
    BY <1>1, <1>2 DEF Clock, History
  <2>2. Ru!PopEnd \/ Ru!FullPeek \/ Ru!Drop
    <3>1. CASE Ru!Take
      <4>1. Ru!PopByte \/ Ru!Flush \/ Ru!CloseFull => UNCHANGED in_frame
        BY DEF Ru!PopByte, Ru!Flush, Ru!CloseFull, Ru!frameVars
      <4> QED BY <1>2, <3>1, <4>1 DEF Ru!Take
    <3>2. CASE Ru!Dispose
      BY <1>2, <3>2 DEF Ru!Dispose, Ru!CloseRbd, Ru!CountErr, Ru!LinkBuffers, Ru!frameVars
    <3>3. CASE ~(Ru!Take \/ Ru!Dispose)
      <4>1. ~Ru!RuReset /\ ~Ru!Abort
        BY <2>1 DEF Ru!RuReset, Ru!Abort, Ru!Aborting
      <4>2. Ru!Idle \/ Ru!NoResource \/ Ru!Arm \/ Ru!WriteStatus \/ Ru!NextRfd \/ Ru!Wait
              => UNCHANGED in_frame
        BY DEF Ru!Idle, Ru!NoResource, Ru!Arm, Ru!WriteStatus, Ru!NextRfd, Ru!Wait,
             Ru!frameVars
      <4>3. Ru!Ready => in_frame' = TRUE
        BY DEF Ru!Ready
      <4> QED BY <1>1, <1>2, <3>3, <4>1, <4>2, <4>3, RuCases
    <3> QED BY <3>1, <3>2, <3>3
  <2> QED
    BY <1>1, <1>2, <2>2 DEF Ru!PopEnd, Ru!PopNow, Ru!FullPeek, Ru!OverToo, Ru!Drop, Ru!RxRd
<1>3. CASE ~in_frame
  BY <1>1, <1>3 DEF ReceiveIInv, FrameInv, Amid, Ru!RxRd, Ru!PopNow
<1> QED BY <1>2, <1>3

LEMMA BoundaryKeeps ==
  ASSUME ReceiveIInv, Clock
  PROVE  BoundaryInv'
<1> SUFFICES ASSUME ~in_frame', ~cut'
             PROVE  Upcoming'.n = 0
  BY DEF BoundaryInv
<1> USE DEF ReceiveIInv, Clock
<1>1. CASE core_rst
  BY <1>1, FifoSteps
<1>2. CASE ~core_rst /\ ~Ru!RxRd
  BY <1>2, EndSteps, FifoSteps DEF BoundaryInv
<1>3. CASE ~core_rst /\ Ru!RxRd
  <2>1. rx_data.end /\ Upcoming' \in Follows(fifo[1]) /\ fifo # <<>>
    BY <1>3, EndSteps, FifoSteps, LeftSteps
  <2>2. rx_data = fifo[1] /\ 1 \in 1..Len(fifo) /\ fifo[1].byte \in [of : Frames, n : Nat]
    <3>1. 1 \in 1..Len(fifo)
      BY <2>1, EmptySeq DEF ReceiveTypeOK
    <3>2. fifo[1] \in Words
      BY <3>1, LenProperties DEF ReceiveTypeOK
    <3> QED BY <3>1, <3>2 DEF rx_data, Words
  <2>3. fifo[1].byte.n = Fr[fifo[1].byte.of].len
    BY <2>1, <2>2 DEF FifoInv
  <2> QED BY <2>1, <2>2, <2>3, ComingTyped DEF Follows
<1> QED BY <1>1, <1>2, <1>3

-----------------------------------------------------------------------------
\* The theorems.

LEMMA InitInv == Init => ReceiveIInv
<1> SUFFICES ASSUME Init
             PROVE  ReceiveIInv
  OBVIOUS
<1> USE DEF Init, Ru!RuInit
<1>1. ReceiveTypeOK
  <2>1. fifo \in Seq(Words) /\ outcome \in Seq(Fates)
    BY EmptySeq
  <2>2. coming \in [of : Frames, n : Nat]
    OBVIOUS
  <2>3. state \in Ru!States /\ ru_ctl \in Controls
    BY DEF Ru!States, Controls
  <2> QED BY <2>1, <2>2, <2>3 DEF ReceiveTypeOK
<1>2. FrameInv /\ GatherInv /\ RewindInv /\ DoneInv /\ Rewound
  BY DEF FrameInv, Amid, GatherInv, Ru!FileStates, RewindInv, DoneInv, Done, Between, Rewound
<1>3. FifoInv /\ BoundaryInv
  BY EmptySeq DEF FifoInv, BoundaryInv, Upcoming
<1> QED BY <1>1, <1>2, <1>3 DEF ReceiveIInv

LEMMA StutterInv ==
  ASSUME ReceiveIInv, UNCHANGED vars
  PROVE  ReceiveIInv'
<1>1. UNCHANGED <<ruVars, ctlVars, rxVars, histVars>>
  BY DEF vars
<1> QED
  BY <1>1 DEF ruVars, ctlVars, rxVars, histVars, ReceiveIInv, ReceiveTypeOK, FrameInv, FifoInv,
     Follows, BoundaryInv, Upcoming, GatherInv, RewindInv, DoneInv, Done, Rewound, Ru!AccDirty

LEMMA ReceiveStep ==
  ASSUME ReceiveIInv, Clock
  PROVE  ReceiveIInv'
<1>1. FifoInv'
  BY FifoSteps DEF Clock, ReceiveIInv
<1> QED BY <1>1, UnitKeeps, TypeKeeps, BoundaryKeeps DEF ReceiveIInv, UnitInv

\* The inductive invariant: where the unit is with a frame, what the FIFO holds
\* next, and what a dropped frame has left behind (the whole of ie_ru's edge).
THEOREM ReceiveInvariance == Spec => []ReceiveIInv
<1>1. ReceiveIInv /\ [Next]_vars => ReceiveIInv'
  <2> SUFFICES ASSUME ReceiveIInv, [Next]_vars
               PROVE  ReceiveIInv'
    OBVIOUS
  <2>1. CASE Clock
    BY <2>1, ReceiveStep
  <2>2. CASE UNCHANGED vars
    BY <2>2, StutterInv
  <2> QED BY <2>1, <2>2 DEF Next
<1> QED BY InitInv, <1>1, PTL DEF Spec

\* Frames do not run together, whatever the depth of the FIFO and the lengths of
\* the frames: ie_ru reads each frame to its end word and never beyond.
THEOREM FramesKeptApart == Spec => []Boundaries
<1>1. ReceiveIInv => Boundaries
  <2> SUFFICES ASSUME ReceiveIInv, state = "RU_READY", ~rx_empty, ~cut
               PROVE  rx_data.byte.n = 0
    BY DEF Boundaries
  <2>1. ~in_frame
    BY DEF ReceiveIInv, FrameInv, Apart, Resting
  <2> QED BY <2>1 DEF ReceiveIInv, BoundaryInv, Upcoming, rx_data, rx_empty
<1> QED BY ReceiveInvariance, <1>1, PTL

\* A frame that is dropped gives its buffers back, whatever the buffer list and
\* wherever in it the frame was found wanting (RU_DROP, RU_FIN_CLOSE_RBD).
THEOREM DroppedLeavesNothing == Spec => []Rewound
<1>1. ReceiveIInv => Rewound
  BY DEF ReceiveIInv
<1> QED BY ReceiveInvariance, <1>1, PTL

\* The receive unit is what the SCB handler is told it is.
THEOREM UnitPromiseKept == Spec => UnitPromise
<1>1. Init => Unit!RuInit
  BY DEF Init, Ru!RuInit, Unit!RuInit, rus, Ru!Rus
<1>2. ReceiveIInv /\ [Next]_vars => [Unit!RuEdge]_<<core_rst, ru_ctl, rus, ru_ev>>
  <2> SUFFICES ASSUME ReceiveIInv, [Next]_vars
               PROVE  [Unit!RuEdge]_<<core_rst, ru_ctl, rus, ru_ev>>
    OBVIOUS
  <2>1. CASE Clock
    BY <2>1, EdgeKeepsPromise DEF Clock, ReceiveIInv, ReceiveTypeOK
  <2>2. CASE UNCHANGED vars
    BY <2>2 DEF vars, ruVars, ctlVars, rus, Ru!Rus
  <2> QED BY <2>1, <2>2 DEF Next
<1> QED BY ReceiveInvariance, <1>1, <1>2, PTL DEF Spec, UnitPromise

-----------------------------------------------------------------------------
\* What becomes of a frame: the buffers it may fill.

\* Lists that end, and what is computed along them from the end.  Every set of
\* places has one that is the last or leads out of the set, so a solution on
\* fewer than all of them can be extended.
Chain(N, V, last, next, base, step) ==
  /\ IsFiniteSet(N) /\ last \in SUBSET N /\ next \in [N \ last -> N]
  /\ base \in [last -> V] /\ step \in [N \X V -> V]
  /\ \A S \in SUBSET N : (\A x \in S : x \notin last /\ next[x] \in S) => S = {}
Along(f, N, last, next, base, step) ==
  \A x \in N : f[x] = IF x \in last THEN base[x] ELSE step[<<x, f[next[x]]>>]

LEMMA ChainExists ==
  ASSUME NEW N, NEW V, NEW last, NEW next, NEW base, NEW step,
         Chain(N, V, last, next, base, step)
  PROVE  \E f \in [N -> V] : Along(f, N, last, next, base, step)
<1> USE DEF Chain, Along
<1> DEFINE Solves(f, S) ==
             \A x \in N \ S : /\ x \notin last => next[x] \notin S
                              /\ f[x] = IF x \in last THEN base[x] ELSE step[<<x, f[next[x]]>>]
           T == {S \in SUBSET N : \E f \in [N \ S -> V] : Solves(f, S)}
           R == StrictSubsetOrdering(N)
<1>1. T \subseteq FiniteSubsetsOf(N)
  BY FS_Subset DEF FiniteSubsetsOf
<1>2. N \in T
  <2>1. {} = N \ N
    OBVIOUS
  <2>2. [x \in N \ N |-> base[x]] \in [N \ N -> V]
    BY <2>1
  <2> QED BY <2>1, <2>2
<1>3. PICK S \in T : \A U \in T : ~(<<U, S>> \in R)
  <2>1. IsWellFoundedOn(R, FiniteSubsetsOf(N))
    BY FS_StrictSubsetOrderingWellFounded
  <2>2. T # {}
    BY <1>2
  <2> HIDE DEF T, R
  <2> QED BY <1>1, <2>1, <2>2, WFMin
<1>4. PICK f \in [N \ S -> V] : Solves(f, S)
  OBVIOUS
<1>5. ASSUME S # {}
      PROVE  FALSE
  <2>1. PICK b \in S : b \in last \/ next[b] \notin S
    BY <1>5
  <2> DEFINE U == S \ {b}
             here == IF b \in last THEN base[b] ELSE step[<<b, f[next[b]]>>]
             g == [c \in N \ U |-> IF c = b THEN here ELSE f[c]]
  <2>2. b \in N /\ S \subseteq N /\ (b \notin last => next[b] \in N \ S /\ next[b] # b)
    BY <2>1
  <2>3. here \in V
    <3>1. b \notin last => f[next[b]] \in V
      BY <2>2
    <3> QED BY <2>2, <3>1
  <2>4. g \in [N \ U -> V]
    <3> HIDE DEF here
    <3> QED BY <2>3
  <2>5. Solves(g, U)
    <3> SUFFICES ASSUME NEW c \in N \ U
                 PROVE  /\ c \notin last => next[c] \notin U
                        /\ g[c] = IF c \in last THEN base[c] ELSE step[<<c, g[next[c]]>>]
      OBVIOUS
    <3>1. CASE c = b
      <4>1. b \notin last => g[next[b]] = f[next[b]]
        <5> HIDE DEF here
        <5> QED BY <2>2
      <4>2. g[b] = here
        <5> HIDE DEF here
        <5> QED BY <2>2
      <4> HIDE DEF g
      <4> QED BY <2>2, <3>1, <4>1, <4>2
    <3>2. CASE c # b
      <4>1. c \in N \ S
        BY <3>2
      <4>2. /\ c \notin last => next[c] \in N \ S /\ next[c] # b
            /\ f[c] = IF c \in last THEN base[c] ELSE step[<<c, f[next[c]]>>]
        BY <1>4, <2>2, <4>1
      <4>3. g[c] = f[c] /\ (c \notin last => g[next[c]] = f[next[c]])
        <5> HIDE DEF here
        <5> QED BY <3>2, <4>1, <4>2
      <4> HIDE DEF g
      <4> QED BY <4>1, <4>2, <4>3
    <3> QED BY <3>1, <3>2
  <2>6. U \in T
    <3> HIDE DEF g
    <3> QED BY <2>2, <2>4, <2>5
  <2>7. <<U, S>> \in R
    BY <2>2 DEF StrictSubsetOrdering
  <2> QED BY <1>3, <2>6, <2>7
<1> QED BY <1>4, <1>5

\* The room a list of buffers has, from each of them on.
LEMMA RoomExists ==
  \E f \in [Rbds -> Nat] :
    \A b \in Rbds : f[b] = Bd[b].size + (IF Bd[b].el THEN 0 ELSE f[Bd[b].next])
<1> DEFINE last == {b \in Rbds : Bd[b].el}
           next == [b \in Rbds \ last |-> Bd[b].next]
           base == [b \in last |-> Bd[b].size]
           step == [x \in Rbds \X Nat |-> Bd[x[1]].size + x[2]]
<1>1. Chain(Rbds, Nat, last, next, base, step)
  <2>1. /\ last \in SUBSET Rbds /\ next \in [Rbds \ last -> Rbds] /\ base \in [last -> Nat]
        /\ step \in [Rbds \X Nat -> Nat]
    BY ListsAssumption
  <2>2. \A S \in SUBSET Rbds : (\A x \in S : x \notin last /\ next[x] \in S) => S = {}
    <3> SUFFICES ASSUME NEW S \in SUBSET Rbds, \A x \in S : x \notin last /\ next[x] \in S
                 PROVE  S = {}
      OBVIOUS
    <3>1. \A x \in S : ~Bd[x].el /\ Bd[x].next \in S
      OBVIOUS
    <3> HIDE DEF last, next
    <3> QED BY <3>1, ListsAssumption
  <2>3. IsFiniteSet(Rbds)
    BY ListsAssumption
  <2> HIDE DEF last, next, base, step
  <2> QED BY <2>1, <2>2, <2>3 DEF Chain
<1>2. \A b \in Rbds : (b \in last <=> Bd[b].el) /\ (b \notin last => next[b] = Bd[b].next)
                      /\ (b \in last => base[b] = Bd[b].size)
  OBVIOUS
<1>3. \A b \in Rbds, n \in Nat : step[<<b, n>>] = Bd[b].size + n
  OBVIOUS
<1>4. \A b \in Rbds : Bd[b].size \in Nat /\ (~Bd[b].el => Bd[b].next \in Rbds)
  BY ListsAssumption
<1> HIDE DEF last, next, base, step
<1>5. PICK f \in [Rbds -> Nat] : Along(f, Rbds, last, next, base, step)
  BY <1>1, ChainExists
<1>6. ASSUME NEW b \in Rbds
      PROVE  f[b] = Bd[b].size + (IF Bd[b].el THEN 0 ELSE f[Bd[b].next])
  <2>1. f[b] = IF b \in last THEN base[b] ELSE step[<<b, f[next[b]]>>]
    BY <1>5 DEF Along
  <2>2. ~Bd[b].el => step[<<b, f[Bd[b].next]>>] = Bd[b].size + f[Bd[b].next]
    BY <1>3, <1>4
  <2> QED BY <1>2, <1>4, <2>1, <2>2
<1> QED BY <1>6

LEMMA RoomIs ==
  \A b \in Rbds : /\ Room[b] \in Nat
                  /\ Room[b] = Bd[b].size + (IF Bd[b].el THEN 0 ELSE Room[Bd[b].next])
<1> DEFINE Sum(f) == [b \in Rbds |-> Bd[b].size + (IF Bd[b].el THEN 0 ELSE f[Bd[b].next])]
<1>1. PICK f \in [Rbds -> Nat] :
        \A b \in Rbds : f[b] = Bd[b].size + (IF Bd[b].el THEN 0 ELSE f[Bd[b].next])
  BY RoomExists
<1>2. f = Sum(f)
  BY <1>1
<1>3. Room = Sum(Room)
  BY <1>2 DEF Room
<1>4. \A b \in Rbds : Room[b] = Bd[b].size + (IF Bd[b].el THEN 0 ELSE Room[Bd[b].next])
  BY <1>3
<1>5. {b \in Rbds : Room[b] \notin Nat} = {}
  <2> DEFINE S == {b \in Rbds : Room[b] \notin Nat}
  <2>1. ASSUME NEW b \in S
        PROVE  ~Bd[b].el /\ Bd[b].next \in S
    <3>1. b \in Rbds /\ Bd[b].size \in Nat /\ (~Bd[b].el => Bd[b].next \in Rbds)
      BY ListsAssumption
    <3>2. Bd[b].el => Room[b] \in Nat
      BY <1>4, <3>1
    <3>3. ~Bd[b].el /\ Room[Bd[b].next] \in Nat => Room[b] \in Nat
      BY <1>4, <3>1
    <3> QED BY <3>1, <3>2, <3>3
  <2>2. S \subseteq Rbds
    OBVIOUS
  <2> HIDE DEF S
  <2> QED BY <2>1, <2>2, ListsAssumption DEF S
<1> QED BY <1>4, <1>5

-----------------------------------------------------------------------------
\* The memory port, the posted write and what is read.

\* A pulse is given as the SCB handler's access ends, and none otherwise.
LEMMA PulseKeeps ==
  ASSUME Clock
  PROVE  PulseInv'
<1>1. CASE core_rst'
  BY <1>1 DEF Clock, ControlEdge, PulseInv
<1>2. CASE ~core_rst' /\ ru_ctl' # "NOP"
  <2>1. core = "ASKS" /\ core' = "PULSED" /\ CoreEdge
    BY <1>2 DEF Clock, ControlEdge, CoreEdge
  <2>2. OtherDone
    BY <2>1 DEF CoreEdge
  <2> QED BY <2>1, <2>2 DEF CoreEdge, OtherDone, PulseInv
<1>3. CASE ~core_rst' /\ ru_ctl' = "NOP"
  BY <1>3 DEF PulseInv
<1> QED BY <1>1, <1>2, <1>3

\* After the edge on which a pulse is seen the SCB handler's next access is made.
LEMMA AfterPulse ==
  ASSUME Clock, PulseInv, ru_ctl # "NOP"
  PROVE  /\ port = "IDLE" /\ port' = "OTHER"
         /\ ~core_rst' => core' = "PULSED" /\ ru_ctl' = "NOP"
<1>1. port = "IDLE" /\ core = "PULSED"
  BY DEF PulseInv
<1>2. port' = "OTHER" /\ ~OtherDone
  BY <1>1 DEF Clock, PortEdge, PortMoves, PortIdle, PortStart, OtherStart, PortDone,
     PortAck, OtherDone, PortWait
<1>3. ~core_rst' => core' = "PULSED" /\ ru_ctl' = "NOP"
  BY <1>1, <1>2 DEF Clock, ControlEdge, CoreEdge
<1> QED BY <1>1, <1>2, <1>3

\* An edge keeps the posted write, drops it, or posts another.
LEMMA PostSteps ==
  ASSUME Ru!RuEdge, frame_len \in Nat
  PROVE  \/ ~Ru!wp_valid'
         \/ wp' = wp /\ ~bus_ack
         \/ /\ state' \in {"RU_POP", "RU_FLUSH"}
            /\ wp'.size # "NONE" /\ (wp'.of = "BUF" \/ (wp'.n \in Nat /\ wp'.n >= 8))
<1> USE DEF Ru!wp_valid, Ru!NoRequest, Ru!Access
<1>1. Ru!Drain => ~Ru!wp_valid' \/ (wp' = wp /\ ~bus_ack)
  BY DEF Ru!Drain
<1>2. CASE Ru!RuReset
  BY <1>2 DEF Ru!RuReset
<1>3. CASE Ru!Abort \/ Ru!Idle \/ Ru!NoResource \/ Ru!Arm \/ Ru!Ready \/ Ru!Dispose
           \/ Ru!WriteStatus \/ Ru!NextRfd \/ Ru!Wait
  <2>1. Ru!Abort \/ Ru!Idle \/ Ru!NoResource \/ Ru!Ready \/ Ru!Wait => Ru!Drain
    BY DEF Ru!Abort, Ru!Idle, Ru!NoResource, Ru!Ready, Ru!Wait
  <2>2. Ru!Arm => Ru!Drain
    BY DEF Ru!Arm
  <2>3. Ru!Dispose \/ Ru!WriteStatus \/ Ru!NextRfd => Ru!Drain
    BY DEF Ru!Dispose, Ru!Drop, Ru!CloseRbd, Ru!CountErr, Ru!LinkBuffers, Ru!WriteStatus,
       Ru!NextRfd
  <2> QED BY <1>1, <1>3, <2>1, <2>2, <2>3
<1>4. CASE Ru!PopEnd \/ Ru!FullPeek \/ Ru!CloseFull \/ (Ru!PopByte /\ Ru!RejectByte)
  BY <1>1, <1>4 DEF Ru!PopEnd, Ru!FullPeek, Ru!CloseFull, Ru!PopByte, Ru!RejectByte
<1>5. CASE Ru!PopByte /\ Ru!HeaderByte
  <2>1. state' = "RU_POP" /\ wp' = Ru!PostHeader(frame_len, rx_data.byte)
    BY <1>5 DEF Ru!PopByte, Ru!PopNow, Ru!HeaderByte
  <2>2. wp'.size = "BYTE" /\ wp'.n = 8 + frame_len
    BY <2>1 DEF Ru!PostHeader
  <2> QED BY <2>1, <2>2
<1>6. CASE Ru!PopByte /\ Ru!BufferByte
  <2>1. state' \in {"RU_POP", "RU_FLUSH"}
    BY <1>6 DEF Ru!PopByte, Ru!PopNow, Ru!BufferByte, Ru!Goto
  <2>2. Ru!Drain \/ wp' = Ru!Post(Ru!Gathered)
    BY <1>6 DEF Ru!BufferByte
  <2>3. wp' = Ru!Post(Ru!Gathered) => wp'.size = "WORD" /\ wp'.of = "BUF"
    BY DEF Ru!Post
  <2> QED BY <1>1, <2>1, <2>2, <2>3
<1>7. CASE Ru!Flush
  <2>1. Ru!AccDirty => state' = "RU_FLUSH" /\ wp' = Ru!Post(acc)
    BY <1>7 DEF Ru!Flush
  <2>2. wp' = Ru!Post(acc) => wp'.size = "WORD" /\ wp'.of = "BUF"
    BY DEF Ru!Post
  <2>3. ~Ru!AccDirty => wp' = wp /\ ~Ru!wp_valid
    BY <1>7 DEF Ru!Flush
  <2> QED BY <2>1, <2>2, <2>3
<1> QED BY <1>2, <1>3, <1>4, <1>5, <1>6, <1>7, RuCases DEF Ru!Take, Ru!PopByte

\* The states a pending write is left in by an edge that leaves it pending.
LEMMA PendingSteps ==
  ASSUME Ru!RuEdge, ~core_rst, ru_ctl # "ABORT", Ru!wp_valid, ~bus_ack
  PROVE  /\ state \in {"RU_POP", "RU_FLUSH", "RU_DROP"}
              => \/ state' \in {"RU_POP", "RU_FLUSH", "RU_DROP"}
                 \/ state' = "RU_COUNT_ERR" /\ ~count_then_file'
         /\ state = "RU_COUNT_ERR" => state' = state /\ UNCHANGED count_then_file
         /\ state = "RU_IDLE" /\ ru_ctl = "NOP" => state' = state
<1>1. CASE Ru!Idle \/ Ru!NoResource \/ Ru!Arm \/ Ru!Ready
  BY <1>1 DEF Ru!Idle, Ru!NoResource, Ru!Arm, Ru!Ready
<1>2. CASE Ru!Take
  BY <1>2 DEF Ru!Take, Ru!PopEnd, Ru!PopByte, Ru!PopNow, Ru!RejectByte, Ru!HeaderByte,
     Ru!BufferByte, Ru!Flush, Ru!FullPeek, Ru!CloseFull, Ru!Goto
<1>3. CASE Ru!Dispose
  BY <1>3 DEF Ru!Dispose, Ru!Drop, Ru!CloseRbd, Ru!CountErr, Ru!LinkBuffers, Ru!Goto
<1>4. CASE Ru!WriteStatus \/ Ru!NextRfd \/ Ru!Wait
  BY <1>4 DEF Ru!WriteStatus, Ru!Filed, Ru!NextRfd, Ru!Wait, Ru!pathVars, Ru!AckStates,
     Ru!ArmStates, Ru!FileStates
<1> QED BY <1>1, <1>2, <1>3, <1>4, RuCases DEF Ru!RuReset, Ru!Abort, Ru!Aborting

LEMMA PostKeeps ==
  ASSUME PulseInv, PostInv, Clock, frame_len \in Nat
  PROVE  PostInv'
<1> SUFFICES ASSUME wp' = wp, ~bus_ack, Ru!wp_valid, ~core_rst, ~core_rst'
             PROVE  PostInv'
  <2>1. wp' = wp => Ru!wp_valid' = Ru!wp_valid
    BY DEF Ru!wp_valid
  <2>2. core_rst => ~Ru!wp_valid'
    BY DEF Clock, Ru!RuEdge, Ru!RuReset, Ru!Abort, Ru!wp_valid, Ru!NoRequest, Ru!Access
  <2> QED BY <2>1, <2>2, PostSteps DEF Clock, PostInv
<1>1. wp'.size # "NONE" /\ (wp'.of = "BUF" \/ (wp'.n \in Nat /\ wp'.n >= 8))
  BY DEF PostInv
<1>2. CASE ru_ctl = "ABORT"
  <2>1. state' = "RU_IDLE"
    BY <1>2, RuCases DEF Clock, Ru!RuReset, Ru!Abort, Ru!Goto
  <2> QED BY <1>1, <1>2, <2>1, AfterPulse DEF PostInv
<1>3. CASE ru_ctl # "ABORT" /\ state # "RU_IDLE"
  BY <1>1, <1>3, PendingSteps DEF Clock, PostInv
<1>4. CASE ru_ctl # "ABORT" /\ state = "RU_IDLE"
  <2>1. state' = "RU_IDLE" /\ CoreEdge /\ PortEdge /\ port # "ACK"
    BY <1>4, PendingSteps DEF Clock, PostInv, ControlEdge, bus_ack
  <2>2. CASE core = "PULSED" /\ port \in {"IDLE", "OTHER"}
    <3>1. port' \in {"IDLE", "OTHER"} /\ (OtherDone => port' = "IDLE")
      BY <2>1, <2>2 DEF PortEdge, PortMoves, PortIdle, PortStart, OtherStart, PortDone,
         PortAck, OtherDone, PortWait, portVars
    <3>2. core' = "PULSED" \/ (core' = "QUIET" /\ OtherDone)
      BY <2>1, <2>2 DEF CoreEdge
    <3>3. ru_ctl' = "NOP"
      BY <2>1, <2>2 DEF CoreEdge
    <3> QED BY <1>1, <2>1, <3>1, <3>2, <3>3 DEF PostInv
  <2>3. CASE (core = "QUIET" /\ port = "IDLE") \/ port = "ACTIVE"
    <3>1. port' \in {"ACTIVE", "ACK"}
      BY <1>4, <2>1, <2>3 DEF PortEdge, PortMoves, PortIdle, PortStart, OtherStart, PortDone,
         PortAck, OtherDone, PortWait, portVars, Ru!Request, PostInv
    <3>2. ~OtherDone
      BY <2>3 DEF OtherDone
    <3>3. ru_ctl' = "NOP"
      BY <2>1, <2>3, <3>2 DEF CoreEdge
    <3> QED BY <1>1, <2>1, <3>1, <3>3 DEF PostInv
  <2> QED BY <1>4, <2>1, <2>2, <2>3 DEF PostInv
<1> QED BY <1>2, <1>3, <1>4

\* A state that reads was there before, waiting, or its access is yet to be made.
LEMMA ReadSteps ==
  ASSUME Clock, PulseInv, state' \in Reads
  PROVE  \/ ~core_rst /\ state' = state /\ ~bus_ack /\ UNCHANGED <<rfd, bd>>
         \/ port' \notin {"ACTIVE", "ACK"}
<1> USE DEF Reads, Ru!ArmStates, Ru!Goto
<1>1. bus_ack => port' = "IDLE"
  BY DEF Clock, PortEdge, PortMoves, PortIdle, PortStart, OtherStart, PortDone, PortAck,
     OtherDone, PortWait, bus_ack
<1>2. ru_ctl # "NOP" => port' = "OTHER"
  BY AfterPulse
<1>3. CASE Ru!RuReset \/ Ru!Abort
  BY <1>3 DEF Ru!RuReset, Ru!Abort
<1>4. CASE Ru!Idle \/ Ru!NoResource
  BY <1>2, <1>4 DEF Ru!Idle, Ru!NoResource
<1>5. CASE Ru!Arm
  BY <1>1, <1>5 DEF Ru!Arm
<1>6. CASE Ru!Take
  <2>1. state' = "RU_RD_NEXT_RBD"
    BY <1>6, TakeSteps
  <2>2. ~Ru!PopEnd /\ ~Ru!Flush /\ ~Ru!FullPeek
    BY <2>1 DEF Ru!PopEnd, Ru!Flush, Ru!FullPeek
  <2>3. ~Ru!PopByte
    BY <2>1 DEF Ru!PopByte, Ru!RejectByte, Ru!HeaderByte, Ru!BufferByte, Ru!PopNow
  <2>4. bus_ack
    BY <1>6, <2>2, <2>3 DEF Ru!Take, Ru!CloseFull
  <2> QED BY <1>1, <2>4
<1>7. CASE Ru!Ready \/ Ru!WriteStatus \/ Ru!NextRfd
  BY <1>1, <1>7 DEF Ru!Ready, Ru!WriteStatus, Ru!Filed, Ru!NextRfd
<1>8. CASE Ru!Dispose
  <2>1. state = "RU_FIN_WR_RFD_RBD" /\ bus_ack
    BY <1>8 DEF Ru!Dispose, Ru!Drop, Ru!CloseRbd, Ru!CountErr, Ru!LinkBuffers
  <2> QED BY <1>1, <2>1
<1>9. CASE ~core_rst /\ Ru!Wait
  <2>1. UNCHANGED <<state, rfd, bd>>
    BY <1>9 DEF Ru!Wait, Ru!bufVars
  <2>2. ~bus_ack
    BY <1>9, <2>1 DEF Ru!Wait, Ru!AckStates, Ru!FileStates
  <2> QED BY <1>9, <2>1, <2>2
<1> QED BY <1>3, <1>4, <1>5, <1>6, <1>7, <1>8, <1>9, RuCases DEF Clock

\* What a reading state asks for hangs on nothing else.
LEMMA RequestStays ==
  ASSUME state \in Reads, UNCHANGED <<state, rfd, bd>>
  PROVE  Ru!StateRequest' = Ru!StateRequest /\ ~Ru!StateRequest.we
<1> USE DEF Reads, Ru!ArmStates, Ru!Read, Ru!Access
<1>1. CASE state \in {"RU_RD_RFD_RBD", "RU_RD_BUF_LO", "RU_RD_BUF_HI", "RU_RD_SIZE"}
  BY <1>1 DEF Ru!StateRequest
<1>2. CASE state \in {"RU_RD_NEXT_RBD", "RU_FIN_RD_CMD", "RU_FIN_RD_LINK"}
  BY <1>2 DEF Ru!StateRequest
<1> QED BY <1>1, <1>2

LEMMA ReadKeeps ==
  ASSUME Clock, PulseInv, PostInv, ReadInv
  PROVE  ReadInv'
<1> SUFFICES ASSUME state' \in Reads, port' \in {"ACTIVE", "ACK"}
             PROVE  /\ port' = "ACTIVE" => access' = Ru!StateRequest'
                    /\ port' = "ACK" => rdata' = Memory(Ru!StateRequest)'
  BY DEF ReadInv
<1>1. ~core_rst /\ state' = state /\ ~bus_ack /\ UNCHANGED <<rfd, bd>>
  BY ReadSteps
<1>2. Ru!StateRequest' = Ru!StateRequest /\ ~Ru!StateRequest.we
  BY <1>1, RequestStays
<1>3. Ru!Request = Ru!StateRequest
  BY <1>1 DEF PostInv, Ru!Request, Reads, Ru!ArmStates
<1>4. CASE port = "ACTIVE"
  <2>1. access = Ru!StateRequest
    BY <1>1, <1>4 DEF ReadInv
  <2>2. PortDone \/ (PortWait /\ UNCHANGED portVars)
    BY <1>4 DEF Clock, PortEdge, PortMoves, PortIdle, PortStart, OtherStart, PortAck,
       OtherDone, PortWait
  <2>3. CASE PortDone
    <3>1. port' = "ACK" /\ rdata' = Memory(Ru!StateRequest) /\ rfd_rbd' = rfd_rbd
      <4>1. port' = "ACK" /\ rdata' = Memory(Ru!StateRequest) /\ ~FieldWritten
        BY <1>2, <2>1, <2>3 DEF PortDone, FieldWritten
      <4>2. ~Restarts
        BY <1>1 DEF Restarts, Reads, Ru!ArmStates
      <4> QED BY <4>1, <4>2 DEF Clock, FieldEdge
    <3> QED BY <1>2, <3>1 DEF Memory, RfdField, RbdField
  <2>4. CASE PortWait /\ UNCHANGED portVars
    BY <1>2, <1>4, <2>1, <2>4 DEF portVars
  <2> QED BY <2>2, <2>3, <2>4
<1>5. CASE port # "ACTIVE"
  BY <1>1, <1>2, <1>3, <1>5 DEF Clock, PortEdge, PortMoves, PortIdle, PortStart, OtherStart,
     PortDone, PortAck, OtherDone, PortWait, portVars, bus_ack
<1> QED BY <1>4, <1>5

\* What is asked to be put in a frame descriptor's buffer field is a buffer.
LEMMA RequestNames ==
  ASSUME HoldInv, PostInv, Ru!Request.we, Ru!Request.of \in Rfds, Ru!Request.n = 6
  PROVE  Ru!Request.data \in Rbds
<1>1. "BUF" \notin Rfds /\ "SCB" \notin Rfds /\ Rfds \cap Rbds = {}
  BY ListsAssumption
<1>2. CASE Ru!wp_valid
  BY <1>1, <1>2 DEF Ru!Request, PostInv
<1>3. CASE ~Ru!wp_valid
  <2> USE <1>3 DEF Ru!Request, Ru!StateRequest, Ru!Read, Ru!Write, Ru!Access, Ru!NoRequest
  <2>1. CASE state = "RU_FIN_WR_RFD_RBD"
    BY <2>1 DEF HoldInv, Keeping, Held
  <2>2. CASE state \in {"RU_CLOSE_FULL", "RU_FIN_CLOSE_RBD", "RU_FIN_WR_STATUS"}
    BY <2>2
  <2>3. CASE state = "RU_COUNT_ERR"
    BY <1>1, <2>3
  <2>4. CASE state \notin {"RU_FIN_WR_RFD_RBD", "RU_CLOSE_FULL", "RU_FIN_CLOSE_RBD",
                           "RU_FIN_WR_STATUS", "RU_COUNT_ERR"}
    BY <2>4
  <2> QED BY <2>1, <2>2, <2>3, <2>4
<1> QED BY <1>2, <1>3

LEMMA LinkKeeps ==
  ASSUME Clock, HoldInv, PostInv, LinkInv
  PROVE  LinkInv'
<1> DEFINE Names == rfd_rbd' \in [Rfds -> Rbds \cup {Null}]
           Naming == port' = "ACTIVE" /\ access'.we /\ access'.of \in Rfds /\ access'.n = 6
<1>1. Names
  <2>1. CASE Restarts
    BY <2>1, ListsAssumption DEF Clock, FieldEdge, Built
  <2>2. CASE ~Restarts /\ PortDone /\ FieldWritten
    <3>1. access.data \in Rbds
      BY <2>2 DEF LinkInv, PortDone, FieldWritten
    <3>2. rfd_rbd' = [rfd_rbd EXCEPT ![access.of] = access.data]
      BY <2>2 DEF Clock, FieldEdge
    <3> QED BY <3>1, <3>2 DEF LinkInv
  <2>3. CASE ~Restarts /\ ~(PortDone /\ FieldWritten)
    BY <2>3 DEF Clock, FieldEdge, LinkInv
  <2> QED BY <2>1, <2>2, <2>3
<1>2. Naming => access'.data \in Rbds
  <2>1. CASE PortStart
    BY <2>1, RequestNames DEF PortStart
  <2>2. CASE PortDone \/ PortAck \/ PortIdle \/ OtherStart \/ OtherDone
    BY <2>2 DEF PortDone, PortAck, PortIdle, OtherStart, OtherDone, portVars
  <2>3. CASE PortWait
    BY <2>3 DEF PortWait, portVars, LinkInv
  <2> QED BY <2>1, <2>2, <2>3 DEF Clock, PortEdge, PortMoves
<1> QED BY <1>1, <1>2 DEF LinkInv

-----------------------------------------------------------------------------
\* The descriptor and the buffers in hand.

\* The fields that are read.
LEMMA FieldsAre ==
  ASSUME NEW r, NEW b
  PROVE  /\ RfdField(r, 2) = Rf[r].el /\ RfdField(r, 4) = Rf[r].link
         /\ RfdField(r, 6) = rfd_rbd[r]
         /\ RbdField(b, 2) = Bd[b].next
         /\ RbdField(b, 8) = [size |-> Bd[b].size, el |-> Bd[b].el]
BY DEF RfdField, RbdField

\* What the unit learns from a read.
LEMMA ReadsGive ==
  ASSUME HoldInv, ReadInv, LinkInv, bus_ack
  PROVE  /\ state = "RU_RD_RFD_RBD" => rdata \in Rbds \cup {Null}
         /\ state = "RU_RD_NEXT_RBD" => rdata \in Rbds /\ rdata = Bd[bd.rbd].next
         /\ state = "RU_RD_SIZE" => rdata = [size |-> Bd[bd.rbd].size, el |-> Bd[bd.rbd].el]
         /\ state = "RU_FIN_RD_LINK" => rdata \in Rfds
<1> USE DEF bus_ack, HoldInv, ReadInv, Reads, Ru!ArmStates, Held, Opening, Memory, Ru!Read,
            Ru!Access, Ru!StateRequest
<1>1. CASE state = "RU_RD_RFD_RBD"
  <2>1. rfd \in Rfds /\ rdata = Memory(Ru!Read(rfd, 6))
    BY <1>1
  <2>2. rdata = rfd_rbd[rfd]
    BY <2>1, FieldsAre
  <2> QED BY <1>1, <2>1, <2>2 DEF LinkInv
<1>2. CASE state = "RU_RD_NEXT_RBD"
  <2>1. bd.rbd \in Rbds /\ ~Bd[bd.rbd].el /\ rdata = Memory(Ru!Read(bd.rbd, 2))
    BY <1>2
  <2>2. rdata = Bd[bd.rbd].next
    BY <2>1, ListsAssumption, FieldsAre
  <2> QED BY <1>2, <2>1, <2>2, ListsAssumption
<1>3. CASE state = "RU_RD_SIZE"
  <2>1. bd.rbd \in Rbds /\ rdata = Memory(Ru!Read(bd.rbd, 8))
    BY <1>3
  <2>2. rdata = RbdField(bd.rbd, 8)
    BY <2>1, ListsAssumption
  <2>3. RbdField(bd.rbd, 8) = [size |-> Bd[bd.rbd].size, el |-> Bd[bd.rbd].el]
    BY FieldsAre
  <2> QED BY <1>3, <2>2, <2>3
<1>4. CASE state = "RU_FIN_RD_LINK"
  <2>1. rfd \in Rfds /\ rdata = Memory(Ru!Read(rfd, 4))
    BY <1>4
  <2>2. rdata = Rf[rfd].link
    BY <2>1, FieldsAre
  <2> QED BY <1>4, <2>1, <2>2, ListsAssumption
<1> QED BY <1>1, <1>2, <1>3, <1>4

\* What opening a buffer does to its register.
LEMMA OpenSteps ==
  ASSUME Ru!Arm, HoldInv, ReadInv, LinkInv
  PROVE  /\ DOMAIN bd' = DOMAIN Ru!NoBd
         /\ state = "RU_RD_RFD_RBD" =>
              \/ state' = "RU_NO_RESOURCE"
              \/ state' = "RU_RD_BUF_LO" /\ bd'.rbd \in Rbds
         /\ state = "RU_RD_NEXT_RBD" =>
              state' = "RU_RD_BUF_LO" /\ bd'.rbd = Bd[bd.rbd].next /\ bd'.rbd \in Rbds
                /\ buf_off' = 0
         /\ state \in {"RU_RD_BUF_LO", "RU_RD_BUF_HI"} =>
              state' \in Opening /\ bd'.rbd = bd.rbd /\ buf_off' = buf_off
         /\ state = "RU_RD_SIZE" =>
              /\ state' = IF in_frame THEN "RU_POP" ELSE "RU_READY"
              /\ Held(bd') /\ bd'.rbd = bd.rbd /\ buf_off' = 0
         /\ state \in {"RU_RD_RFD_RBD", "RU_RD_NEXT_RBD"} \cup Opening
         /\ UNCHANGED <<rfd, suspended, frame_bd, in_frame, frame_len, rejected, err>>
<1> USE DEF Ru!Goto, Opening
<1>1. DOMAIN bd = {"rbd", "buf", "size", "el"} /\ DOMAIN Ru!NoBd = {"rbd", "buf", "size", "el"}
  BY DEF HoldInv, Ru!NoBd
<1>2. bus_ack /\ UNCHANGED <<rfd, suspended, frame_bd, in_frame, frame_len, rejected, err>>
  BY DEF Ru!Arm, Ru!frameVars
<1>3. CASE state = "RU_RD_RFD_RBD"
  <2>1. rdata \in Rbds \cup {Null}
    BY <1>2, <1>3, ReadsGive
  <2>2. \/ rdata = Null /\ state' = "RU_NO_RESOURCE" /\ bd' = bd
        \/ rdata # Null /\ state' = "RU_RD_BUF_LO" /\ bd' = [bd EXCEPT !.rbd = rdata]
    BY <1>3 DEF Ru!Arm
  <2>3. bd' = [bd EXCEPT !.rbd = rdata] => bd'.rbd = rdata /\ DOMAIN bd' = DOMAIN bd
    BY <1>1
  <2> QED BY <1>1, <1>2, <1>3, <2>1, <2>2, <2>3
<1>4. CASE state = "RU_RD_NEXT_RBD"
  <2>1. rdata = Bd[bd.rbd].next /\ rdata \in Rbds
    BY <1>2, <1>4, ReadsGive
  <2>2. state' = "RU_RD_BUF_LO" /\ bd' = [bd EXCEPT !.rbd = rdata] /\ buf_off' = 0
    BY <1>4 DEF Ru!Arm
  <2>3. bd' = [bd EXCEPT !.rbd = rdata] => bd'.rbd = rdata /\ DOMAIN bd' = DOMAIN bd
    BY <1>1
  <2> QED BY <1>1, <1>2, <1>4, <2>1, <2>2, <2>3
<1>5. CASE state = "RU_RD_BUF_LO"
  <2>1. /\ state' = "RU_RD_BUF_HI" /\ buf_off' = buf_off
        /\ bd' = [bd EXCEPT !.buf = 65536 * (@ \div 65536) + rdata]
    BY <1>5 DEF Ru!Arm
  <2>2. bd'.rbd = bd.rbd /\ DOMAIN bd' = DOMAIN bd
    BY <1>1, <2>1
  <2> QED BY <1>1, <1>2, <1>5, <2>1, <2>2
<1>6. CASE state = "RU_RD_BUF_HI"
  <2>1. /\ state' = "RU_RD_SIZE" /\ buf_off' = buf_off
        /\ bd' = [bd EXCEPT !.buf = 65536 * (rdata % 256) + (@ % 65536)]
    BY <1>6 DEF Ru!Arm
  <2>2. bd'.rbd = bd.rbd /\ DOMAIN bd' = DOMAIN bd
    BY <1>1, <2>1
  <2> QED BY <1>1, <1>2, <1>6, <2>1, <2>2
<1>7. CASE state = "RU_RD_SIZE"
  <2>1. bd.rbd \in Rbds /\ rdata.size = Bd[bd.rbd].size /\ rdata.el = Bd[bd.rbd].el
    BY <1>2, <1>7, ReadsGive DEF HoldInv
  <2>2. /\ state' = IF in_frame THEN "RU_POP" ELSE "RU_READY"
        /\ buf_off' = 0 /\ bd' = [bd EXCEPT !.size = rdata.size, !.el = rdata.el]
    BY <1>7 DEF Ru!Arm
  <2>3. /\ bd'.rbd = bd.rbd /\ bd'.size = rdata.size /\ bd'.el = rdata.el
        /\ DOMAIN bd' = DOMAIN bd
    BY <1>1, <2>2
  <2>4. Held(bd')
    BY <2>1, <2>3 DEF Held
  <2> QED BY <1>1, <1>2, <1>7, <2>2, <2>3, <2>4
<1> QED BY <1>3, <1>4, <1>5, <1>6, <1>7 DEF Ru!Arm

\* Opening buffers and starting a frame keep hold of them.
LEMMA HoldOpening ==
  ASSUME HoldInv, ReadInv, LinkInv, PulseInv, ReceiveTypeOK,
         Ru!Idle \/ Ru!NoResource \/ Ru!Arm \/ Ru!Ready
  PROVE  HoldInv'
<1> USE DEF Ru!Goto, Opening, Keeping, Amid, Ru!ArmStates, Ru!FileStates
<1>1. CASE Ru!Idle \/ Ru!NoResource
  <2>1. UNCHANGED <<bd, frame_bd, in_frame>>
    BY <1>1 DEF Ru!Idle, Ru!NoResource, Ru!bufVars, Ru!frameVars
  <2>2. /\ state \in {"RU_IDLE", "RU_NO_RESOURCE"}
        /\ state' \in {"RU_IDLE", "RU_NO_RESOURCE", "RU_RD_RFD_RBD"}
    BY <1>1 DEF Ru!Idle, Ru!NoResource
  <2>3. state' # "RU_IDLE" \/ suspended' => rfd' \in Rfds
    <3>1. ru_ctl = "START" => rfa \in Rfds
      BY AreaAssumption DEF PulseInv
    <3> QED BY <1>1, <3>1 DEF HoldInv, Ru!Idle, Ru!NoResource, ReceiveTypeOK
  <2> QED BY <2>1, <2>2, <2>3 DEF HoldInv, Held
<1>2. CASE Ru!Arm
  <2>1. /\ state' \in {"RU_NO_RESOURCE", "RU_POP", "RU_READY"} \cup Opening
        /\ state' \in Opening => bd'.rbd \in Rbds
        /\ state' \in {"RU_POP", "RU_READY"} => Held(bd')
        /\ state' = "RU_POP" => in_frame'
        /\ DOMAIN bd' = DOMAIN Ru!NoBd
        /\ UNCHANGED <<rfd, frame_bd, in_frame>> /\ rfd \in Rfds
    BY <1>2, OpenSteps DEF HoldInv
  <2> QED BY <2>1 DEF HoldInv, Held
<1>3. CASE Ru!Ready
  BY <1>3 DEF Ru!Ready, HoldInv, Held
<1> QED BY <1>1, <1>2, <1>3

\* So does taking a frame.
LEMMA HoldTaking ==
  ASSUME HoldInv, ReceiveTypeOK, Ru!Take
  PROVE  HoldInv'
<1> USE DEF Ru!Goto
<1>1. UNCHANGED <<rfd, suspended, bd, frame_bd>>
  BY DEF Ru!Take
<1>2. /\ state' = "RU_RD_NEXT_RBD" => ~bd.el
      /\ state' \in Amid => in_frame'
      /\ state' = "RU_FLUSH" => in_frame' = ~flush_to_end'
      /\ state' \in Ru!FileStates => ~in_frame'
  <2> USE DEF Amid, Ru!FileStates
  <2>1. CASE Ru!PopEnd
    BY <2>1 DEF Ru!PopEnd, Ru!TakeEnd
  <2>2. CASE Ru!PopByte
    <3>1. state = "RU_POP" /\ in_frame' = in_frame /\ in_frame = TRUE
      BY <2>2 DEF Ru!PopByte, Ru!PopNow, HoldInv, ReceiveTypeOK
    <3>2. state' \in {"RU_DROP", "RU_POP"} \/ (state' = "RU_FLUSH" /\ flush_to_end' = FALSE)
      BY <2>2, <3>1 DEF Ru!PopByte, Ru!RejectByte, Ru!HeaderByte, Ru!BufferByte
    <3> QED BY <3>1, <3>2
  <2>3. CASE Ru!Flush
    <3>1. UNCHANGED <<in_frame, flush_to_end>>
      BY <2>3 DEF Ru!Flush, Ru!frameVars
    <3>2. \/ state' = "RU_FLUSH"
          \/ state' = IF flush_to_end THEN "RU_FIN_CLOSE_RBD" ELSE "RU_FULL_PEEK"
      BY <2>3 DEF Ru!Flush
    <3>3. in_frame \in BOOLEAN /\ flush_to_end \in BOOLEAN /\ in_frame = ~flush_to_end
      BY <2>3 DEF HoldInv, Ru!Flush, ReceiveTypeOK
    <3> QED BY <3>1, <3>2, <3>3
  <2>4. CASE Ru!FullPeek \/ Ru!CloseFull
    BY <2>4 DEF Ru!FullPeek, Ru!CloseFull, Ru!TakeEnd, HoldInv
  <2> QED BY <2>1, <2>2, <2>3, <2>4 DEF Ru!Take
<1>3. Held(bd) /\ Held(frame_bd) /\ rfd \in Rfds
  BY TakeSteps DEF HoldInv, Amid, Keeping, Ru!ArmStates
<1> QED
  BY <1>1, <1>2, <1>3, TakeSteps DEF HoldInv, Held, Opening, Ru!FileStates

\* And disposing of it.
LEMMA HoldDisposing ==
  ASSUME HoldInv, ReadInv, LinkInv, ReceiveTypeOK,
         Ru!Dispose \/ Ru!WriteStatus \/ Ru!NextRfd
  PROVE  HoldInv'
<1> USE DEF Ru!Goto, Ru!FileStates, Keeping, Amid, Opening, Ru!ArmStates
<1>1. CASE Ru!Drop
  <2>1. Held(frame_bd) /\ rfd \in Rfds
    BY <1>1 DEF Ru!Drop, HoldInv
  <2>2. /\ bd' = frame_bd /\ UNCHANGED <<rfd, frame_bd>> /\ in_frame' = FALSE
        /\ state' = "RU_COUNT_ERR"
    BY <1>1 DEF Ru!Drop, Ru!Rewind
  <2> QED BY <2>1, <2>2 DEF HoldInv, Held
<1>2. CASE Ru!CloseRbd \/ Ru!CountErr
  <2>1. Held(frame_bd) /\ Held(bd) /\ rfd \in Rfds /\ ~in_frame
    BY <1>2 DEF Ru!CloseRbd, Ru!CountErr, HoldInv
  <2>2. /\ bd' = bd \/ bd' = frame_bd
        /\ UNCHANGED <<rfd, frame_bd, in_frame>>
        /\ state' \in {"RU_FIN_WR_RFD_RBD", "RU_COUNT_ERR", "RU_READY"}
    BY <1>2 DEF Ru!CloseRbd, Ru!CountErr, Ru!Rewind, Ru!bufVars, Ru!frameVars
  <2> QED BY <2>1, <2>2 DEF HoldInv, Held
<1>3. CASE Ru!LinkBuffers \/ Ru!WriteStatus
  <2>1. Held(bd) /\ rfd \in Rfds /\ ~in_frame
    BY <1>3 DEF Ru!LinkBuffers, Ru!WriteStatus, Ru!Filed, HoldInv
  <2>2. UNCHANGED <<rfd, bd, in_frame>>
    BY <1>3 DEF Ru!LinkBuffers, Ru!WriteStatus, Ru!frameVars, Ru!bufVars
  <2>3. \/ /\ state = "RU_FIN_WR_RFD_RBD" /\ state' = "RU_FIN_RD_CMD" /\ UNCHANGED frame_bd
        \/ /\ state' \in {"RU_FIN_WR_STATUS", "RU_FIN_RD_LINK"}
           /\ DOMAIN frame_bd' = DOMAIN frame_bd
    <3>1. frame_bd' = [frame_bd EXCEPT !.el = rdata] => DOMAIN frame_bd' = DOMAIN frame_bd
      OBVIOUS
    <3>2. CASE Ru!LinkBuffers
      BY <3>1, <3>2 DEF Ru!LinkBuffers
    <3>3. CASE Ru!WriteStatus
      BY <3>3 DEF Ru!WriteStatus, Ru!bufVars
    <3> QED BY <1>3, <3>2, <3>3
  <2> QED BY <2>1, <2>2, <2>3 DEF HoldInv, Held
<1>4. CASE Ru!NextRfd
  <2>1. rdata \in Rfds /\ Held(bd) /\ ~in_frame
    BY <1>4, ReadsGive DEF Ru!NextRfd, HoldInv
  <2>2. /\ rfd' = rdata /\ UNCHANGED <<bd, frame_bd, in_frame>>
        /\ \/ state' \in {"RU_NO_RESOURCE", "RU_IDLE"}
           \/ state' = "RU_RD_NEXT_RBD" /\ ~bd.el
    BY <1>4 DEF Ru!NextRfd, Ru!ListEnds, Ru!bufVars, Ru!frameVars
  <2> QED BY <2>1, <2>2 DEF HoldInv, Held
<1> QED BY <1>1, <1>2, <1>3, <1>4 DEF Ru!Dispose

LEMMA HoldKeeps ==
  ASSUME Clock, ReceiveTypeOK, PulseInv, HoldInv, ReadInv, LinkInv
  PROVE  HoldInv'
<1>1. CASE Ru!RuReset \/ Ru!Abort
  <2>1. state' = "RU_IDLE" /\ suspended' = FALSE
    BY <1>1 DEF Ru!RuReset, Ru!Abort, Ru!Goto
  <2>2. \/ bd' = Ru!NoBd /\ frame_bd' = Ru!NoBd /\ in_frame' = FALSE
        \/ UNCHANGED <<bd, frame_bd, in_frame>>
    BY <1>1 DEF Ru!RuReset, Ru!Abort, Ru!bufVars, Ru!frameVars
  <2>3. in_frame => Held(frame_bd)
    BY DEF HoldInv
  <2> QED BY <2>1, <2>2, <2>3 DEF HoldInv, Held, Opening, Ru!ArmStates, Amid,
       Ru!FileStates, Keeping
<1>2. CASE Ru!Wait
  <2>1. UNCHANGED <<state, rfd, suspended, bd, frame_bd, in_frame, flush_to_end>>
    BY <1>2 DEF Ru!Wait, Ru!bufVars, Ru!frameVars, Ru!pathVars
  <2> QED BY <2>1 DEF HoldInv, Held
<1> QED BY <1>1, <1>2, RuCases, HoldOpening, HoldTaking, HoldDisposing DEF Clock

-----------------------------------------------------------------------------
\* The words of a frame.

LEMMA FrameTyped ==
  ASSUME NEW f \in Frames
  PROVE  Fr[f].len \in Nat /\ Fr[f].len < 65536
BY FramesAssumption

LEMMA UpcomingTyped ==
  ASSUME ReceiveTypeOK, WordsInv
  PROVE  /\ Upcoming \in [of : Frames, n : Nat]
         /\ Upcoming.n <= Fr[Upcoming.of].len
         /\ Fr[Upcoming.of].len \in Nat /\ Fr[Upcoming.of].len < 65536
<1>1. CASE fifo = <<>>
  BY <1>1, FrameTyped DEF ReceiveTypeOK, WordsInv, Upcoming
<1>2. CASE fifo # <<>>
  <2>1. 1 \in 1..Len(fifo)
    BY <1>2, EmptySeq, LenProperties DEF ReceiveTypeOK
  <2>2. fifo[1] \in Words
    BY <2>1 DEF ReceiveTypeOK
  <2>3. fifo[1].byte.n <= Fr[fifo[1].byte.of].len
    BY <2>1 DEF WordsInv
  <2> QED BY <1>2, <2>2, <2>3, FrameTyped DEF Upcoming, Words
<1> QED BY <1>1, <1>2

\* The word the FIFO shows is the one that comes next.
LEMMA WordSeen ==
  ASSUME ReceiveTypeOK, WordsInv, ~rx_empty
  PROVE  /\ rx_data.byte = Upcoming /\ rx_data.end = (Upcoming.n = Fr[Upcoming.of].len)
         /\ rx_data.err = Fr[Upcoming.of].err /\ rx_data.dst = Fr[Upcoming.of].dst
<1>1. fifo # <<>> /\ 1 \in 1..Len(fifo)
  BY EmptySeq, LenProperties DEF ReceiveTypeOK, rx_empty
<1>2. rx_data = fifo[1] /\ fifo[1] \in Words
  BY <1>1 DEF ReceiveTypeOK, rx_data
<1>3. fifo[1] = Word(fifo[1].byte.of, fifo[1].byte.n) /\ Upcoming = fifo[1].byte
  BY <1>1 DEF WordsInv, Upcoming
<1>4. /\ fifo[1].end = (fifo[1].byte.n = Fr[fifo[1].byte.of].len)
      /\ fifo[1].err = Fr[fifo[1].byte.of].err /\ fifo[1].dst = Fr[fifo[1].byte.of].dst
  BY <1>3 DEF Word
<1> QED BY <1>2, <1>3, <1>4

LEMMA ReadingOn ==
  ASSUME ReceiveTypeOK, FifoInv, WordsInv, RxEdge, ~core_rst, Ru!RxRd, ~rx_data.end
  PROVE  Upcoming' = [of |-> Upcoming.of, n |-> Upcoming.n + 1]
<1>1. Upcoming' \in Follows(fifo[1]) /\ ~rx_empty
  BY FifoSteps, LeftSteps DEF rx_empty
<1>2. Upcoming.n # Fr[Upcoming.of].len
  BY <1>1, WordSeen
<1>3. fifo[1].byte = Upcoming
  BY <1>1 DEF Upcoming, rx_empty
<1> QED BY <1>1, <1>2, <1>3 DEF Follows, NextComing

LEMMA WordsKeeps ==
  ASSUME ReceiveTypeOK, FifoInv, WordsInv, RxEdge
  PROVE  WordsInv'
<1> DEFINE AsPut(w) == w = Word(w.byte.of, w.byte.n) /\ w.byte.n <= Fr[w.byte.of].len
<1>1. coming \in [of : Frames, n : Nat] /\ coming.n <= Fr[coming.of].len
      /\ Fr[coming.of].len \in Nat
  BY FrameTyped DEF ReceiveTypeOK, WordsInv
<1>2. coming'.n <= Fr[coming'.of].len
  <2>1. CASE core_rst
    BY <2>1, FrameTyped DEF RxEdge
  <2>2. CASE ~core_rst /\ NoArrival
    BY <1>1, <2>2 DEF NoArrival
  <2>3. CASE ~core_rst /\ Arrive
    BY <1>1, <2>3, FrameTyped DEF Arrive, NextComing
  <2> QED BY <2>1, <2>2, <2>3 DEF RxEdge
<1>3. Left \in Seq(Words) /\ \A i \in 1..Len(Left) : AsPut(Left[i])
  <2>1. \A i \in 1..Len(fifo) : AsPut(fifo[i])
    BY DEF WordsInv
  <2>2. fifo \in Seq(Words) /\ Len(fifo) \in Nat
    BY LenProperties DEF ReceiveTypeOK
  <2>3. CASE Ru!RxRd
    <3>1. /\ Left \in Seq(Words) /\ Len(Left) = Len(fifo) - 1
          /\ \A i \in 1..Len(Left) : Left[i] = fifo[i + 1]
      BY <2>3, LeftSteps
    <3>2. \A i \in 1..Len(Left) : i + 1 \in 1..Len(fifo)
      BY <2>2, <3>1
    <3> HIDE DEF AsPut
    <3> QED BY <2>1, <3>1, <3>2
  <2>4. CASE ~Ru!RxRd
    BY <2>1, <2>2, <2>4, LeftSteps
  <2> QED BY <2>3, <2>4
<1>4. \A i \in 1..Len(fifo') : AsPut(fifo'[i])
  <2>1. CASE core_rst
    BY <2>1, EmptySeq DEF RxEdge
  <2>2. CASE ~core_rst /\ NoArrival
    BY <1>3, <2>2 DEF NoArrival
  <2>3. CASE ~core_rst /\ Arrive
    <3> DEFINE w == Word(coming.of, coming.n)
    <3>1. w \in Words /\ w.byte = coming
      BY <1>1, WordTyped
    <3>2. AsPut(w)
      BY <1>1, <3>1
    <3>3. fifo' = Append(Left, w)
      BY <2>3 DEF Arrive
    <3> HIDE DEF w, AsPut
    <3>4. /\ Len(fifo') = Len(Left) + 1 /\ Len(Left) \in Nat
          /\ \A i \in 1..Len(Left) : fifo'[i] = Left[i]
          /\ fifo'[Len(Left) + 1] = w
      BY <1>3, <3>1, <3>3, AppendProperties, LenProperties
    <3> QED BY <1>3, <3>2, <3>4
  <2> QED BY <2>1, <2>2, <2>3 DEF RxEdge
<1> QED BY <1>2, <1>4 DEF WordsInv, Word

-----------------------------------------------------------------------------
\* What the history makes of a frame while none of it is forgotten.
LEMMA FrameSteps ==
  ASSUME Clock, ~core_rst, ru_ctl # "ABORT", ~cut
  PROVE  /\ cfg' = cfg
         /\ frame' = IF state = "RU_READY" /\ ~rx_empty THEN rx_data.byte.of ELSE frame
         /\ state = "RU_READY" /\ ~rx_empty => outcome' = <<>>
         /\ state = "RU_COUNT_ERR" /\ bus_ack => outcome' = Append(outcome, Ru!WhichErr)
         /\ state = "RU_FIN_WR_STATUS" /\ bus_ack => outcome' = Append(outcome, "FILED")
         /\ (\/ state \notin {"RU_READY", "RU_COUNT_ERR", "RU_FIN_WR_STATUS"}
             \/ state = "RU_READY" /\ rx_empty
             \/ state \in {"RU_COUNT_ERR", "RU_FIN_WR_STATUS"} /\ ~bus_ack)
              => outcome' = outcome
<1>1. cfg' = cfg /\ ~Forget /\ FrameHistory
  BY DEF Clock, ControlEdge, History, Forget
<1> QED BY <1>1 DEF FrameHistory, Begins

\* The judgement of a frame does not change while its first buffer is known.
LEMMA SameJudgement ==
  ASSUME cfg' = cfg, NEW f
  PROVE  /\ Ours(f)' = Ours(f) /\ Faults(f)' = Faults(f)
         /\ frame_bd'.rbd = frame_bd.rbd => Fits(f)' = Fits(f) /\ Expected(f)' = Expected(f)
<1>1. Ours(f)' = Ours(f)
  BY DEF Ours
<1>2. Faults(f)' = Faults(f)
  BY DEF Faults
<1>3. frame_bd'.rbd = frame_bd.rbd => Fits(f)' = Fits(f)
  BY DEF Fits, HdrLen
<1>4. frame_bd'.rbd = frame_bd.rbd => Expected(f)' = Expected(f)
  BY <1>1, <1>2, <1>3 DEF Expected
<1> QED BY <1>1, <1>2, <1>3, <1>4

-----------------------------------------------------------------------------
\* What becomes of a frame, action by action.
Judged == InHandInv /\ TakenInv /\ FateInv

\* What the header leaves of a frame for the buffers.
LEMMA TakenIs ==
  /\ \A n \in Nat : /\ Taken(n) \in Nat
                    /\ Taken(n + 1) = IF ~cfg.al_loc /\ n < 14 THEN Taken(n) ELSE Taken(n) + 1
  /\ \A m, n \in Nat : m < n /\ Taken(m) > 0 => Taken(m) < Taken(n)
  /\ Taken(0) = 0
  /\ \A f \in Frames : Fr[f].len - HdrLen(f) = Taken(Fr[f].len)
<1>1. \A f \in Frames : Fr[f].len \in Nat
  BY FrameTyped
<1> QED BY <1>1 DEF Taken, HdrLen

LEMMA NoReading ==
  ASSUME state \notin {"RU_POP", "RU_DROP", "RU_FULL_PEEK"}
  PROVE  ~Ru!RxRd
BY DEF Ru!RxRd, Ru!PopNow

\* A frame that has been cut off is not followed.
LEMMA CutKeeps ==
  ASSUME Clock, ~core_rst, cut
  PROVE  Judged'
<1>1. cut'
  BY DEF Clock, History
<1> QED BY <1>1 DEF Judged, InHandInv, TakenInv, FateInv

\* With no frame in hand, on the way from one to the next.
LEMMA JudgedPast ==
  ASSUME VerdictIInv, Clock, ~core_rst, ru_ctl # "ABORT", ~cut, ~in_frame, ~in_frame',
         state \in Past, state' \in Past, frame_bd'.rbd = frame_bd.rbd,
         state = "RU_READY" => rx_empty
  PROVE  Judged'
<1>1. frame' = frame /\ outcome' = outcome /\ cfg' = cfg
  BY FrameSteps DEF Past, Resting, Between
<1>2. frame = Null \/ outcome = Expected(frame)
  BY DEF VerdictIInv, FateInv
<1>3. frame' = Null \/ outcome' = Expected(frame)'
  BY <1>1, <1>2, SameJudgement DEF Expected, Ours, Fits, Faults, HdrLen
<1> QED BY <1>3 DEF Judged, InHandInv, TakenInv, FateInv, Past, Resting, Between

LEMMA JudgedOpening ==
  ASSUME VerdictIInv, Clock, ~core_rst, ru_ctl # "ABORT", ~cut,
         Ru!Idle \/ Ru!NoResource \/ Ru!Arm \/ Ru!NextRfd
  PROVE  Judged'
<1> USE DEF VerdictIInv, Past, Resting, Between
<1>1. CASE Ru!Idle \/ Ru!NoResource
  <2>1. state \in {"RU_IDLE", "RU_NO_RESOURCE"} /\ UNCHANGED <<frame_bd, in_frame>>
        /\ state' \in {"RU_IDLE", "RU_NO_RESOURCE", "RU_RD_RFD_RBD"}
    BY <1>1 DEF Ru!Idle, Ru!NoResource, Ru!bufVars, Ru!frameVars, Ru!Goto
  <2>2. ~in_frame
    BY <2>1 DEF ReceiveIInv, FrameInv, Apart
  <2> QED BY <2>1, <2>2, JudgedPast
<1>2. CASE Ru!NextRfd
  <2>1. state = "RU_FIN_RD_LINK" /\ UNCHANGED <<frame_bd, in_frame>>
        /\ state' \in {"RU_IDLE", "RU_NO_RESOURCE", "RU_RD_NEXT_RBD"}
    BY <1>2 DEF Ru!NextRfd, Ru!bufVars, Ru!frameVars, Ru!Goto
  <2>2. ~in_frame
    BY <2>1 DEF HoldInv, Ru!FileStates
  <2> QED BY <2>1, <2>2, JudgedPast
<1>3. CASE Ru!Arm /\ ~in_frame
  <2>1. /\ state \in {"RU_RD_RFD_RBD", "RU_RD_NEXT_RBD"} \cup Opening
        /\ state' \in {"RU_NO_RESOURCE", "RU_READY"} \cup Opening
        /\ UNCHANGED <<frame_bd, in_frame>>
    BY <1>3, OpenSteps DEF Opening
  <2> QED BY <1>3, <2>1, JudgedPast DEF Opening
<1>4. CASE Ru!Arm /\ in_frame
  <2>1. state \in {"RU_RD_NEXT_RBD"} \cup Opening
    BY <1>4, OpenSteps DEF ReceiveIInv, FrameInv, Apart
  <2>2. frame' = frame /\ outcome' = outcome /\ cfg' = cfg /\ Upcoming' = Upcoming
    BY <2>1, FrameSteps, FifoSteps, NoReading DEF Opening, Clock, ReceiveIInv
  <2>3. /\ UNCHANGED <<frame_bd, in_frame, frame_len, rejected, err>>
        /\ state' \in {"RU_POP"} \cup Opening /\ buf_off' = 0
        /\ bd'.rbd = IF state = "RU_RD_NEXT_RBD" THEN Bd[bd.rbd].next ELSE bd.rbd
        /\ state' = "RU_POP" => Held(bd')
    BY <1>4, <2>1, OpenSteps DEF Opening, InHandInv, Filling
  <2>4. frame \in Frames /\ outcome = <<>> /\ err = {} /\ Upcoming.of = frame /\ Filling
    BY <1>4, <2>1 DEF InHandInv, Opening
  <2>5. Taken(frame_len) + Room[bd'.rbd] = Room[frame_bd.rbd]
    <3>1. /\ bd.rbd \in Rbds /\ frame_bd.rbd \in Rbds
          /\ state = "RU_RD_NEXT_RBD" => ~Bd[bd.rbd].el /\ bd.size = Bd[bd.rbd].size
      BY <1>4, <2>1 DEF HoldInv, Held, Opening, Ru!ArmStates
    <3>2. /\ Taken(frame_len) \in Nat /\ Room[bd.rbd] \in Nat /\ Room[frame_bd.rbd] \in Nat
          /\ Bd[bd.rbd].size \in Nat
      <4>1. frame_len \in Nat
        BY <2>4, UpcomingTyped DEF Filling, ReceiveIInv
      <4>2. Taken(frame_len) \in Nat
        BY <4>1, TakenIs
      <4> QED BY <3>1, <4>2, RoomIs, ListsAssumption
    <3>3. CASE state = "RU_RD_NEXT_RBD"
      <4>1. /\ Room[bd.rbd] = Bd[bd.rbd].size + Room[Bd[bd.rbd].next]
            /\ Room[Bd[bd.rbd].next] \in Nat
        BY <3>1, <3>3, RoomIs, ListsAssumption
      <4>2. Taken(frame_len) + Room[bd.rbd] = Room[frame_bd.rbd] + Bd[bd.rbd].size
        BY <2>4, <3>1, <3>3 DEF Filling
      <4>3. Room[bd'.rbd] = Room[Bd[bd.rbd].next]
        BY <2>3, <3>3
      <4>4. Taken(frame_len) + (Bd[bd.rbd].size + Room[bd'.rbd])
              = Room[frame_bd.rbd] + Bd[bd.rbd].size
        BY <4>1, <4>2, <4>3
      <4> HIDE DEF VerdictIInv
      <4> QED BY <3>2, <4>1, <4>3, <4>4
    <3>4. CASE state \in Opening
      BY <2>3, <2>4, <3>2, <3>4 DEF Filling, Opening
    <3> QED BY <2>1, <3>3, <3>4
  <2>6. state' = "RU_POP" => buf_off' < bd'.size
    BY <2>3, ListsAssumption DEF Held
  <2>7. Filling'
    <3>1. Taken(frame_len)' = Taken(frame_len) /\ Room[frame_bd.rbd] \in Nat
      BY <1>4, <2>2, <2>3, RoomIs DEF Taken, HoldInv, Held
    <3>2. (frame_len >= 6 => Ours(frame))'
      BY <2>2, <2>3, <2>4 DEF Filling, Ours
    <3> QED BY <2>2, <2>3, <2>4, <2>5, <2>6, <3>1, <3>2 DEF Filling, Opening
  <2> QED
    BY <1>4, <2>2, <2>3, <2>4, <2>7 DEF Judged, InHandInv, TakenInv, FateInv, Opening
<1> QED BY <1>1, <1>2, <1>3, <1>4

LEMMA JudgedReady ==
  ASSUME VerdictIInv, Clock, ~core_rst, ru_ctl # "ABORT", ~cut, Ru!Ready
  PROVE  Judged'
<1> USE DEF VerdictIInv
<1>1. /\ state = "RU_READY" /\ state' = "RU_POP" /\ ~rx_empty /\ bd' = bd /\ frame_bd' = bd
      /\ buf_off' = 0 /\ frame_len' = 0 /\ rejected' = FALSE /\ err' = {}
  BY DEF Ru!Ready, Ru!Goto
<1>2. Upcoming.n = 0 /\ Upcoming.of \in Frames /\ rx_data.byte = Upcoming
  BY <1>1, UpcomingTyped, WordSeen DEF ReceiveIInv, FrameInv, Apart, Resting, BoundaryInv
<1>3. Upcoming' = Upcoming
  BY <1>1, NoReading, FifoSteps DEF Clock, ReceiveIInv
<1>4. frame' = Upcoming.of /\ outcome' = <<>>
  BY <1>1, <1>2, FrameSteps
<1>5. Held(bd) /\ bd.size > 0
  BY <1>1, ListsAssumption DEF HoldInv, Held, Ru!ArmStates
<1>6. Filling'
  <2>1. Taken(0)' = 0 /\ Room[bd.rbd] \in Nat
    BY <1>5, RoomIs DEF Taken, Held
  <2>2. Taken(frame_len)' + Room[bd'.rbd] = Room[frame_bd'.rbd] + buf_off'
    BY <1>1, <2>1 DEF Taken
  <2> QED BY <1>1, <1>2, <1>3, <1>5, <2>2 DEF Filling, Opening
<1> QED BY <1>1, <1>2, <1>3, <1>4, <1>6 DEF Judged, InHandInv, TakenInv, FateInv, Past,
     Resting, Between

\* A frame in hand, as the states that take it find it.
LEMMA InHand ==
  ASSUME VerdictIInv, ~cut, in_frame, state \in {"RU_POP", "RU_FLUSH", "RU_FULL_PEEK",
         "RU_CLOSE_FULL"}
  PROVE  /\ frame \in Frames /\ outcome = <<>> /\ err = {} /\ Upcoming.of = frame /\ Filling
         /\ Held(bd) /\ Held(frame_bd)
         /\ frame_len \in Nat /\ buf_off \in Nat
         /\ frame_len <= Fr[frame].len /\ Fr[frame].len \in Nat /\ Fr[frame].len < 65536
         /\ Taken(frame_len) \in Nat
         /\ Room[frame_bd.rbd] \in Nat /\ Room[frame_bd.rbd] > 0
         /\ bd.size \in Nat /\ Room[bd.rbd] \in Nat
         /\ Room[bd.rbd] >= bd.size /\ (bd.el => Room[bd.rbd] = bd.size)
<1> USE DEF VerdictIInv
<1>1. frame \in Frames /\ outcome = <<>> /\ err = {} /\ Upcoming.of = frame /\ Filling
  BY DEF InHandInv
<1>2. Held(bd) /\ Held(frame_bd)
  BY DEF HoldInv, Ru!ArmStates
<1>3. frame_len \in Nat /\ frame_len <= Fr[frame].len /\ Fr[frame].len \in Nat /\ Fr[frame].len < 65536
  BY <1>1, UpcomingTyped DEF Filling, ReceiveIInv
<1>4. Taken(frame_len) \in Nat
  BY <1>3, TakenIs
<1>5. \A b \in Rbds : /\ Room[b] \in Nat /\ Bd[b].size \in Nat \ {0} /\ Room[b] >= Bd[b].size
                      /\ Bd[b].el => Room[b] = Bd[b].size
  <2> SUFFICES ASSUME NEW b \in Rbds
               PROVE  /\ Room[b] \in Nat /\ Bd[b].size \in Nat \ {0} /\ Room[b] >= Bd[b].size
                      /\ Bd[b].el => Room[b] = Bd[b].size
    OBVIOUS
  <2>1. /\ Bd[b].size \in Nat \ {0} /\ Bd[b].el \in BOOLEAN
        /\ ~Bd[b].el => Bd[b].next \in Rbds
    BY ListsAssumption
  <2>2. Room[b] = Bd[b].size + (IF Bd[b].el THEN 0 ELSE Room[Bd[b].next]) /\ Room[b] \in Nat
    BY RoomIs
  <2>3. ~Bd[b].el => Room[Bd[b].next] \in Nat
    BY <2>1, RoomIs
  <2> QED BY <2>1, <2>2, <2>3
<1>6. /\ Room[frame_bd.rbd] \in Nat /\ Room[frame_bd.rbd] > 0
      /\ bd.size \in Nat /\ Room[bd.rbd] \in Nat
      /\ Room[bd.rbd] >= bd.size /\ (bd.el => Room[bd.rbd] = bd.size)
  BY <1>2, <1>5 DEF Held
<1>7. buf_off \in Nat
  BY <1>1 DEF Filling
<1> QED BY <1>1, <1>2, <1>3, <1>4, <1>6, <1>7

\* The end of a frame, at the end of a buffer or before it.
LEMMA JudgedEnd ==
  ASSUME VerdictIInv, Clock, ~core_rst, ru_ctl # "ABORT", ~cut, in_frame,
         state \in {"RU_POP", "RU_FULL_PEEK"}, ~rx_empty, rx_data.end, Ru!TakeEnd(Ru!Short),
         state' \in {"RU_FLUSH", "RU_FIN_CLOSE_RBD"}, UNCHANGED <<frame_bd, rejected>>
  PROVE  Judged'
<1>1. /\ frame \in Frames /\ outcome = <<>> /\ Upcoming.of = frame /\ Filling
      /\ frame_len \in Nat /\ Fr[frame].len \in Nat
  BY InHand
<1>2. frame_len = Fr[frame].len /\ rx_data.err = Fr[frame].err
  BY <1>1, WordSeen DEF Filling, VerdictIInv, ReceiveIInv
<1>3. frame' = frame /\ outcome' = <<>> /\ cfg' = cfg /\ in_frame' = FALSE
  BY <1>1, FrameSteps DEF Ru!TakeEnd
<1>4. Ours(frame)
  BY <1>1, <1>2 DEF Filling, Ours
<1>5. Fits(frame)
  <2>1. /\ Taken(frame_len) + Room[bd.rbd] = Room[frame_bd.rbd] + buf_off
        /\ buf_off <= bd.size
    BY <1>1, InHand DEF Filling
  <2>2. Taken(frame_len) <= Room[frame_bd.rbd]
    BY <2>1, InHand
  <2> QED BY <1>1, <1>2, <2>2, TakenIs DEF Fits
<1>6. err' = Faults(frame)
  BY <1>2 DEF Ru!TakeEnd, Ru!Short, Ru!FrameIsShort, Faults
<1>7. Ours(frame)' /\ Fits(frame)' /\ err' = Faults(frame)'
  <2>1. Ours(frame)'
    BY <1>3, <1>4 DEF Ours
  <2>2. Fits(frame)'
    BY <1>3, <1>5 DEF Fits, HdrLen
  <2>3. err' = Faults(frame)'
    BY <1>3, <1>6 DEF Faults
  <2> QED BY <2>1, <2>2, <2>3
<1>8. ~rejected'
  BY <1>1 DEF Filling
<1> QED
  BY <1>1, <1>3, <1>7, <1>8 DEF Judged, InHandInv, TakenInv, FateInv, Past, Resting, Between

\* A byte of a frame: what it does to the frame's place in the FIFO and in the
\* buffers.
LEMMA JudgedByte ==
  ASSUME VerdictIInv, Clock, ~core_rst, ru_ctl # "ABORT", ~cut, Ru!PopByte,
         UNCHANGED <<bd, frame_bd>>
  PROVE  Judged'
<1>1. state = "RU_POP" /\ in_frame /\ in_frame' /\ ~rx_empty /\ Ru!RxRd /\ ~rx_data.end
      /\ UNCHANGED err
  BY DEF Ru!PopByte, Ru!PopNow, Ru!RxRd, VerdictIInv, HoldInv, Amid
<1>2. /\ frame \in Frames /\ outcome = <<>> /\ err = {} /\ Upcoming.of = frame /\ Filling
      /\ frame_len \in Nat /\ Fr[frame].len \in Nat /\ frame_len <= Fr[frame].len
      /\ Fr[frame].len < 65536
  BY <1>1, InHand
<1>3. frame_len < Fr[frame].len /\ rx_data.dst = Fr[frame].dst
  <2>1. Upcoming.n # Fr[Upcoming.of].len /\ rx_data.dst = Fr[Upcoming.of].dst
    BY <1>1, WordSeen DEF VerdictIInv, ReceiveIInv
  <2>2. Upcoming.n = frame_len
    BY <1>2 DEF Filling
  <2> QED BY <1>1, <1>2, <2>1, <2>2
<1>4. frame_len' = frame_len + 1
  <2>1. frame_len' = (frame_len + 1) % 65536
    BY DEF Ru!PopByte
  <2> QED BY <1>2, <1>3, <2>1
<1>5. Upcoming' = [of |-> frame, n |-> frame_len + 1]
  BY <1>1, <1>2, ReadingOn DEF Clock, Filling, VerdictIInv, ReceiveIInv
<1>6. frame' = frame /\ outcome' = <<>> /\ cfg' = cfg
  BY <1>1, <1>2, FrameSteps
<1>7. frame_len = 5 => (Ru!AcceptNext <=> Ours(frame))
  <2>1. frame_len = 5 => ~(Fr[frame].len < 6)
    BY <1>2, <1>3
  <2> QED BY <1>3, <2>1 DEF Ru!AcceptNext, Ours
<1>8. CASE Ru!RejectByte
  <2>1. state' = "RU_DROP" /\ ~Ours(frame)
    BY <1>7, <1>8 DEF Ru!RejectByte, Ru!Goto
  <2>2. ~Ours(frame)'
    BY <1>6, <2>1 DEF Ours
  <2> QED
    BY <1>1, <1>2, <1>5, <1>6, <2>1, <2>2 DEF Judged, InHandInv, TakenInv, FateInv, Past,
       Resting, Between
<1>9. CASE ~(frame_len = 5 /\ ~Ru!AcceptNext) /\ (Ru!HeaderByte \/ Ru!BufferByte)
  <2>1. (frame_len >= 6 => Ours(frame))'
    <3>1. frame_len + 1 >= 6 => Ours(frame)
      BY <1>2, <1>7, <1>9 DEF Filling
    <3> QED BY <1>4, <1>6, <3>1 DEF Ours
  <2>2. /\ Taken(frame_len) + Room[bd.rbd] = Room[frame_bd.rbd] + buf_off
        /\ buf_off < bd.size /\ buf_off \in Nat /\ bd.size \in Nat
        /\ Room[frame_bd.rbd] \in Nat /\ Room[bd.rbd] \in Nat /\ Taken(frame_len) \in Nat
    BY <1>1, <1>2, InHand DEF Filling
  <2>3. Taken(frame_len)' = Taken(frame_len + 1)
    BY <1>4, <1>6 DEF Taken
  <2>4. CASE Ru!HeaderByte
    <3>1. state' = "RU_POP" /\ UNCHANGED <<rejected, buf_off>> /\ ~cfg.al_loc /\ frame_len < 14
      BY <1>1, <2>4 DEF Ru!HeaderByte, Ru!HdrPhase
    <3>2. Taken(frame_len)' = Taken(frame_len)
      BY <1>2, <2>3, <3>1, TakenIs
    <3>3. Filling'
      BY <1>2, <1>4, <1>5, <2>1, <2>2, <3>1, <3>2 DEF Filling, Opening
    <3> QED
      BY <1>1, <1>2, <1>5, <1>6, <3>1, <3>3 DEF Judged, InHandInv, TakenInv, FateInv, Past,
         Resting, Between
  <2>5. CASE Ru!BufferByte
    <3>1. /\ buf_off' = buf_off + 1 /\ UNCHANGED rejected /\ ~(~cfg.al_loc /\ frame_len < 14)
          /\ IF buf_off + 1 >= bd.size
             THEN state' = "RU_FLUSH" /\ flush_to_end' = FALSE ELSE state' = "RU_POP"
      BY <1>1, <2>5 DEF Ru!BufferByte, Ru!HdrPhase, Ru!BufferFull, Ru!Goto
    <3>2. Taken(frame_len)' = Taken(frame_len) + 1
      BY <1>2, <2>3, <3>1, TakenIs
    <3>3. /\ Taken(frame_len)' + Room[bd.rbd] = Room[frame_bd.rbd] + buf_off'
          /\ buf_off' \in Nat
          /\ state' = "RU_POP" => buf_off' < bd.size
          /\ state' = "RU_FLUSH" => buf_off' = bd.size
      BY <2>2, <3>1, <3>2
    <3>4. Filling'
      BY <1>2, <1>4, <1>5, <2>1, <3>1, <3>3 DEF Filling, Opening
    <3> QED
      BY <1>1, <1>2, <1>5, <1>6, <3>1, <3>4 DEF Judged, InHandInv, TakenInv, FateInv, Past,
         Resting, Between
  <2> QED BY <1>9, <2>4, <2>5
<1>10. Ru!HeaderByte \/ Ru!BufferByte => ~(frame_len = 5 /\ ~Ru!AcceptNext)
  BY DEF Ru!HeaderByte, Ru!BufferByte
<1> QED BY <1>8, <1>9, <1>10 DEF Ru!PopByte

\* A frame in hand stays as it is while the unit looks for room for it.
LEMMA JudgedStill ==
  ASSUME VerdictIInv, Clock, ~core_rst, ru_ctl # "ABORT", ~cut, in_frame, in_frame',
         state \in {"RU_FLUSH", "RU_FULL_PEEK", "RU_CLOSE_FULL", "RU_POP"}, ~Ru!RxRd,
         UNCHANGED <<bd, frame_bd, frame_len, rejected, err, buf_off>>,
         \/ state' = state /\ UNCHANGED flush_to_end
         \/ state = "RU_FLUSH" /\ state' = "RU_FULL_PEEK"
         \/ state = "RU_FULL_PEEK" /\ state' = "RU_CLOSE_FULL" /\ frame_len < Fr[frame].len
         \/ state = "RU_CLOSE_FULL" /\ state' = "RU_RD_NEXT_RBD"
  PROVE  Judged'
<1>1. /\ frame \in Frames /\ outcome = <<>> /\ err = {} /\ Upcoming.of = frame /\ Filling
  BY InHand
<1>2. frame' = frame /\ outcome' = <<>> /\ cfg' = cfg /\ Upcoming' = Upcoming
  BY <1>1, FrameSteps, FifoSteps DEF Clock, VerdictIInv, ReceiveIInv
<1>3. Taken(frame_len)' = Taken(frame_len) /\ (frame_len >= 6 => Ours(frame))'
  BY <1>1, <1>2 DEF Taken, Ours, Filling
<1>4. Filling'
  BY <1>1, <1>2, <1>3 DEF Filling, Opening
<1>5. state' = "RU_FLUSH" => ~flush_to_end'
  BY DEF VerdictIInv, HoldInv, ReceiveIInv, ReceiveTypeOK
<1> QED
  BY <1>1, <1>2, <1>4, <1>5 DEF Judged, InHandInv, TakenInv, FateInv, Past, Resting, Between

\* A frame taken whole stays as it is until its last buffer is closed.
LEMMA JudgedWhole ==
  ASSUME VerdictIInv, Clock, ~core_rst, ru_ctl # "ABORT", ~cut, ~in_frame, ~in_frame',
         state = "RU_FIN_CLOSE_RBD" \/ (state = "RU_FLUSH" /\ flush_to_end),
         state' \in {"RU_FLUSH", "RU_FIN_CLOSE_RBD"},
         UNCHANGED <<frame_bd, rejected, err>>
  PROVE  Judged'
<1>1. /\ frame \in Frames /\ outcome = <<>> /\ ~rejected
      /\ Ours(frame) /\ Fits(frame) /\ err = Faults(frame)
  BY DEF VerdictIInv, TakenInv
<1>2. frame' = frame /\ outcome' = <<>> /\ cfg' = cfg
  BY <1>1, FrameSteps
<1>3. Ours(frame)' /\ Fits(frame)' /\ err' = Faults(frame)'
  BY <1>1, <1>2 DEF Ours, Fits, HdrLen, Faults
<1> QED BY <1>1, <1>2, <1>3 DEF Judged, InHandInv, TakenInv, FateInv, Past, Resting, Between

\* The last buffer is full and the frame goes on: it does not fit.
LEMMA JudgedTooLong ==
  ASSUME VerdictIInv, Clock, ~core_rst, ru_ctl # "ABORT", ~cut, in_frame, in_frame',
         state = "RU_CLOSE_FULL", state' = "RU_DROP", bd.el, UNCHANGED <<frame_bd, err>>
  PROVE  Judged'
<1>1. /\ frame \in Frames /\ outcome = <<>> /\ err = {} /\ Upcoming.of = frame /\ Filling
      /\ frame_len \in Nat /\ Fr[frame].len \in Nat
  BY InHand
<1>2. frame' = frame /\ outcome' = <<>> /\ cfg' = cfg /\ Upcoming' = Upcoming
  BY <1>1, NoReading, FrameSteps, FifoSteps DEF Clock, VerdictIInv, ReceiveIInv
<1>3. Taken(frame_len) = Room[frame_bd.rbd] /\ Taken(frame_len) > 0
  <2>1. Taken(frame_len) + Room[bd.rbd] = Room[frame_bd.rbd] + bd.size
    BY <1>1 DEF Filling
  <2> QED BY <2>1, InHand
<1>4. Taken(frame_len) < Taken(Fr[frame].len) /\ Taken(Fr[frame].len) \in Nat
  BY <1>1, <1>3, TakenIs DEF Filling
<1>5. ~Fits(frame)
  <2>1. Fr[frame].len - HdrLen(frame) = Taken(Fr[frame].len)
    BY <1>1, TakenIs
  <2>2. Taken(frame_len) \in Nat
    BY <1>1, TakenIs
  <2> QED BY <1>3, <1>4, <2>1, <2>2 DEF Fits
<1>6. ~Fits(frame)'
  BY <1>2, <1>5 DEF Fits, HdrLen
<1> QED
  BY <1>1, <1>2, <1>6 DEF Judged, InHandInv, TakenInv, FateInv, Past, Resting, Between

LEMMA JudgedTake ==
  ASSUME VerdictIInv, Clock, ~core_rst, ru_ctl # "ABORT", ~cut, Ru!Take
  PROVE  Judged'
<1> USE DEF Ru!Goto
<1>1. UNCHANGED <<bd, frame_bd>> /\ {in_frame, flush_to_end} \subseteq BOOLEAN
  BY DEF Ru!Take, VerdictIInv, ReceiveIInv, ReceiveTypeOK
<1>2. CASE Ru!PopEnd
  <2>1. /\ in_frame /\ state = "RU_POP" /\ ~rx_empty /\ rx_data.end
        /\ Ru!TakeEnd(Ru!Short) /\ state' = "RU_FLUSH" /\ UNCHANGED rejected
    BY <1>2 DEF Ru!PopEnd, Ru!PopNow, VerdictIInv, HoldInv, Amid
  <2> QED BY <1>1, <2>1, JudgedEnd
<1>3. CASE Ru!PopByte
  BY <1>1, <1>3, JudgedByte
<1>4. CASE Ru!Flush
  <2>1. /\ state = "RU_FLUSH"
        /\ UNCHANGED <<buf_off, frame_len, in_frame, rejected, err, flush_to_end>>
        /\ \/ state' = state
           \/ state' = IF flush_to_end THEN "RU_FIN_CLOSE_RBD" ELSE "RU_FULL_PEEK"
    BY <1>4 DEF Ru!Flush, Ru!frameVars
  <2>2. in_frame = ~flush_to_end
    BY <2>1 DEF VerdictIInv, HoldInv
  <2>3. CASE in_frame
    BY <1>1, <2>1, <2>2, <2>3, NoReading, JudgedStill
  <2>4. CASE ~in_frame
    BY <1>1, <2>1, <2>2, <2>4, JudgedWhole
  <2> QED BY <2>3, <2>4
<1>5. CASE Ru!FullPeek
  <2>1. state = "RU_FULL_PEEK" /\ ~rx_empty /\ in_frame
    BY <1>5 DEF Ru!FullPeek, VerdictIInv, HoldInv, Amid
  <2>2. CASE rx_data.end
    <3>1. Ru!TakeEnd(Ru!Short) /\ state' = "RU_FIN_CLOSE_RBD" /\ UNCHANGED rejected
      BY <1>5, <2>2 DEF Ru!FullPeek, Ru!OverToo
    <3> QED BY <1>1, <2>1, <2>2, <3>1, JudgedEnd
  <2>3. CASE ~rx_data.end
    <3>1. /\ state' = "RU_CLOSE_FULL" /\ ~Ru!RxRd
          /\ UNCHANGED <<in_frame, err, buf_off, frame_len, rejected>>
      BY <1>5, <2>1, <2>3 DEF Ru!FullPeek, Ru!OverToo, Ru!RxRd, Ru!PopNow
    <3>2. frame_len < Fr[frame].len
      <4>1. Upcoming.n # Fr[Upcoming.of].len
        BY <2>1, <2>3, WordSeen DEF VerdictIInv, ReceiveIInv
      <4>2. /\ Upcoming.n = frame_len /\ Upcoming.of = frame
            /\ frame_len \in Nat /\ Fr[frame].len \in Nat /\ frame_len <= Fr[frame].len
        BY <2>1, InHand DEF Filling
      <4> QED BY <4>1, <4>2
    <3> QED BY <1>1, <2>1, <3>1, <3>2, JudgedStill
  <2> QED BY <2>2, <2>3
<1>6. CASE Ru!CloseFull
  <2>1. /\ state = "RU_CLOSE_FULL" /\ in_frame
        /\ UNCHANGED <<buf_off, frame_len, in_frame, err>>
        /\ IF bd.el THEN state' = "RU_DROP" ELSE state' = "RU_RD_NEXT_RBD" /\ UNCHANGED rejected
    BY <1>6 DEF Ru!CloseFull, VerdictIInv, HoldInv, Amid
  <2>2. CASE bd.el
    BY <1>1, <2>1, <2>2, JudgedTooLong
  <2>3. CASE ~bd.el
    BY <1>1, <2>1, <2>3, NoReading, JudgedStill
  <2> QED BY <2>2, <2>3
<1> QED BY <1>2, <1>3, <1>4, <1>5, <1>6 DEF Ru!Take

-----------------------------------------------------------------------------
\* A frame's fate: dropped, closed, counted and filed.

LEMMA JudgedDrop ==
  ASSUME VerdictIInv, Clock, ~core_rst, ru_ctl # "ABORT", ~cut, Ru!Drop
  PROVE  Judged'
<1>1. /\ state = "RU_DROP" /\ state' = "RU_COUNT_ERR" /\ ~rx_empty /\ in_frame
      /\ in_frame' = FALSE /\ count_then_file' = FALSE /\ UNCHANGED frame_bd
      /\ err' = rx_data.err \cup (err \cap {"short"})
  BY DEF Ru!Drop, Ru!Goto, VerdictIInv, HoldInv, Amid
<1>2. /\ frame \in Frames /\ outcome = <<>> /\ err = {} /\ Upcoming.of = frame
      /\ ~Ours(frame) \/ ~Fits(frame)
  BY <1>1 DEF VerdictIInv, InHandInv
<1>3. frame' = frame /\ outcome' = <<>> /\ cfg' = cfg
  BY <1>1, <1>2, FrameSteps
<1>4. err' = Fr[frame].err
  BY <1>1, <1>2, WordSeen DEF VerdictIInv, ReceiveIInv
<1>5. Expected(frame)' = <<Ru!WhichErr'>>
  <2>1. Expected(frame) = <<Ru!CounterOf(Fr[frame].err)>>
    BY <1>2 DEF Expected
  <2>2. Expected(frame)' = Expected(frame)
    BY <1>1, <1>3, SameJudgement DEF Expected, Ours, Fits, Faults, HdrLen
  <2> QED BY <1>4, <2>1, <2>2 DEF Ru!WhichErr
<1> QED
  BY <1>1, <1>3, <1>5 DEF Judged, InHandInv, TakenInv, FateInv, Past, Resting, Between

LEMMA JudgedClose ==
  ASSUME VerdictIInv, Clock, ~core_rst, ru_ctl # "ABORT", ~cut, Ru!CloseRbd
  PROVE  Judged'
<1>1. /\ state = "RU_FIN_CLOSE_RBD" /\ ~in_frame /\ UNCHANGED <<frame_bd, in_frame, err>>
      /\ IF Ru!Kept
         THEN IF err = {} THEN state' = "RU_FIN_WR_RFD_RBD"
              ELSE state' = "RU_COUNT_ERR" /\ count_then_file' = TRUE
         ELSE state' = "RU_COUNT_ERR" /\ count_then_file' = FALSE
  BY DEF Ru!CloseRbd, Ru!FrameGood, Ru!frameVars, Ru!Goto, VerdictIInv, HoldInv, Ru!FileStates
<1>2. /\ frame \in Frames /\ outcome = <<>> /\ ~rejected
      /\ Ours(frame) /\ Fits(frame) /\ err = Faults(frame)
  BY <1>1 DEF VerdictIInv, TakenInv
<1>3. frame' = frame /\ outcome' = <<>> /\ cfg' = cfg
  BY <1>1, <1>2, FrameSteps
<1>4. Expected(frame)' = Expected(frame)
  BY <1>1, <1>3, SameJudgement DEF Expected, Ours, Fits, Faults, HdrLen
<1>5. Ru!WhichErr' = Ru!CounterOf(Faults(frame))
  BY <1>1, <1>2 DEF Ru!WhichErr
<1>6. CASE Ru!Kept /\ err = {}
  <2>1. Expected(frame) = <<"FILED">>
    BY <1>2, <1>6 DEF Expected
  <2>2. Append(<<>>, "FILED") = <<"FILED">>
    OBVIOUS
  <2> QED
    BY <1>1, <1>3, <1>4, <1>6, <2>1, <2>2 DEF Judged, InHandInv, TakenInv, FateInv, Past,
       Resting, Between
<1>7. CASE Ru!Kept /\ err # {}
  <2>1. Expected(frame) = <<Ru!WhichErr', "FILED">>
    BY <1>2, <1>5, <1>7 DEF Expected, Ru!Kept, Ru!FrameGood
  <2> QED
    BY <1>1, <1>3, <1>4, <1>7, <2>1 DEF Judged, InHandInv, TakenInv, FateInv, Past,
       Resting, Between
<1>8. CASE ~Ru!Kept
  <2>1. Expected(frame) = <<Ru!WhichErr'>>
    BY <1>2, <1>5, <1>8 DEF Expected, Ru!Kept, Ru!FrameGood
  <2> QED
    BY <1>1, <1>3, <1>4, <1>8, <2>1 DEF Judged, InHandInv, TakenInv, FateInv, Past,
       Resting, Between
<1> QED BY <1>6, <1>7, <1>8

LEMMA AppendToOne ==
  ASSUME NEW a, NEW b
  PROVE  Append(<<a>>, b) = <<a, b>>
<1> DEFINE S == {a, b}
           s == Append(<<a>>, b)
           t == <<a, b>>
<1>1. <<a>> \in Seq(S) /\ Len(<<a>>) = 1 /\ <<a>>[1] = a
  OBVIOUS
<1>2. t \in Seq(S) /\ Len(t) = 2 /\ t[1] = a /\ t[2] = b
  OBVIOUS
<1>3. s \in Seq(S) /\ Len(s) = 1 + 1 /\ s[1] = a /\ s[1 + 1] = b
  BY <1>1, AppendProperties
<1> HIDE DEF s, t, S
<1>4. Len(s) = Len(t) /\ \A i \in 1..Len(s) : s[i] = t[i]
  BY <1>2, <1>3
<1>5. s = t
  BY <1>2, <1>3, <1>4, SeqEqual
<1> QED BY <1>5 DEF s, t

LEMMA JudgedCount ==
  ASSUME VerdictIInv, Clock, ~core_rst, ru_ctl # "ABORT", ~cut, Ru!CountErr
  PROVE  Judged'
<1>1. /\ state = "RU_COUNT_ERR" /\ bus_ack /\ ~in_frame /\ UNCHANGED <<frame_bd, in_frame>>
      /\ state' = IF count_then_file THEN "RU_FIN_WR_RFD_RBD" ELSE "RU_READY"
  BY DEF Ru!CountErr, Ru!bufVars, Ru!frameVars, Ru!Goto, VerdictIInv, HoldInv
<1>2. /\ outcome = <<>>
      /\ Expected(frame) = IF count_then_file THEN <<Ru!WhichErr, "FILED">>
                                              ELSE <<Ru!WhichErr>>
  BY <1>1 DEF VerdictIInv, FateInv
<1>3. frame' = frame /\ outcome' = <<Ru!WhichErr>> /\ cfg' = cfg
  BY <1>1, <1>2, FrameSteps
<1>4. Expected(frame)' = Expected(frame)
  BY <1>1, <1>3, SameJudgement DEF Expected, Ours, Fits, Faults, HdrLen
<1>5. Append(<<Ru!WhichErr>>, "FILED") = <<Ru!WhichErr, "FILED">>
  BY AppendToOne
<1> QED
  BY <1>1, <1>2, <1>3, <1>4, <1>5 DEF Judged, InHandInv, TakenInv, FateInv, Past, Resting,
       Between

LEMMA JudgedFiling ==
  ASSUME VerdictIInv, Clock, ~core_rst, ru_ctl # "ABORT", ~cut,
         Ru!LinkBuffers \/ Ru!WriteStatus
  PROVE  Judged'
<1>1. /\ state \in {"RU_FIN_WR_RFD_RBD", "RU_FIN_RD_CMD", "RU_FIN_WR_STATUS"}
      /\ ~in_frame /\ UNCHANGED in_frame
  BY DEF Ru!LinkBuffers, Ru!WriteStatus, Ru!Filed, Ru!frameVars, VerdictIInv, HoldInv,
     Ru!FileStates
<1>2. frame_bd'.rbd = frame_bd.rbd
  <2>1. DOMAIN frame_bd = {"rbd", "buf", "size", "el"}
    BY DEF VerdictIInv, HoldInv, Ru!NoBd
  <2>2. frame_bd' = frame_bd \/ frame_bd' = [frame_bd EXCEPT !.el = rdata]
    <3>1. CASE Ru!LinkBuffers
      BY <3>1 DEF Ru!LinkBuffers
    <3>2. CASE Ru!WriteStatus
      BY <3>2 DEF Ru!WriteStatus, Ru!bufVars
    <3> QED BY <3>1, <3>2
  <2>3. frame_bd' = [frame_bd EXCEPT !.el = rdata] => frame_bd'.rbd = frame_bd.rbd
    BY <2>1
  <2> QED BY <2>2, <2>3
<1>3. frame' = frame /\ cfg' = cfg /\ Expected(frame) = Append(outcome, "FILED")
  BY <1>1, FrameSteps DEF VerdictIInv, FateInv
<1>4. Expected(frame)' = Expected(frame)
  BY <1>2, <1>3, SameJudgement DEF Expected, Ours, Fits, Faults, HdrLen
<1>5. CASE Ru!LinkBuffers
  <2>1. /\ state \in {"RU_FIN_WR_RFD_RBD", "RU_FIN_RD_CMD"}
        /\ state' \in {"RU_FIN_RD_CMD", "RU_FIN_WR_STATUS"}
    BY <1>5 DEF Ru!LinkBuffers, Ru!Goto
  <2>2. outcome' = outcome
    BY <2>1, FrameSteps
  <2> QED
    BY <1>1, <1>3, <1>4, <2>1, <2>2 DEF Judged, InHandInv, TakenInv, FateInv, Past,
       Resting, Between
<1>6. CASE Ru!WriteStatus
  <2>1. state = "RU_FIN_WR_STATUS" /\ bus_ack /\ state' = "RU_FIN_RD_LINK"
    BY <1>6 DEF Ru!WriteStatus, Ru!Filed, Ru!Goto
  <2>2. outcome' = Append(outcome, "FILED")
    BY <2>1, FrameSteps
  <2> QED
    BY <1>1, <1>3, <1>4, <2>1, <2>2 DEF Judged, InHandInv, TakenInv, FateInv, Past,
       Resting, Between
<1> QED BY <1>5, <1>6

LEMMA JudgedWait ==
  ASSUME VerdictIInv, Clock, ~core_rst, ru_ctl # "ABORT", ~cut, Ru!Wait
  PROVE  Judged'
<1>1. UNCHANGED <<state, bd, buf_off, frame_bd, frame_len, in_frame, rejected, err,
                  count_then_file, flush_to_end>>
  BY DEF Ru!Wait, Ru!bufVars, Ru!frameVars, Ru!pathVars
<1>2. frame' = frame /\ outcome' = outcome /\ cfg' = cfg
  BY FrameSteps DEF Ru!Wait, Ru!AckStates, Ru!ArmStates, Ru!FileStates
<1>3. /\ Ours(frame)' = Ours(frame) /\ Fits(frame)' = Fits(frame)
      /\ Faults(frame)' = Faults(frame) /\ Expected(frame)' = Expected(frame)
  BY <1>1, <1>2, SameJudgement DEF Expected, Ours, Fits, Faults, HdrLen
<1>4. InHandInv'
  <2> SUFFICES ASSUME in_frame
               PROVE  InHandInv'
    BY <1>1 DEF InHandInv
  <2>1. frame \in Frames /\ outcome = <<>> /\ err = {} /\ Upcoming.of = frame
    BY DEF VerdictIInv, InHandInv
  <2>2. CASE state = "RU_DROP"
    <3>1. ~Ours(frame) \/ ~Fits(frame)
      BY <2>2 DEF VerdictIInv, InHandInv
    <3>2. Upcoming'.of = Upcoming.of
      <4>1. CASE Ru!RxRd
        <5>1. ~rx_data.end
          BY <2>2, <4>1 DEF Ru!Wait, Ru!RxRd, Ru!PopNow, Ru!AckStates, Ru!ArmStates,
               Ru!FileStates
        <5> QED BY <4>1, <5>1, ReadingOn DEF Clock, VerdictIInv, ReceiveIInv
      <4>2. CASE ~Ru!RxRd
        BY <4>2, FifoSteps DEF Clock, VerdictIInv, ReceiveIInv
      <4> QED BY <4>1, <4>2
    <3> QED BY <1>1, <1>2, <1>3, <2>1, <2>2, <3>1, <3>2 DEF InHandInv
  <2>3. CASE state # "RU_DROP"
    <3>1. Filling
      BY <2>3 DEF VerdictIInv, InHandInv
    <3>2. ~Ru!RxRd
      BY <2>3 DEF Ru!Wait, Ru!RxRd, Ru!PopNow, Ru!AckStates, Ru!ArmStates, Ru!FileStates
    <3>3. Upcoming' = Upcoming
      BY <3>2, FifoSteps DEF Clock, VerdictIInv, ReceiveIInv
    <3>4. Taken(frame_len)' = Taken(frame_len)
      BY <1>1, <1>2 DEF Taken
    <3>5. Filling'
      BY <1>1, <1>2, <1>3, <3>1, <3>3, <3>4 DEF Filling
    <3> QED BY <1>1, <1>2, <2>1, <2>3, <3>3, <3>5 DEF InHandInv
  <2> QED BY <2>2, <2>3
<1>5. TakenInv'
  BY <1>1, <1>2, <1>3 DEF VerdictIInv, TakenInv
<1>6. FateInv'
  BY <1>1, <1>2, <1>3 DEF VerdictIInv, FateInv, Ru!WhichErr
<1> QED BY <1>4, <1>5, <1>6 DEF Judged

\* A reset or an abort: no frame is followed further.
LEMMA JudgedForget ==
  ASSUME VerdictIInv, Clock, Ru!RuReset \/ (~core_rst /\ Ru!Abort)
  PROVE  Judged'
<1>1. state' = "RU_IDLE" /\ frame' = Null
  BY DEF Ru!RuReset, Ru!Abort, Ru!Aborting, Ru!Goto, Clock, History, FrameHistory, Forget
<1>2. ~cut' => ~in_frame'
  <2>1. CASE Ru!RuReset
    BY <2>1 DEF Ru!RuReset
  <2>2. CASE ~core_rst /\ Ru!Abort
    BY <2>2 DEF Ru!Abort, Ru!Aborting, Ru!frameVars, Clock, History, VerdictIInv,
         ReceiveIInv, ReceiveTypeOK
  <2> QED BY <2>1, <2>2
<1> QED BY <1>1, <1>2 DEF Judged, InHandInv, TakenInv, FateInv

LEMMA JudgedKeeps ==
  ASSUME VerdictIInv, Clock
  PROVE  Judged'
<1>1. CASE Ru!RuReset \/ (~core_rst /\ Ru!Abort)
  BY <1>1, JudgedForget
<1>2. CASE ~core_rst /\ cut
  BY <1>2, CutKeeps
<1>3. CASE /\ ~core_rst /\ ru_ctl # "ABORT" /\ ~cut
           /\ \/ Ru!Idle \/ Ru!NoResource \/ Ru!Arm \/ Ru!Ready
              \/ Ru!Take \/ Ru!Dispose \/ Ru!WriteStatus \/ Ru!NextRfd \/ Ru!Wait
  BY <1>3, JudgedOpening, JudgedReady, JudgedTake, JudgedDrop, JudgedClose, JudgedCount,
     JudgedFiling, JudgedWait DEF Ru!Dispose
<1> QED BY <1>1, <1>2, <1>3, RuCases DEF Clock, Ru!RuReset

-----------------------------------------------------------------------------
\* The count of a frame's bytes is a number, whatever happens.
LEMMA CountKeeps ==
  ASSUME Ru!RuEdge, frame_len \in Nat
  PROVE  frame_len' \in Nat
<1>1. frame_len' \in {0, frame_len, (frame_len + 1) % 65536}
  <2>1. CASE Ru!Take
    BY <2>1 DEF Ru!Take, Ru!PopEnd, Ru!PopByte, Ru!Flush, Ru!FullPeek, Ru!CloseFull,
         Ru!frameVars
  <2>2. CASE Ru!Dispose
    <3>1. Ru!Drop \/ Ru!CloseRbd \/ Ru!CountErr => UNCHANGED frame_len
      BY DEF Ru!Drop, Ru!CloseRbd, Ru!CountErr, Ru!frameVars
    <3>2. Ru!LinkBuffers => UNCHANGED frame_len
      BY DEF Ru!LinkBuffers, Ru!frameVars
    <3> QED BY <2>2, <3>1, <3>2 DEF Ru!Dispose
  <2>3. CASE Ru!RuReset \/ Ru!Abort \/ Ru!Idle \/ Ru!NoResource \/ Ru!Ready \/ Ru!WriteStatus
             \/ Ru!NextRfd \/ Ru!Wait
    BY <2>3 DEF Ru!RuReset, Ru!Abort, Ru!Idle, Ru!NoResource, Ru!Ready, Ru!WriteStatus,
       Ru!NextRfd, Ru!Wait, Ru!frameVars
  <2>4. CASE Ru!Arm
    BY <2>4 DEF Ru!Arm, Ru!frameVars
  <2> QED BY <2>1, <2>2, <2>3, <2>4, RuCases
<1> QED BY <1>1

LEMMA VerdictInit == Init => VerdictIInv
<1> SUFFICES ASSUME Init
             PROVE  VerdictIInv
  OBVIOUS
<1> USE DEF Init, Ru!RuInit
<1>1. ReceiveIInv
  BY InitInv
<1>2. PulseInv /\ PostInv /\ frame_len \in Nat
  BY DEF PulseInv, PostInv, Ru!wp_valid, Ru!NoRequest, Ru!Access
<1>3. ReadInv
  BY DEF ReadInv
<1>4. LinkInv
  BY ListsAssumption DEF LinkInv, Built
<1>5. HoldInv
  BY DEF HoldInv, Opening, Ru!ArmStates, Amid, Ru!FileStates, Keeping
<1>6. WordsInv
  <2>1. coming.n = 0 /\ coming.of \in Frames
    OBVIOUS
  <2> QED BY <2>1, EmptySeq, FrameTyped DEF WordsInv
<1>7. InHandInv /\ TakenInv /\ FateInv
  BY DEF InHandInv, TakenInv, FateInv
<1> QED BY <1>1, <1>2, <1>3, <1>4, <1>5, <1>6, <1>7 DEF VerdictIInv

LEMMA VerdictStutter ==
  ASSUME VerdictIInv, UNCHANGED vars
  PROVE  VerdictIInv'
<1>1. UNCHANGED <<ruVars, ctlVars, rxVars, portVars, memVars, histVars>>
  BY DEF vars
<1>2. ReceiveIInv'
  BY StutterInv DEF VerdictIInv
<1> USE <1>1 DEF ruVars, ctlVars, rxVars, portVars, memVars, histVars, VerdictIInv
<1>3. PulseInv' /\ PostInv' /\ frame_len' \in Nat
  BY DEF PulseInv, PostInv, Ru!wp_valid
<1>4. ReadInv' /\ LinkInv'
  BY DEF ReadInv, LinkInv, Memory, RfdField, Ru!StateRequest, Ru!WhichErr, Ru!ErrValue
<1>5. HoldInv'
  BY DEF HoldInv, Held
<1>6. WordsInv'
  BY DEF WordsInv
<1>7. /\ Ours(frame)' = Ours(frame) /\ Fits(frame)' = Fits(frame)
      /\ Faults(frame)' = Faults(frame) /\ Expected(frame)' = Expected(frame)
  BY DEF Expected, Ours, Fits, Faults, HdrLen
<1>8. InHandInv'
  BY <1>7 DEF InHandInv, Filling, Taken, Upcoming
<1>9. TakenInv'
  BY <1>7 DEF TakenInv
<1>10. FateInv'
  BY <1>7 DEF FateInv, Ru!WhichErr
<1> QED BY <1>2, <1>3, <1>4, <1>5, <1>6, <1>8, <1>9, <1>10

LEMMA VerdictStep ==
  ASSUME VerdictIInv, Clock
  PROVE  VerdictIInv'
<1>1. ReceiveIInv'
  BY ReceiveStep DEF VerdictIInv
<1>2. PulseInv' /\ PostInv' /\ frame_len' \in Nat
  BY PulseKeeps, PostKeeps, CountKeeps DEF VerdictIInv, Clock
<1>3. ReadInv' /\ LinkInv' /\ HoldInv'
  BY ReadKeeps, LinkKeeps, HoldKeeps DEF VerdictIInv, ReceiveIInv
<1>4. WordsInv'
  BY WordsKeeps DEF VerdictIInv, ReceiveIInv, Clock
<1> QED BY <1>1, <1>2, <1>3, <1>4, JudgedKeeps DEF VerdictIInv, Judged

\* The inductive invariant: whose word comes next, how much of the buffers the
\* frame in hand fills, and what is due to it.
THEOREM VerdictInvariance == Spec => []VerdictIInv
<1>1. VerdictIInv /\ [Next]_vars => VerdictIInv'
  BY VerdictStep, VerdictStutter DEF Next
<1> QED BY VerdictInit, <1>1, PTL DEF Spec

\* Every frame the receive unit takes up has exactly one fate, the one it
\* deserves, for all areas, frames and configurations (ie_ru's filter, its walk
\* along the buffers, its verdict on short and bad frames, its counters).
THEOREM OneFateEach == Spec => []Verdict
<1>1. VerdictIInv => Verdict
  <2> SUFFICES ASSUME VerdictIInv, state \in Resting, frame # Null, ~cut
               PROVE  outcome = Expected(frame)
    BY DEF Verdict
  <2>1. ~in_frame
    BY DEF VerdictIInv, ReceiveIInv, FrameInv, Apart
  <2> QED BY <2>1 DEF VerdictIInv, FateInv, Past
<1> QED BY VerdictInvariance, <1>1, PTL
-----------------------------------------------------------------------------
(***************************************************************************)
(* Where the receive unit writes, and what is in memory when it has filed  *)
(* a frame: for all frame areas that end, all frames and configurations.   *)
(***************************************************************************)

\* The lists.

LEMMA RfdsEnd ==
  ASSUME NEW S \in SUBSET Rfds, \A r \in S : ~Rf[r].el /\ Rf[r].link \in S
  PROVE  S = {}
BY AreasAssumption

LEMMA BehindExists ==
  \E f \in [Rfds -> Nat] :
    \A r \in Rfds : f[r] = 1 + (IF Rf[r].el THEN 0 ELSE f[Rf[r].link])
<1> DEFINE last == {r \in Rfds : Rf[r].el}
           next == [r \in Rfds \ last |-> Rf[r].link]
           base == [r \in last |-> 1]
           step == [x \in Rfds \X Nat |-> 1 + x[2]]
<1>1. Chain(Rfds, Nat, last, next, base, step)
  <2>1. /\ last \in SUBSET Rfds /\ next \in [Rfds \ last -> Rfds] /\ base \in [last -> Nat]
        /\ step \in [Rfds \X Nat -> Nat]
    BY ListsAssumption
  <2>2. \A S \in SUBSET Rfds : (\A x \in S : x \notin last /\ next[x] \in S) => S = {}
    <3> SUFFICES ASSUME NEW S \in SUBSET Rfds, \A x \in S : x \notin last /\ next[x] \in S
                 PROVE  S = {}
      OBVIOUS
    <3>1. \A x \in S : ~Rf[x].el /\ Rf[x].link \in S
      OBVIOUS
    <3> HIDE DEF last, next
    <3> QED BY <3>1, RfdsEnd
  <2>3. IsFiniteSet(Rfds)
    BY AreasAssumption
  <2> HIDE DEF last, next, base, step
  <2> QED BY <2>1, <2>2, <2>3 DEF Chain
<1>2. \A r \in Rfds : (r \in last <=> Rf[r].el) /\ (r \notin last => next[r] = Rf[r].link)
                      /\ (r \in last => base[r] = 1)
  OBVIOUS
<1>3. \A r \in Rfds, n \in Nat : step[<<r, n>>] = 1 + n
  OBVIOUS
<1>4. \A r \in Rfds : Rf[r].link \in Rfds
  BY ListsAssumption
<1> HIDE DEF last, next, base, step
<1>5. PICK f \in [Rfds -> Nat] : Along(f, Rfds, last, next, base, step)
  BY <1>1, ChainExists
<1>6. ASSUME NEW r \in Rfds
      PROVE  f[r] = 1 + (IF Rf[r].el THEN 0 ELSE f[Rf[r].link])
  <2>1. f[r] = IF r \in last THEN base[r] ELSE step[<<r, f[next[r]]>>]
    BY <1>5 DEF Along
  <2>2. step[<<r, f[Rf[r].link]>>] = 1 + f[Rf[r].link]
    BY <1>3, <1>4
  <2> QED BY <1>2, <1>4, <2>1, <2>2
<1> QED BY <1>6

LEMMA BehindIs ==
  \A r \in Rfds : /\ Behind[r] \in Nat
                  /\ Behind[r] = 1 + (IF Rf[r].el THEN 0 ELSE Behind[Rf[r].link])
<1> DEFINE Count(f) == [r \in Rfds |-> 1 + (IF Rf[r].el THEN 0 ELSE f[Rf[r].link])]
<1>1. PICK f \in [Rfds -> Nat] :
        \A r \in Rfds : f[r] = 1 + (IF Rf[r].el THEN 0 ELSE f[Rf[r].link])
  BY BehindExists
<1>2. f = Count(f)
  BY <1>1
<1>3. Behind = Count(Behind)
  BY <1>2 DEF Behind
<1>4. \A r \in Rfds : Behind[r] = 1 + (IF Rf[r].el THEN 0 ELSE Behind[Rf[r].link])
  BY <1>3
<1>5. {r \in Rfds : Behind[r] \notin Nat} = {}
  <2> DEFINE S == {r \in Rfds : Behind[r] \notin Nat}
  <2>1. ASSUME NEW r \in S
        PROVE  ~Rf[r].el /\ Rf[r].link \in S
    <3>1. r \in Rfds /\ Rf[r].link \in Rfds
      BY ListsAssumption
    <3> QED BY <1>4, <3>1
  <2>2. S \subseteq Rfds
    OBVIOUS
  <2> HIDE DEF S
  <2>3. S = {}
    BY <2>1, <2>2, RfdsEnd
  <2> QED BY <2>3 DEF S
<1> QED BY <1>4, <1>5

\* Room and descriptors left fall along a list.
LEMMA RoomFalls ==
  ASSUME NEW b \in Rbds
  PROVE  /\ Room[b] \in Nat
         /\ ~Bd[b].el => Bd[b].next \in Rbds /\ Room[Bd[b].next] \in Nat
                           /\ Room[Bd[b].next] + 1 <= Room[b]
<1>1. Bd[b].size \in Nat /\ Bd[b].size >= 1 /\ (~Bd[b].el => Bd[b].next \in Rbds)
  BY ListsAssumption
<1> QED BY <1>1, RoomIs

LEMMA BehindFalls ==
  ASSUME NEW r \in Rfds
  PROVE  /\ Behind[r] \in Nat /\ Rf[r].link \in Rfds /\ Behind[Rf[r].link] \in Nat
         /\ ~Rf[r].el => Behind[r] = 1 + Behind[Rf[r].link]
BY BehindIs, ListsAssumption

-----------------------------------------------------------------------------
\* The access that is made is the one asked for.

\* What is asked for stays until it is acknowledged.
LEMMA RequestWaits ==
  ASSUME Ru!RuEdge, ~core_rst, ru_ctl = "NOP", ~bus_ack, Ru!Request.size # "NONE"
  PROVE  Ru!Request' = Ru!Request /\ (state' = state \/ Ru!wp_valid)
<1>1. CASE Ru!wp_valid
  <2>1. wp' = wp
    <3>1. Ru!Drain => wp' = wp
      BY DEF Ru!Drain
    <3>2. ~Ru!Flush /\ (Ru!PopByte => ~(Ru!LastLane \/ Ru!HdrPhase))
      BY <1>1 DEF Ru!Flush, Ru!PopByte, Ru!PopNow, Ru!PopStall
    <3>3. CASE Ru!Idle \/ Ru!NoResource \/ Ru!Arm \/ Ru!Ready \/ Ru!Wait
      BY <3>1, <3>3 DEF Ru!Idle, Ru!NoResource, Ru!Arm, Ru!Ready, Ru!Wait
    <3>4. CASE Ru!Dispose \/ Ru!WriteStatus \/ Ru!NextRfd
      BY <3>1, <3>4 DEF Ru!Dispose, Ru!Drop, Ru!CloseRbd, Ru!CountErr, Ru!LinkBuffers,
         Ru!WriteStatus, Ru!NextRfd
    <3>5. CASE Ru!Take
      BY <3>1, <3>2, <3>5 DEF Ru!Take, Ru!PopEnd, Ru!PopByte, Ru!RejectByte, Ru!HeaderByte,
         Ru!BufferByte, Ru!FullPeek, Ru!CloseFull
    <3> QED BY <3>3, <3>4, <3>5, RuCases DEF Ru!RuReset, Ru!Abort, Ru!Aborting
  <2> QED BY <1>1, <2>1 DEF Ru!Request, Ru!wp_valid
<1>2. CASE ~Ru!wp_valid
  <2>1. state \in Ru!AckStates
    BY <1>2 DEF Ru!Request, Ru!StateRequest, Ru!NoRequest, Ru!Access, Ru!AckStates, Ru!ArmStates,
       Ru!FileStates
  <2>2. Ru!Wait
    <3> USE <2>1 DEF Ru!AckStates, Ru!ArmStates, Ru!FileStates
    <3>1. ~Ru!Idle /\ ~Ru!NoResource /\ ~Ru!Arm /\ ~Ru!Ready
      BY DEF Ru!Idle, Ru!NoResource, Ru!Arm, Ru!Ready
    <3>2. ~Ru!PopEnd /\ ~Ru!PopByte /\ ~Ru!Flush /\ ~Ru!FullPeek /\ ~Ru!CloseFull
      BY DEF Ru!PopEnd, Ru!PopByte, Ru!PopNow, Ru!Flush, Ru!FullPeek, Ru!CloseFull
    <3>3. ~Ru!Dispose /\ ~Ru!WriteStatus /\ ~Ru!NextRfd
      BY DEF Ru!Dispose, Ru!Drop, Ru!CloseRbd, Ru!CountErr, Ru!LinkBuffers, Ru!WriteStatus,
         Ru!Filed, Ru!NextRfd
    <3> QED BY <3>1, <3>2, <3>3, RuCases DEF Ru!RuReset, Ru!Abort, Ru!Aborting, Ru!Take
  <2>3. UNCHANGED <<state, rfd, bd, buf_off, frame_bd, err, cnt, wp>>
    BY <2>2 DEF Ru!Wait, Ru!bufVars, Ru!frameVars, Ru!Drain
  <2>4. Ru!StateRequest' = Ru!StateRequest
    BY <2>3 DEF Ru!StateRequest, Ru!WhichErr, Ru!ErrValue
  <2> QED BY <1>2, <2>3, <2>4 DEF Ru!Request, Ru!wp_valid
<1> QED BY <1>1, <1>2

\* A unit at work was at work, or is started.
Started ==
  /\ state \in {"RU_IDLE", "RU_NO_RESOURCE"} /\ ru_ctl = "START" /\ rfa \in Heads
  /\ state' = "RU_RD_RFD_RBD" /\ rfd' = rfa /\ home' = rfa
  /\ rfd_rbd' = Built /\ given' = {} /\ UNCHANGED in_frame

LEMMA LiveSteps ==
  ASSUME Clock, PulseInv, Live'
  PROVE  /\ ~core_rst /\ ru_ctl # "ABORT" /\ ~cut
         /\ \/ Started
            \/ /\ Live /\ home' = home
               /\ ~(ru_ctl = "START" /\ state \in {"RU_IDLE", "RU_NO_RESOURCE"})
<1>1. ~core_rst /\ ru_ctl # "ABORT"
  BY DEF Clock, Ru!RuEdge, Ru!RuReset, Ru!Abort, Ru!Aborting, Ru!Goto, Live
<1>2. ~cut
  BY <1>1 DEF Clock, History, Live
<1>3. CASE ru_ctl = "START" /\ state \in {"RU_IDLE", "RU_NO_RESOURCE"}
  <2>1. rfa \in Heads
    BY <1>3 DEF PulseInv
  <2>2. home' = rfa /\ rfd_rbd' = Built /\ given' = {}
    BY <1>1, <1>3 DEF Clock, History, FieldEdge, Restarts
  <2>3. Ru!Idle \/ Ru!NoResource
    <3>1. ~Ru!Arm /\ ~Ru!Ready /\ ~Ru!Take /\ ~Ru!Dispose
      BY <1>3, TakeSteps, DisposeSteps DEF Ru!Arm, Ru!Ready
    <3>2. ~Ru!WriteStatus /\ ~Ru!NextRfd /\ ~Ru!Wait
      BY <1>3 DEF Ru!WriteStatus, Ru!Filed, Ru!NextRfd, Ru!Wait, Ru!AckStates, Ru!ArmStates,
         Ru!FileStates
    <3> QED BY <1>1, <3>1, <3>2, RuCases DEF Clock, Ru!RuReset, Ru!Abort, Ru!Aborting
  <2>4. state' = "RU_RD_RFD_RBD" /\ rfd' = rfa /\ UNCHANGED in_frame
    BY <1>3, <2>3 DEF Ru!Idle, Ru!NoResource, Ru!Goto, Ru!frameVars
  <2> QED BY <1>1, <1>2, <1>3, <2>1, <2>2, <2>4 DEF Started
<1>4. CASE ~(ru_ctl = "START" /\ state \in {"RU_IDLE", "RU_NO_RESOURCE"})
  <2>1. home' = home
    BY <1>1, <1>4 DEF Clock, History
  <2>2. Live
    <3>1. CASE state # "RU_IDLE"
      BY <1>2, <3>1 DEF Live
    <3>2. CASE state = "RU_IDLE"
      <4>1. Ru!Idle
        <5>1. ~Ru!Arm /\ ~Ru!Ready /\ ~Ru!Take /\ ~Ru!Dispose /\ ~Ru!NoResource
          BY <3>2, TakeSteps, DisposeSteps DEF Ru!Arm, Ru!Ready, Ru!NoResource
        <5>2. ~Ru!WriteStatus /\ ~Ru!NextRfd /\ ~Ru!Wait
          BY <3>2 DEF Ru!WriteStatus, Ru!Filed, Ru!NextRfd, Ru!Wait, Ru!AckStates,
             Ru!ArmStates, Ru!FileStates
        <5> QED BY <1>1, <5>1, <5>2, RuCases DEF Clock, Ru!RuReset, Ru!Abort, Ru!Aborting
      <4> QED BY <1>2, <1>4, <3>2, <4>1 DEF Ru!Idle, Live
    <3> QED BY <3>1, <3>2
  <2> QED BY <1>1, <1>2, <1>4, <2>1, <2>2
<1> QED BY <1>3, <1>4

\* An edge on which an access is under way, or is made, is an ordinary one.
LEMMA QuietEdge ==
  ASSUME Clock, PulseInv, port' \in {"ACTIVE", "ACK"}, Live'
  PROVE  ~core_rst /\ ru_ctl = "NOP" /\ ~bus_ack /\ Live
<1>1. ru_ctl = "NOP"
  BY AfterPulse
<1>2. ~bus_ack
  BY DEF Clock, PortEdge, PortMoves, PortIdle, PortStart, OtherStart, PortDone, PortAck,
     OtherDone, PortWait, bus_ack
<1> QED BY <1>1, <1>2, LiveSteps DEF Started

LEMMA AccessKeeps ==
  ASSUME Clock, PulseInv, AccessInv
  PROVE  AccessInv'
<1> SUFFICES ASSUME port' \in {"ACTIVE", "ACK"}
             PROVE  /\ access'.size # "NONE"
                    /\ Live' => access' = Ru!Request'
  BY DEF AccessInv
<1>1. \/ port = "ACTIVE" /\ access' = access
      \/ port = "IDLE" /\ access' = Ru!Request /\ Ru!Request.size # "NONE"
  BY DEF Clock, PortEdge, PortMoves, PortIdle, PortStart, OtherStart, PortDone, PortAck,
     OtherDone, PortWait, portVars
<1>2. access'.size # "NONE"
  BY <1>1 DEF AccessInv
<1>3. ASSUME Live'
      PROVE  access' = Ru!Request'
  <2>1. ~core_rst /\ ru_ctl = "NOP" /\ ~bus_ack /\ Live
    BY <1>3, QuietEdge
  <2>2. access' = Ru!Request /\ Ru!Request.size # "NONE"
    BY <1>1, <2>1 DEF AccessInv
  <2> QED BY <2>1, <2>2, RequestWaits DEF Clock
<1> QED BY <1>2, <1>3

-----------------------------------------------------------------------------
\* The address of a buffer, put together from its halves.

LEMMA HighTyped ==
  ASSUME NEW a \in Nat
  PROVE  HighHalf(a) \in Nat
<1>1. LowHalf(a) \in Nat /\ LowHalf(a) < 65536
  BY SMT DEF LowHalf
<1>2. a = 65536 * HighHalf(a) + LowHalf(a)
  BY SMT DEF LowHalf, HighHalf
<1>3. HighHalf(a) \in Int
  BY SMT DEF HighHalf
<1> QED BY <1>1, <1>2, <1>3, SMT

LEMMA Halves ==
  ASSUME NEW a \in Nat, a < Space, NEW c \in Nat
  PROVE  /\ LowHalf(a) \in Nat /\ HighHalf(a) \in Nat
         /\ 65536 * HighHalf(c) + LowHalf(a) \in Nat
         /\ LowHalf(65536 * HighHalf(c) + LowHalf(a)) = LowHalf(a)
         /\ 65536 * (HighHalf(a) % 256) + LowHalf(a) = a
<1>1. LowHalf(a) \in Nat /\ LowHalf(a) < 65536
  BY SMT DEF LowHalf
<1>2. a = 65536 * HighHalf(a) + LowHalf(a)
  BY SMT DEF LowHalf, HighHalf
<1>3. HighHalf(a) \in Nat /\ HighHalf(c) \in Nat
  BY HighTyped
<1>4. HighHalf(a) < 256
  BY <1>1, <1>2, <1>3, SMT DEF Space
<1>5. HighHalf(a) % 256 = HighHalf(a)
  BY <1>3, <1>4, SMT
<1>6. 65536 * HighHalf(c) + LowHalf(a) \in Nat
  BY <1>1, <1>3, SMT
<1>7. (65536 * HighHalf(c) + LowHalf(a)) % 65536 = LowHalf(a)
  BY <1>1, <1>3, SMT
<1>8. LowHalf(65536 * HighHalf(c) + LowHalf(a)) = LowHalf(a)
  BY <1>7 DEF LowHalf
<1> QED BY <1>1, <1>2, <1>3, <1>5, <1>6, <1>8

LEMMA HalvesGiven ==
  ASSUME HoldInv, ReadInv, bus_ack, state \in {"RU_RD_BUF_LO", "RU_RD_BUF_HI"}
  PROVE  /\ bd.rbd \in Rbds
         /\ rdata = IF state = "RU_RD_BUF_LO" THEN LowHalf(Bd[bd.rbd].buf)
                                              ELSE HighHalf(Bd[bd.rbd].buf)
<1> USE DEF bus_ack, HoldInv, ReadInv, Reads, Ru!ArmStates, Opening, Memory, Ru!Read,
            Ru!Access, Ru!StateRequest
<1>1. bd.rbd \in Rbds /\ bd.rbd \notin Rfds
  BY ListsAssumption
<1>2. CASE state = "RU_RD_BUF_LO"
  <2>1. rdata = RbdField(bd.rbd, 4)
    BY <1>1, <1>2
  <2> QED BY <1>1, <1>2, <2>1 DEF RbdField
<1>3. CASE state = "RU_RD_BUF_HI"
  <2>1. rdata = RbdField(bd.rbd, 6)
    BY <1>1, <1>3
  <2> QED BY <1>1, <1>3, <2>1 DEF RbdField
<1> QED BY <1>2, <1>3

LEMMA BufOpening ==
  ASSUME Ru!Arm, HoldInv, ReadInv, LinkInv, BufInv
  PROVE  BufInv'
<1> DEFINE own == Bd[bd.rbd].buf
<1> USE DEF Ru!Goto, Opening, Ru!ArmStates, Keeping
<1>1. DOMAIN bd = {"rbd", "buf", "size", "el"}
  BY DEF HoldInv, Ru!NoBd
<1>2. bus_ack /\ UNCHANGED <<frame_bd, in_frame>>
  BY DEF Ru!Arm, Ru!frameVars
<1>3. bd.buf \in Nat /\ frame_bd.buf \in Nat /\ (in_frame => frame_bd.buf = Bd[frame_bd.rbd].buf)
  BY DEF BufInv
<1>4. CASE state \in {"RU_RD_RFD_RBD", "RU_RD_NEXT_RBD"}
  <2>1. \/ bd' = bd
        \/ bd' = [bd EXCEPT !.rbd = rdata]
    BY <1>4 DEF Ru!Arm
  <2>2. bd'.buf = bd.buf
    BY <1>1, <2>1
  <2>3. state' \in {"RU_NO_RESOURCE", "RU_RD_BUF_LO"}
    BY <1>4 DEF Ru!Arm
  <2> QED BY <1>2, <1>3, <2>2, <2>3 DEF BufInv
<1>5. CASE state = "RU_RD_BUF_LO"
  <2>1. bd' = [bd EXCEPT !.buf = 65536 * (@ \div 65536) + rdata] /\ state' = "RU_RD_BUF_HI"
    BY <1>5 DEF Ru!Arm
  <2>2. bd.rbd \in Rbds /\ rdata = LowHalf(own)
    BY <1>2, <1>5, HalvesGiven
  <2>3. own \in Nat /\ own < Space
    BY <2>2, AreasAssumption
  <2>4. bd'.buf = 65536 * HighHalf(bd.buf) + rdata /\ bd'.rbd = bd.rbd
    BY <1>1, <2>1 DEF HighHalf
  <2>5. bd'.buf = 65536 * HighHalf(bd.buf) + LowHalf(own)
    BY <2>2, <2>4
  <2>6. bd'.buf \in Nat /\ LowHalf(bd'.buf) = LowHalf(own)
    BY <1>3, <2>3, <2>5, Halves
  <2> QED BY <1>2, <1>3, <2>1, <2>4, <2>6 DEF BufInv
<1>6. CASE state = "RU_RD_BUF_HI"
  <2>1. /\ bd' = [bd EXCEPT !.buf = 65536 * (rdata % 256) + (@ % 65536)]
        /\ state' = "RU_RD_SIZE"
    BY <1>6 DEF Ru!Arm
  <2>2. bd.rbd \in Rbds /\ rdata = HighHalf(own)
    BY <1>2, <1>6, HalvesGiven
  <2>3. own \in Nat /\ own < Space
    BY <2>2, AreasAssumption
  <2>4. bd'.buf = 65536 * (rdata % 256) + LowHalf(bd.buf) /\ bd'.rbd = bd.rbd
    BY <1>1, <2>1 DEF LowHalf
  <2>5. bd'.buf = 65536 * (HighHalf(own) % 256) + LowHalf(own)
    BY <1>6, <2>2, <2>4 DEF BufInv
  <2>6. bd'.buf = own
    BY <2>3, <2>5, Halves
  <2> QED BY <1>2, <1>3, <2>1, <2>3, <2>4, <2>6 DEF BufInv
<1>7. CASE state = "RU_RD_SIZE"
  <2>1. /\ bd' = [bd EXCEPT !.size = rdata.size, !.el = rdata.el]
        /\ state' \in {"RU_POP", "RU_READY"}
    BY <1>7 DEF Ru!Arm
  <2>2. bd'.buf = bd.buf /\ bd'.rbd = bd.rbd
    BY <1>1, <2>1
  <2>3. bd.buf = own
    BY <1>7 DEF BufInv
  <2> QED BY <1>2, <1>3, <2>1, <2>2, <2>3 DEF BufInv
<1> QED BY <1>4, <1>5, <1>6, <1>7 DEF Ru!Arm

LEMMA BufKeeps ==
  ASSUME Clock, HoldInv, ReadInv, LinkInv, BufInv
  PROVE  BufInv'
<1> USE DEF Ru!Goto
<1>1. CASE Ru!RuReset
  BY <1>1 DEF Ru!RuReset, Ru!NoBd, BufInv, Keeping
<1>2. CASE Ru!Abort \/ Ru!Idle \/ Ru!NoResource
  <2>1. UNCHANGED <<bd, frame_bd, in_frame>>
    BY <1>2 DEF Ru!Abort, Ru!Idle, Ru!NoResource, Ru!bufVars, Ru!frameVars
  <2>2. state' \in {"RU_IDLE", "RU_NO_RESOURCE", "RU_RD_RFD_RBD"}
    BY <1>2 DEF Ru!Abort, Ru!Idle, Ru!NoResource
  <2> QED BY <2>1, <2>2 DEF BufInv, Keeping, Ru!ArmStates
<1>3. CASE Ru!Ready
  <2>1. state = "RU_READY" /\ frame_bd' = bd /\ bd' = bd /\ state' = "RU_POP"
    BY <1>3 DEF Ru!Ready
  <2> QED BY <2>1 DEF BufInv, Ru!ArmStates
<1>4. CASE Ru!Take
  <2>1. UNCHANGED <<bd, frame_bd>>
    BY <1>4 DEF Ru!Take
  <2>2. in_frame \/ state \in Keeping
    BY <1>4, TakeSteps DEF HoldInv, Amid, Keeping
  <2> QED BY <1>4, <2>1, <2>2, TakeSteps DEF BufInv, Ru!ArmStates
<1>5. CASE Ru!Drop
  <2>1. in_frame /\ bd' = frame_bd /\ frame_bd' = frame_bd /\ state' = "RU_COUNT_ERR"
    BY <1>5 DEF Ru!Drop, Ru!Rewind, HoldInv, Amid
  <2> QED BY <2>1 DEF BufInv, Ru!ArmStates
<1>6. CASE Ru!CloseRbd \/ Ru!CountErr
  <2>1. state \in Keeping /\ (bd' = bd \/ bd' = frame_bd) /\ UNCHANGED frame_bd
    BY <1>6 DEF Ru!CloseRbd, Ru!CountErr, Ru!Rewind, Ru!bufVars, Keeping
  <2>2. /\ state \in {"RU_FIN_CLOSE_RBD", "RU_COUNT_ERR"}
        /\ state' \in {"RU_FIN_WR_RFD_RBD", "RU_COUNT_ERR", "RU_READY"}
    BY <1>6 DEF Ru!CloseRbd, Ru!CountErr
  <2>3. /\ bd.buf \in Nat /\ frame_bd.buf \in Nat /\ bd.buf = Bd[bd.rbd].buf
        /\ frame_bd.buf = Bd[frame_bd.rbd].buf
    BY <2>1, <2>2 DEF BufInv, Ru!ArmStates
  <2>4. state' # "RU_RD_BUF_HI"
    BY <2>2
  <2> QED BY <2>1, <2>3, <2>4 DEF BufInv
<1>7. CASE Ru!LinkBuffers \/ Ru!WriteStatus
  <2>1. UNCHANGED <<bd, in_frame>> /\ ~in_frame
    BY <1>7 DEF Ru!LinkBuffers, Ru!WriteStatus, Ru!Filed, Ru!bufVars, Ru!frameVars, HoldInv,
       Ru!FileStates
  <2>2. DOMAIN frame_bd = {"rbd", "buf", "size", "el"}
    BY DEF HoldInv, Ru!NoBd
  <2>3. frame_bd' = [frame_bd EXCEPT !.el = rdata] => /\ frame_bd'.buf = frame_bd.buf
                                                      /\ frame_bd'.rbd = frame_bd.rbd
    BY <2>2
  <2>4. \/ /\ state = "RU_FIN_WR_RFD_RBD" /\ frame_bd' = frame_bd
        \/ /\ state = "RU_FIN_RD_CMD" /\ frame_bd' = [frame_bd EXCEPT !.el = rdata]
        \/ /\ state = "RU_FIN_WR_STATUS" /\ state' = "RU_FIN_RD_LINK" /\ frame_bd' = frame_bd
    BY <1>7 DEF Ru!LinkBuffers, Ru!WriteStatus, Ru!Filed, Ru!bufVars
  <2>5. /\ state \in {"RU_FIN_WR_RFD_RBD", "RU_FIN_RD_CMD", "RU_FIN_WR_STATUS"}
        /\ frame_bd'.buf = frame_bd.buf /\ frame_bd'.rbd = frame_bd.rbd
        /\ state' \in Keeping => state \in Keeping
        /\ state' # "RU_RD_BUF_HI"
    <3>1. state' \in {"RU_FIN_RD_CMD", "RU_FIN_WR_STATUS", "RU_FIN_RD_LINK"}
      BY <1>7 DEF Ru!LinkBuffers, Ru!WriteStatus
    <3> QED BY <2>3, <2>4, <3>1 DEF Keeping
  <2> QED BY <2>1, <2>5 DEF BufInv, Ru!ArmStates
<1>8. CASE Ru!NextRfd
  <2>1. UNCHANGED <<bd, frame_bd, in_frame>> /\ state = "RU_FIN_RD_LINK" /\ ~in_frame
    BY <1>8 DEF Ru!NextRfd, Ru!bufVars, Ru!frameVars, HoldInv, Ru!FileStates
  <2>2. state' \in {"RU_NO_RESOURCE", "RU_IDLE", "RU_RD_NEXT_RBD"}
    BY <1>8 DEF Ru!NextRfd
  <2> QED BY <2>1, <2>2 DEF BufInv, Ru!ArmStates, Keeping
<1>9. CASE Ru!Wait
  <2>1. UNCHANGED <<state, bd, frame_bd, in_frame>>
    BY <1>9 DEF Ru!Wait, Ru!bufVars, Ru!frameVars
  <2> QED BY <2>1 DEF BufInv
<1> QED BY <1>1, <1>2, <1>3, <1>4, <1>5, <1>6, <1>7, <1>8, <1>9, BufOpening, RuCases
        DEF Clock, Ru!Dispose

-----------------------------------------------------------------------------
\* The area, and what has been handed over.

\* What the unit asks to write, and where.
LEMMA Writes ==
  ASSUME HoldInv, PostInv, WpInv, ~cut, Ru!Request.we
  PROVE  \/ /\ Ru!wp_valid /\ Ru!Request = wp
            /\ \A b \in Rbds : <<b, 0>> \notin Places(Ru!Request)
            /\ ~(Ru!Request.of \in Rfds /\ Ru!Request.n = 6)
         \/ /\ ~Ru!wp_valid /\ state \in {"RU_CLOSE_FULL", "RU_FIN_CLOSE_RBD"}
            /\ Places(Ru!Request) = {<<bd.rbd, 0>>} /\ Ru!Request.of = bd.rbd /\ bd.rbd \in Rbds
         \/ /\ ~Ru!wp_valid /\ state = "RU_FIN_WR_RFD_RBD"
            /\ Places(Ru!Request) = {<<rfd, 6>>} /\ Ru!Request.of = rfd /\ rfd \in Rfds
            /\ Ru!Request.n = 6 /\ Ru!Request.data = frame_bd.rbd
         \/ /\ ~Ru!wp_valid /\ state = "RU_FIN_WR_STATUS"
            /\ Places(Ru!Request) = {<<rfd, 0>>} /\ Ru!Request.of = rfd /\ rfd \in Rfds
            /\ Ru!Request.n = 0
         \/ /\ ~Ru!wp_valid /\ state = "RU_COUNT_ERR"
            /\ Places(Ru!Request) = {<<"SCB", Ru!WhichErr>>} /\ Ru!Request.of = "SCB"
<1>1. "BUF" \notin Rfds /\ "SCB" \notin Rfds /\ Rfds \cap Rbds = {}
  BY ListsAssumption
<1>2. "BUF" \notin Rbds
  BY AreasAssumption
<1>3. CASE Ru!wp_valid
  <2>1. Ru!Request = wp /\ wp.size # "NONE" /\ (wp.of = "BUF" \/ (wp.n \in Nat /\ wp.n >= 8))
    BY <1>3 DEF Ru!Request, PostInv
  <2>2. wp.size = "WORD" => wp.of = "BUF"
    BY <1>3 DEF WpInv
  <2>3. \A b \in Rbds : <<b, 0>> \notin Places(wp)
    BY <1>2, <2>1, <2>2 DEF Places
  <2> QED BY <1>1, <1>3, <2>1, <2>3
<1>4. CASE ~Ru!wp_valid
  <2>1. Ru!Request = Ru!StateRequest
    BY <1>4 DEF Ru!Request
  <2>2. /\ state = "RU_CLOSE_FULL" \/ state = "RU_FIN_CLOSE_RBD" =>
             Ru!Request.size = "HALF" /\ Ru!Request.of = bd.rbd /\ Ru!Request.n = 0
        /\ state = "RU_FIN_WR_RFD_RBD" =>
             /\ Ru!Request.size = "HALF" /\ Ru!Request.of = rfd /\ Ru!Request.n = 6
             /\ Ru!Request.data = frame_bd.rbd
        /\ state = "RU_FIN_WR_STATUS" =>
             Ru!Request.size = "HALF" /\ Ru!Request.of = rfd /\ Ru!Request.n = 0
        /\ state = "RU_COUNT_ERR" =>
             Ru!Request.size = "HALF" /\ Ru!Request.of = "SCB" /\ Ru!Request.n = Ru!WhichErr
        /\ state \in {"RU_CLOSE_FULL", "RU_FIN_CLOSE_RBD", "RU_FIN_WR_RFD_RBD",
                     "RU_FIN_WR_STATUS", "RU_COUNT_ERR"}
    <3>1. CASE state = "RU_CLOSE_FULL"
      BY <2>1, <3>1 DEF Ru!StateRequest, Ru!Write, Ru!Access
    <3>2. CASE state = "RU_FIN_CLOSE_RBD"
      BY <2>1, <3>2 DEF Ru!StateRequest, Ru!Write, Ru!Access
    <3>3. CASE state = "RU_FIN_WR_RFD_RBD"
      BY <2>1, <3>3 DEF Ru!StateRequest, Ru!Write, Ru!Access
    <3>4. CASE state = "RU_FIN_WR_STATUS"
      BY <2>1, <3>4 DEF Ru!StateRequest, Ru!Write, Ru!Access
    <3>5. CASE state = "RU_COUNT_ERR"
      BY <2>1, <3>5 DEF Ru!StateRequest, Ru!Write, Ru!Access
    <3>6. state \in {"RU_CLOSE_FULL", "RU_FIN_CLOSE_RBD", "RU_FIN_WR_RFD_RBD",
                    "RU_FIN_WR_STATUS", "RU_COUNT_ERR"}
      BY <2>1 DEF Ru!StateRequest, Ru!Read, Ru!Write, Ru!Access, Ru!NoRequest
    <3> QED BY <3>1, <3>2, <3>3, <3>4, <3>5, <3>6
  <2>3. /\ state \in {"RU_CLOSE_FULL", "RU_FIN_CLOSE_RBD"} => bd.rbd \in Rbds
        /\ state \in {"RU_FIN_WR_RFD_RBD", "RU_FIN_WR_STATUS"} => rfd \in Rfds
    BY DEF HoldInv, Held, Ru!ArmStates
  <2> QED BY <1>4, <2>2, <2>3 DEF Places
<1> QED BY <1>3, <1>4

\* The buffer fields, the buffers closed and what is handed over, edge by edge.
LEMMA FieldSteps ==
  ASSUME Clock, VerdictIInv, AccessInv, WpInv, Live, ~Restarts
  PROVE  \/ rfd_rbd' = rfd_rbd
         \/ /\ state = "RU_FIN_WR_RFD_RBD" /\ ~bus_ack /\ rfd \in Rfds
            /\ rfd_rbd' = [rfd_rbd EXCEPT ![rfd] = frame_bd.rbd]
<1>1. CASE ~(PortDone /\ FieldWritten)
  BY <1>1 DEF Clock, FieldEdge
<1>2. CASE PortDone /\ FieldWritten
  <2>1. /\ access = Ru!Request /\ ~cut /\ access.we /\ access.of \in Rfds /\ access.n = 6
        /\ ~bus_ack
    BY <1>2 DEF AccessInv, PortDone, FieldWritten, Live, bus_ack
  <2>2. rfd_rbd' = [rfd_rbd EXCEPT ![access.of] = access.data]
    BY <1>2 DEF Clock, FieldEdge
  <2>3. Rfds \cap Rbds = {} /\ "SCB" \notin Rfds
    BY ListsAssumption
  <2>4. Ru!Request.of \in Rfds /\ Ru!Request.n = 6 /\ Ru!Request.we
    BY <2>1
  <2>5. state = "RU_FIN_WR_RFD_RBD" /\ Ru!Request.of = rfd /\ Ru!Request.data = frame_bd.rbd
    BY <2>1, <2>3, <2>4, Writes DEF VerdictIInv
  <2> QED BY <2>1, <2>2, <2>5
<1> QED BY <1>1, <1>2

LEMMA ClosedSteps ==
  ASSUME Clock, VerdictIInv, AccessInv, WpInv, Live, ~core_rst, ru_ctl # "ABORT"
  PROVE  /\ Closed' \subseteq Closed \cup {bd.rbd}
         /\ ~(state \in {"RU_CLOSE_FULL", "RU_FIN_CLOSE_RBD"} /\ ~bus_ack) => Closed' \subseteq Closed
         /\ state = "RU_READY" /\ ~rx_empty => Closed' = {}
<1>1. ~Forget
  BY DEF Forget, Live
<1>2. CASE Begins
  BY <1>2 DEF Clock, History, Closed, Untouched
<1>3. CASE ~Begins /\ ~(PortDone /\ access.we)
  BY <1>1, <1>3 DEF Clock, History, Closed, Begins
<1>4. CASE ~Begins /\ PortDone /\ access.we
  <2>1. access = Ru!Request /\ ~cut /\ ~bus_ack
    BY <1>4 DEF AccessInv, PortDone, Live, bus_ack
  <2>2. DOMAIN written' = DOMAIN written \cup Places(Ru!Request)
    BY <1>1, <1>4, <2>1 DEF Clock, History, WriteTo
  <2>3. "SCB" \notin Rbds /\ Rfds \cap Rbds = {}
    BY AreasAssumption, ListsAssumption
  <2>4. \A b \in Rbds : <<b, 0>> \in Places(Ru!Request) =>
          b = bd.rbd /\ state \in {"RU_CLOSE_FULL", "RU_FIN_CLOSE_RBD"}
    BY <1>4, <2>1, <2>3, Writes DEF VerdictIInv
  <2> QED BY <1>4, <2>1, <2>2, <2>4 DEF Closed, Begins
<1> QED BY <1>2, <1>3, <1>4

LEMMA GivenSteps ==
  ASSUME Clock, Live, ~core_rst, ru_ctl # "ABORT"
  PROVE  given' = IF Restarts THEN {}
                  ELSE IF state = "RU_FIN_WR_STATUS" /\ bus_ack
                  THEN given \cup {rfd} \cup Closed ELSE given
<1>1. ~Forget
  BY DEF Forget, Live
<1> QED BY <1>1 DEF Clock, History, Closed

\* What the unit learns of the descriptor in hand.
LEMMA FieldsGive ==
  ASSUME HoldInv, ReadInv, bus_ack
  PROVE  /\ state = "RU_RD_RFD_RBD" => rfd \in Rfds /\ rdata = rfd_rbd[rfd]
         /\ state = "RU_FIN_RD_CMD" => rfd \in Rfds /\ rdata = Rf[rfd].el
         /\ state = "RU_FIN_RD_LINK" => rfd \in Rfds /\ rdata = Rf[rfd].link
<1> USE DEF bus_ack, HoldInv, ReadInv, Reads, Ru!ArmStates, Memory, Ru!Read, Ru!Access,
            Ru!StateRequest
<1>1. CASE state = "RU_RD_RFD_RBD"
  <2>1. rfd \in Rfds /\ rdata = Memory(Ru!Read(rfd, 6))
    BY <1>1
  <2> QED BY <1>1, <2>1, FieldsAre
<1>2. CASE state = "RU_FIN_RD_CMD"
  <2>1. rfd \in Rfds /\ rdata = Memory(Ru!Read(rfd, 2))
    BY <1>2
  <2> QED BY <1>2, <2>1, FieldsAre
<1>3. CASE state = "RU_FIN_RD_LINK"
  <2>1. rfd \in Rfds /\ rdata = Memory(Ru!Read(rfd, 4))
    BY <1>3
  <2> QED BY <1>3, <2>1, FieldsAre
<1> QED BY <1>1, <1>2, <1>3

\* An edge of a unit that is at work, and not set going anew.
Owned == AreaInv /\ ClosedInv /\ GivenInv
Working ==
  /\ Clock /\ VerdictIInv /\ AccessInv /\ WpInv /\ Owned
  /\ Live /\ Live' /\ home' = home /\ ~core_rst /\ ru_ctl # "ABORT"
  /\ ~(ru_ctl = "START" /\ state \in {"RU_IDLE", "RU_NO_RESOURCE"})

LEMMA FieldsKeep ==
  ASSUME Working
  PROVE  \A r \in Rfds : rfd_rbd'[r] # Null => Bd[rfd_rbd'[r]].list = Rf[r].list
<1> USE DEF Working, Owned
<1>1. CASE Restarts
  <2>1. rfd_rbd' = Built
    BY <1>1 DEF Clock, FieldEdge
  <2>2. \A r \in Rfds : Rf[r].rbd # Null => Bd[Rf[r].rbd].list = Rf[r].list
    BY AreasAssumption
  <2> QED BY <2>1, <2>2 DEF Built
<1>2. CASE ~Restarts
  <2>1. \A r \in Rfds : rfd_rbd[r] # Null => Bd[rfd_rbd[r]].list = Rf[r].list
    BY DEF AreaInv
  <2>2. CASE rfd_rbd' = rfd_rbd
    BY <2>1, <2>2
  <2>3. CASE /\ state = "RU_FIN_WR_RFD_RBD" /\ rfd \in Rfds
             /\ rfd_rbd' = [rfd_rbd EXCEPT ![rfd] = frame_bd.rbd]
    <3>1. Bd[frame_bd.rbd].list = home /\ Rf[rfd].list = home
      BY <2>3 DEF AreaInv, Begun, Keeping
    <3>2. rfd_rbd \in [Rfds -> Rbds \cup {Null}]
      BY DEF VerdictIInv, LinkInv
    <3>3. rfd_rbd'[rfd] = frame_bd.rbd /\ \A r \in Rfds \ {rfd} : rfd_rbd'[r] = rfd_rbd[r]
      BY <2>3, <3>2
    <3> QED BY <2>1, <3>1, <3>3
  <2> QED BY <1>2, <2>2, <2>3, FieldSteps
<1> QED BY <1>1, <1>2

\* An edge that leaves the unit where it is on its lists.
Waiting == {"RU_RD_RFD_RBD", "RU_IDLE", "RU_NO_RESOURCE"}
Steady ==
  /\ Working /\ ~Restarts /\ rfd' = rfd /\ bd'.rbd = bd.rbd /\ frame_bd'.rbd = frame_bd.rbd
  /\ ~(state = "RU_FIN_WR_STATUS" /\ bus_ack) /\ ~(state = "RU_READY" /\ ~rx_empty)
  /\ state' \in Waiting \/ state \in Waiting => state' = state
  /\ in_frame' \/ state' \in Begun => in_frame \/ state \in Begun
  /\ ~in_frame' /\ state' \in Open => ~in_frame /\ state \in Open
  /\ ~in_frame' /\ state' = "RU_RD_NEXT_RBD" => ~in_frame /\ state = "RU_RD_NEXT_RBD"
  /\ state' = "RU_FIN_RD_LINK" \/ state = "RU_FIN_RD_LINK" => state' = state /\ in_frame' = in_frame
  /\ state \in Filing => state' \in Filing
  /\ state = "RU_COUNT_ERR" /\ ~count_then_file => state' = state /\ ~count_then_file'
  /\ EndsSeen'

LEMMA SteadyKeeps ==
  ASSUME Steady
  PROVE  Owned'
<1> USE DEF Steady, Working, Owned
<1>1. given' = given
  BY GivenSteps
<1>2. AreaInv'
  <2>1. home' # Null /\ Rf[rfd'].list = home'
    BY DEF AreaInv
  <2>2. state' \notin Waiting => Bd[bd'.rbd].list = home'
    BY DEF AreaInv, Waiting
  <2>3. in_frame' \/ state' \in Begun =>
          /\ frame_bd'.rbd \in Rbds /\ Bd[frame_bd'.rbd].list = home'
          /\ Room[bd'.rbd] <= Room[frame_bd'.rbd]
    BY DEF AreaInv
  <2> QED BY <2>1, <2>2, <2>3, FieldsKeep DEF AreaInv, Waiting
<1>3. ClosedInv'
  <2> SUFFICES ASSUME in_frame' \/ state' \in Begun, ~(state' = "RU_COUNT_ERR" /\ ~count_then_file'),
                      NEW b \in Closed'
               PROVE  Room[bd.rbd] <= Room[b]
    BY DEF ClosedInv
  <2>1. \A c \in Closed : Room[bd.rbd] <= Room[c]
    BY DEF ClosedInv
  <2>2. b \in Rbds /\ Room[b] \in Nat
    BY RoomIs DEF Closed
  <2> QED BY <2>1, <2>2, ClosedSteps
<1>4. GivenInv'
  <2>1. given' \subseteq Rfds \cup Rbds
    BY <1>1 DEF GivenInv
  <2> SUFFICES ASSUME state' # "RU_NO_RESOURCE"
               PROVE  GivenInv'
    BY <2>1 DEF GivenInv
  <2>2. state # "RU_NO_RESOURCE"
    BY DEF Waiting
  <2>3. \A r \in given' \cap Rfds :
          Behind[rfd'] + (IF state' = "RU_FIN_RD_LINK" THEN 0 ELSE 1) <= Behind[r]
    BY <1>1, <2>2 DEF GivenInv
  <2>4. state' \in {"RU_IDLE", "RU_RD_RFD_RBD"} => given' = {} \/ rfd_rbd'[rfd'] = Null
    BY <1>1, <2>2, FieldSteps DEF GivenInv, Waiting
  <2>5. /\ in_frame' \/ state' \in Begun => Ahead(frame_bd.rbd, 1)
        /\ ~in_frame' /\ state' \in Open => Ahead(bd.rbd, 1)
        /\ ~in_frame' /\ state' \in {"RU_FIN_RD_LINK", "RU_RD_NEXT_RBD"} => Ahead(bd.rbd, 0)
    BY <2>2 DEF GivenInv
  <2>6. /\ Ahead(frame_bd.rbd, 1)' <=> Ahead(frame_bd.rbd, 1)
        /\ Ahead(bd.rbd, 1)' <=> Ahead(bd.rbd, 1)
        /\ Ahead(bd.rbd, 0)' <=> Ahead(bd.rbd, 0)
    BY <1>1 DEF Ahead
  <2>7. \A r \in Rfds \ given' : rfd_rbd'[r] = Rf[r].rbd \/ (r = rfd' /\ state' \in Filing)
    <3>1. \A r \in Rfds \ given : rfd_rbd[r] = Rf[r].rbd \/ (r = rfd /\ state \in Filing)
      BY <2>2 DEF GivenInv
    <3>2. CASE rfd_rbd' = rfd_rbd
      BY <1>1, <3>1, <3>2
    <3>3. CASE /\ state = "RU_FIN_WR_RFD_RBD" /\ rfd \in Rfds
               /\ rfd_rbd' = [rfd_rbd EXCEPT ![rfd] = frame_bd.rbd]
      <4>1. rfd_rbd \in [Rfds -> Rbds \cup {Null}]
        BY DEF VerdictIInv, LinkInv
      <4>2. \A r \in Rfds \ {rfd} : rfd_rbd'[r] = rfd_rbd[r]
        BY <3>3, <4>1
      <4> QED BY <1>1, <3>1, <3>3, <4>2 DEF Filing
    <3> QED BY <3>2, <3>3, FieldSteps
  <2> QED BY <2>1, <2>3, <2>4, <2>5, <2>6, <2>7 DEF GivenInv
<1> QED BY <1>2, <1>3, <1>4

\* Set going, from the start of a list or from where it ran out.
LEMMA StartOwned ==
  ASSUME Clock, VerdictIInv, Started, ~cut
  PROVE  Owned'
<1> USE DEF Started
<1>1. rfa \in Rfds /\ rfa # Null /\ Rf[rfa].list = rfa
  BY AreaAssumption, AreasAssumption
<1>2. ~in_frame'
  BY DEF VerdictIInv, ReceiveIInv, FrameInv, Apart, Resting
<1>3. \A r \in Rfds : Rf[r].rbd # Null => Bd[Rf[r].rbd].list = Rf[r].list
  BY AreasAssumption
<1>4. AreaInv'
  BY <1>1, <1>2, <1>3 DEF AreaInv, Built, Begun, Keeping
<1>5. ClosedInv'
  BY <1>2 DEF ClosedInv, Begun, Keeping
<1>6. GivenInv'
  BY <1>2 DEF GivenInv, EndsSeen, Ahead, Built, Filing
<1> QED BY <1>4, <1>5, <1>6 DEF Owned

LEMMA AgainOwned ==
  ASSUME Working, state = "RU_NO_RESOURCE", state' = "RU_RD_RFD_RBD", Restarts,
         UNCHANGED <<rfd, in_frame>>
  PROVE  Owned'
<1> USE DEF Working, Owned
<1>1. ~in_frame'
  BY DEF VerdictIInv, ReceiveIInv, FrameInv, Apart, Resting, Live
<1>2. given' = {} /\ rfd_rbd' = Built
  BY GivenSteps DEF Clock, FieldEdge
<1>3. AreaInv'
  BY <1>1, FieldsKeep DEF AreaInv, Begun, Keeping
<1>4. ClosedInv'
  BY <1>1 DEF ClosedInv, Begun, Keeping
<1>5. GivenInv'
  BY <1>1, <1>2 DEF GivenInv, EndsSeen, Ahead, Built, Filing
<1> QED BY <1>3, <1>4, <1>5

LEMMA IdleOwned ==
  ASSUME Working, Ru!Idle \/ Ru!NoResource
  PROVE  Owned'
<1>1. UNCHANGED <<bd, frame_bd, in_frame>> /\ state \in {"RU_IDLE", "RU_NO_RESOURCE"}
  BY DEF Ru!Idle, Ru!NoResource, Ru!bufVars, Ru!frameVars
<1>2. ru_ctl # "START" /\ ~cut
  BY <1>1 DEF Working, Live
<1>3. ~in_frame /\ ~in_frame'
  BY <1>1, <1>2 DEF Working, VerdictIInv, ReceiveIInv, FrameInv, Apart, Resting
<1>4. /\ rfd' = rfd /\ (Restarts <=> state = "RU_NO_RESOURCE" /\ ru_ctl = "RESUME")
      /\ IF Restarts THEN state' = "RU_RD_RFD_RBD"
         ELSE state' = state \/ (state = "RU_IDLE" /\ state' = "RU_RD_RFD_RBD")
  BY <1>2 DEF Ru!Idle, Ru!NoResource, Ru!Goto, Restarts
<1>5. CASE Restarts
  BY <1>1, <1>4, <1>5, AgainOwned
<1>6. CASE ~Restarts /\ state' = state
  <2>1. EndsSeen'
    BY <1>1, <1>6 DEF EndsSeen
  <2>2. Steady
    BY <1>1, <1>3, <1>4, <1>6, <2>1 DEF Steady, Waiting, Begun, Keeping, Open, Opening, Filing
  <2> QED BY <2>2, SteadyKeeps
<1>7. CASE ~Restarts /\ state = "RU_IDLE" /\ state' = "RU_RD_RFD_RBD"
  <2> USE <1>1, <1>2, <1>3, <1>4, <1>7 DEF Working, Owned
  <2>1. given' = given /\ rfd_rbd' = rfd_rbd
    BY GivenSteps, FieldSteps
  <2>2. AreaInv'
    BY FieldsKeep DEF AreaInv, Begun, Keeping
  <2>3. ClosedInv'
    BY DEF ClosedInv, Begun, Keeping
  <2>4. GivenInv'
    BY <2>1 DEF GivenInv, EndsSeen, Begun, Keeping, Open, Opening, Filing
  <2> QED BY <2>2, <2>3, <2>4
<1> QED BY <1>1, <1>4, <1>5, <1>6, <1>7

\* The first buffer of a descriptor, and the next of a list.
LEMMA OpenOwned ==
  ASSUME Working, Ru!Arm
  PROVE  Owned'
<1> USE DEF Working, Owned
<1>1. /\ UNCHANGED <<rfd, frame_bd, in_frame>>
      /\ state \in {"RU_RD_RFD_RBD", "RU_RD_NEXT_RBD"} \cup Opening
  BY OpenSteps DEF VerdictIInv
<1>2. ~Restarts /\ bus_ack
  BY <1>1 DEF Restarts, Opening, Ru!Arm
<1>3. given' = given /\ rfd_rbd' = rfd_rbd /\ Closed' \subseteq Closed
  BY <1>1, <1>2, GivenSteps, FieldSteps, ClosedSteps DEF Opening
<1>4. /\ home' # Null /\ Rf[rfd'].list = home' /\ rfd \in Rfds
      /\ \A b \in Rbds : Room[b] \in Nat
  BY <1>1, RoomIs DEF AreaInv, VerdictIInv, HoldInv, Opening
<1>5. CASE state \in Opening
  <2>1. /\ state' \in Opening \cup {"RU_POP", "RU_READY"} /\ bd'.rbd = bd.rbd
        /\ state' = "RU_READY" => ~in_frame
    BY <1>5, OpenSteps DEF Opening, VerdictIInv
  <2>2. state' = "RU_POP" => in_frame
    BY <1>5, OpenSteps DEF Opening, VerdictIInv
  <2>3. Steady
    BY <1>1, <1>2, <1>5, <2>1, <2>2 DEF Steady, Waiting, Begun, Keeping, Open, Opening, Filing,
       EndsSeen
  <2> QED BY <2>3, SteadyKeeps
<1>6. CASE state = "RU_RD_NEXT_RBD"
  <2>1. /\ state' = "RU_RD_BUF_LO" /\ bd'.rbd = Bd[bd.rbd].next /\ bd'.rbd \in Rbds
        /\ bd.rbd \in Rbds /\ ~Bd[bd.rbd].el
    BY <1>6, OpenSteps DEF VerdictIInv, HoldInv, Held, Ru!ArmStates
  <2>2. Room[bd'.rbd] + 1 <= Room[bd.rbd] /\ Bd[bd'.rbd].list = home
    <3>1. Bd[Bd[bd.rbd].next].list = Bd[bd.rbd].list
      BY <2>1, AreasAssumption
    <3>2. Bd[bd.rbd].list = home
      BY <1>6 DEF AreaInv
    <3> QED BY <2>1, <3>1, <3>2, RoomFalls
  <2>3. AreaInv'
    <3>1. in_frame =>
            /\ frame_bd.rbd \in Rbds /\ Bd[frame_bd.rbd].list = home
            /\ Room[bd.rbd] <= Room[frame_bd.rbd]
      BY DEF AreaInv
    <3>2. in_frame => Room[bd'.rbd] <= Room[frame_bd.rbd]
      BY <1>4, <2>1, <2>2, <3>1
    <3> QED BY <1>1, <1>4, <2>1, <2>2, <3>1, <3>2, FieldsKeep DEF AreaInv, Begun, Keeping
  <2>4. ClosedInv'
    <3> SUFFICES ASSUME in_frame, NEW b \in Closed
                 PROVE  Room[bd'.rbd] <= Room[b]
      BY <1>1, <1>3, <2>1 DEF ClosedInv, Begun, Keeping
    <3>1. Room[bd.rbd] <= Room[b] /\ b \in Rbds
      BY <1>6 DEF ClosedInv, Closed
    <3> QED BY <1>4, <2>1, <2>2, <3>1
  <2>5. GivenInv'
    <3>1. ~in_frame => \A g \in given \cap Rbds : Room[bd'.rbd] + 1 <= Room[g]
      <4>1. ~in_frame => \A g \in given \cap Rbds : Room[bd.rbd] + 0 <= Room[g]
        BY <1>6 DEF GivenInv, Ahead
      <4> QED BY <1>4, <2>1, <2>2, <4>1
    <3>2. in_frame => Ahead(frame_bd.rbd, 1)
      BY <1>6 DEF GivenInv
    <3>3. \A r \in given \cap Rfds : Behind[rfd] + 1 <= Behind[r]
      BY <1>6 DEF GivenInv
    <3>4. \A r \in Rfds \ given : rfd_rbd[r] = Rf[r].rbd
      BY <1>6 DEF GivenInv, Filing
    <3>5. given \subseteq Rfds \cup Rbds
      BY DEF GivenInv
    <3> QED
      BY <1>1, <1>3, <2>1, <3>1, <3>2, <3>3, <3>4, <3>5 DEF GivenInv, EndsSeen, Ahead, Begun,
         Keeping, Open, Opening, Filing
  <2> QED BY <2>3, <2>4, <2>5
<1>7. CASE state = "RU_RD_RFD_RBD"
  <2>1. rdata = rfd_rbd[rfd] /\ ~in_frame
    BY <1>2, <1>7, FieldsGive DEF VerdictIInv, ReceiveIInv, FrameInv, Apart, Live
  <2>2. CASE rdata = Null
    <3>1. state' = "RU_NO_RESOURCE"
      BY <1>7, <2>2 DEF Ru!Arm, Ru!Goto
    <3>2. AreaInv'
      BY <1>1, <1>4, <2>1, <3>1, FieldsKeep DEF AreaInv, Begun, Keeping
    <3>3. ClosedInv'
      BY <1>1, <2>1, <3>1 DEF ClosedInv, Begun, Keeping
    <3>4. GivenInv'
      BY <1>3, <3>1 DEF GivenInv, EndsSeen
    <3> QED BY <3>2, <3>3, <3>4
  <2>3. CASE rdata # Null
    <3>1. state' = "RU_RD_BUF_LO" /\ bd' = [bd EXCEPT !.rbd = rdata]
      BY <1>7, <2>3 DEF Ru!Arm, Ru!Goto
    <3>2. bd'.rbd = rfd_rbd[rfd]
      <4>1. DOMAIN bd = {"rbd", "buf", "size", "el"}
        BY DEF VerdictIInv, HoldInv, Ru!NoBd
      <4> QED BY <2>1, <3>1, <4>1
    <3>3. given = {}
      BY <1>7, <2>1, <2>3 DEF GivenInv
    <3>4. Bd[bd'.rbd].list = home
      BY <1>4, <2>1, <2>3, <3>2 DEF AreaInv
    <3>5. AreaInv'
      BY <1>1, <1>4, <2>1, <3>1, <3>4, FieldsKeep DEF AreaInv, Begun, Keeping
    <3>6. ClosedInv'
      BY <1>1, <2>1, <3>1 DEF ClosedInv, Begun, Keeping
    <3>7. \A r \in Rfds \ given : rfd_rbd[r] = Rf[r].rbd
      BY <1>7 DEF GivenInv, Filing
    <3>8. GivenInv'
      BY <1>1, <1>3, <3>1, <3>3, <3>7 DEF GivenInv, EndsSeen, Ahead, Filing
    <3> QED BY <3>5, <3>6, <3>8
  <2> QED BY <2>2, <2>3
<1> QED BY <1>1, <1>5, <1>6, <1>7

\* A frame begins.
LEMMA ReadyOwned ==
  ASSUME Working, Ru!Ready
  PROVE  Owned'
<1> USE DEF Working, Owned
<1>1. /\ state = "RU_READY" /\ ~rx_empty /\ state' = "RU_POP" /\ in_frame'
      /\ UNCHANGED <<rfd, bd>> /\ frame_bd' = bd
  BY DEF Ru!Ready, Ru!Goto
<1>2. ~in_frame /\ Held(bd) /\ Room[bd.rbd] \in Nat
  <2>1. ~in_frame
    BY <1>1 DEF VerdictIInv, ReceiveIInv, FrameInv, Apart, Resting, Live
  <2>2. Held(bd)
    BY <1>1 DEF VerdictIInv, HoldInv, Ru!ArmStates
  <2> QED BY <2>1, <2>2, RoomFalls DEF Held
<1>3. given' = given /\ rfd_rbd' = rfd_rbd /\ Closed' = {}
  BY <1>1, GivenSteps, FieldSteps, ClosedSteps DEF Restarts
<1>4. AreaInv'
  BY <1>1, <1>2, FieldsKeep DEF AreaInv, Held
<1>5. ClosedInv'
  BY <1>3 DEF ClosedInv
<1>6. GivenInv'
  BY <1>1, <1>2, <1>3 DEF GivenInv, EndsSeen, Ahead, Open, Filing
<1> QED BY <1>4, <1>5, <1>6

LEMMA TakeOwned ==
  ASSUME Working, Ru!Take
  PROVE  Owned'
<1>1. /\ state \in {"RU_POP", "RU_FLUSH", "RU_FULL_PEEK", "RU_CLOSE_FULL"}
      /\ state' \in {"RU_POP", "RU_FLUSH", "RU_DROP", "RU_FULL_PEEK",
                     "RU_CLOSE_FULL", "RU_RD_NEXT_RBD", "RU_FIN_CLOSE_RBD"}
  BY TakeSteps
<1>2. UNCHANGED <<rfd, bd, frame_bd>>
  BY DEF Ru!Take
<1>3. in_frame \/ state = "RU_FLUSH"
  BY <1>1 DEF Working, VerdictIInv, HoldInv, Amid
<1>4. state' = "RU_RD_NEXT_RBD" => in_frame'
  <2> SUFFICES ASSUME state' = "RU_RD_NEXT_RBD"
               PROVE  in_frame'
    OBVIOUS
  <2>1. ~Ru!PopEnd /\ ~Ru!Flush /\ ~Ru!FullPeek
    BY DEF Ru!PopEnd, Ru!Flush, Ru!FullPeek, Ru!Goto
  <2>2. ~Ru!PopByte
    BY <1>1 DEF Ru!PopByte, Ru!PopNow, Ru!RejectByte, Ru!HeaderByte, Ru!BufferByte, Ru!Goto
  <2>3. Ru!CloseFull
    BY <2>1, <2>2 DEF Ru!Take
  <2> QED BY <1>3, <2>3 DEF Ru!CloseFull
<1>5. ~Restarts
  BY <1>1 DEF Restarts
<1>6. Steady
  BY <1>1, <1>2, <1>3, <1>4, <1>5 DEF Steady, Waiting, Begun, Keeping, Open, Opening, Filing,
     EndsSeen
<1> QED BY <1>6, SteadyKeeps

LEMMA WaitOwned ==
  ASSUME Working, Ru!Wait
  PROVE  Owned'
<1>1. UNCHANGED <<state, rfd, bd, frame_bd, in_frame, count_then_file>>
  BY DEF Ru!Wait, Ru!bufVars, Ru!frameVars, Ru!pathVars
<1>2. state \notin {"RU_IDLE", "RU_NO_RESOURCE"}
  BY DEF Ru!Wait, Ru!AckStates, Ru!ArmStates, Ru!FileStates
<1>3. ~(state = "RU_FIN_WR_STATUS" /\ bus_ack) /\ ~(state = "RU_READY" /\ ~rx_empty)
  BY DEF Ru!Wait, Ru!AckStates, Ru!ArmStates, Ru!FileStates
<1>4. EndsSeen'
  BY <1>1 DEF Working, Owned, GivenInv, EndsSeen
<1>5. Steady
  BY <1>1, <1>2, <1>3, <1>4 DEF Steady, Restarts
<1> QED BY <1>5, SteadyKeeps

\* A frame that is not filed leaves its buffers to the next.
LEMMA DropOwned ==
  ASSUME Working, Ru!Drop \/ (Ru!CloseRbd /\ ~Ru!Kept)
  PROVE  Owned'
<1> USE DEF Working, Owned
<1>1. /\ state \in {"RU_DROP", "RU_FIN_CLOSE_RBD"} /\ state' = "RU_COUNT_ERR"
      /\ ~count_then_file' /\ UNCHANGED <<rfd, frame_bd>> /\ bd' = frame_bd
  BY DEF Ru!Drop, Ru!CloseRbd, Ru!Rewind, Ru!Goto
<1>2. (in_frame \/ state \in Begun) /\ ~in_frame'
  <2>1. CASE Ru!Drop
    BY <2>1 DEF Ru!Drop, VerdictIInv, HoldInv, Amid
  <2>2. CASE Ru!CloseRbd
    BY <2>2 DEF Ru!CloseRbd, Ru!frameVars, VerdictIInv, HoldInv, Ru!FileStates, Begun, Keeping
  <2> QED BY <2>1, <2>2
<1>3. given' = given /\ rfd_rbd' = rfd_rbd
  BY <1>1, GivenSteps, FieldSteps DEF Restarts
<1>4. frame_bd.rbd \in Rbds /\ Bd[frame_bd.rbd].list = home /\ Room[frame_bd.rbd] \in Nat
  BY <1>2, RoomFalls DEF AreaInv
<1>5. AreaInv'
  BY <1>1, <1>4, FieldsKeep DEF AreaInv
<1>6. ClosedInv'
  BY <1>1, <1>2 DEF ClosedInv
<1>7. GivenInv'
  BY <1>1, <1>2, <1>3 DEF GivenInv, EndsSeen, Ahead, Filing, Begun, Keeping
<1> QED BY <1>5, <1>6, <1>7

LEMMA CountOwned ==
  ASSUME Working, Ru!CountErr
  PROVE  Owned'
<1> USE DEF Working, Owned
<1>1. /\ state = "RU_COUNT_ERR" /\ bus_ack
      /\ state' = IF count_then_file THEN "RU_FIN_WR_RFD_RBD" ELSE "RU_READY"
      /\ UNCHANGED <<rfd, bd, frame_bd, in_frame>>
  BY DEF Ru!CountErr, Ru!Goto, Ru!bufVars, Ru!frameVars
<1>2. ~in_frame /\ (~count_then_file => bd = frame_bd) /\ ~Restarts
  BY <1>1 DEF VerdictIInv, HoldInv, ReceiveIInv, RewindInv, Restarts
<1>3. CASE count_then_file
  <2>1. Steady
    BY <1>1, <1>2, <1>3 DEF Steady, Waiting, Begun, Keeping, Open, Opening, Filing, EndsSeen
  <2> QED BY <2>1, SteadyKeeps
<1>4. CASE ~count_then_file
  <2>1. given' = given /\ rfd_rbd' = rfd_rbd
    BY <1>1, <1>2, GivenSteps, FieldSteps
  <2>2. AreaInv'
    BY <1>1, <1>2, <1>4, FieldsKeep DEF AreaInv, Begun, Keeping
  <2>3. ClosedInv'
    BY <1>1, <1>2, <1>4 DEF ClosedInv, Begun, Keeping
  <2>4. GivenInv'
    BY <1>1, <1>2, <1>4, <2>1 DEF GivenInv, EndsSeen, Ahead, Filing, Begun, Keeping, Open, Opening
  <2> QED BY <2>2, <2>3, <2>4
<1> QED BY <1>3, <1>4

LEMMA FilingOwned ==
  ASSUME Working, (Ru!CloseRbd /\ Ru!Kept) \/ Ru!LinkBuffers
  PROVE  Owned'
<1> USE DEF Working
<1>1. /\ \/ /\ state = "RU_FIN_CLOSE_RBD" /\ frame_bd' = frame_bd
            /\ \/ state' = "RU_FIN_WR_RFD_RBD"
               \/ state' = "RU_COUNT_ERR" /\ count_then_file'
         \/ state = "RU_FIN_WR_RFD_RBD" /\ state' = "RU_FIN_RD_CMD" /\ frame_bd' = frame_bd
         \/ /\ state = "RU_FIN_RD_CMD" /\ state' = "RU_FIN_WR_STATUS"
            /\ frame_bd' = [frame_bd EXCEPT !.el = rdata]
      /\ UNCHANGED <<rfd, bd, in_frame>> /\ bus_ack
  BY DEF Ru!CloseRbd, Ru!LinkBuffers, Ru!Goto, Ru!frameVars
<1>2. ~in_frame
  BY <1>1 DEF VerdictIInv, HoldInv, Ru!FileStates
<1>3. DOMAIN frame_bd = {"rbd", "buf", "size", "el"}
  BY DEF VerdictIInv, HoldInv, Ru!NoBd
<1>4. frame_bd'.rbd = frame_bd.rbd /\ (state = "RU_FIN_RD_CMD" => frame_bd'.el = rdata)
  BY <1>1, <1>3
<1>5. EndsSeen'
  BY <1>1, <1>4, FieldsGive DEF EndsSeen, VerdictIInv
<1>6. Steady
  BY <1>1, <1>2, <1>4, <1>5 DEF Steady, Waiting, Begun, Keeping, Open, Opening, Filing, Restarts
<1> QED BY <1>6, SteadyKeeps

\* A frame is handed over, and the unit goes on behind it.
LEMMA StatusOwned ==
  ASSUME Working, Ru!WriteStatus
  PROVE  Owned'
<1> USE DEF Working, Owned
<1>1. /\ state = "RU_FIN_WR_STATUS" /\ bus_ack /\ state' = "RU_FIN_RD_LINK"
      /\ UNCHANGED <<rfd, bd, frame_bd, in_frame>>
  BY DEF Ru!WriteStatus, Ru!Filed, Ru!Goto, Ru!bufVars, Ru!frameVars
<1>2. ~in_frame /\ rfd \in Rfds /\ bd.rbd \in Rbds
  BY <1>1 DEF VerdictIInv, HoldInv, Ru!FileStates, Held, Ru!ArmStates
<1>3. given' = given \cup {rfd} \cup Closed /\ rfd_rbd' = rfd_rbd
  BY <1>1, GivenSteps, FieldSteps DEF Restarts
<1>4. AreaInv'
  BY <1>1, <1>2, FieldsKeep DEF AreaInv, Begun, Keeping
<1>5. ClosedInv'
  BY <1>1, <1>2 DEF ClosedInv, Begun, Keeping
<1>6. EndsSeen'
  BY <1>1 DEF EndsSeen, GivenInv
<1>7. \A r \in given' \cap Rfds : Behind[rfd] <= Behind[r]
  <2>1. \A r \in given \cap Rfds : Behind[rfd] + 1 <= Behind[r]
    BY <1>1 DEF GivenInv
  <2>2. \A r \in Rfds : Behind[r] \in Nat
    BY BehindIs
  <2>3. Closed \cap Rfds = {}
    BY ListsAssumption DEF Closed
  <2> QED BY <1>2, <1>3, <2>1, <2>2, <2>3
<1>8. \A g \in given' \cap Rbds : Room[bd.rbd] <= Room[g]
  <2>1. \A g \in given \cap Rbds : Room[frame_bd.rbd] + 1 <= Room[g]
    BY <1>1 DEF GivenInv, Begun, Ahead
  <2>2. frame_bd.rbd \in Rbds /\ Room[bd.rbd] <= Room[frame_bd.rbd]
    BY <1>1 DEF AreaInv, Begun
  <2>3. \A b \in Closed : Room[bd.rbd] <= Room[b]
    BY <1>1 DEF ClosedInv, Begun
  <2>4. \A b \in Rbds : Room[b] \in Nat
    BY RoomFalls
  <2>5. rfd \notin Rbds
    BY <1>2, ListsAssumption
  <2> QED BY <1>2, <1>3, <2>1, <2>2, <2>3, <2>4, <2>5
<1>9. \A r \in Rfds \ given' : rfd_rbd'[r] = Rf[r].rbd
  BY <1>1, <1>3 DEF GivenInv
<1>10. given' \subseteq Rfds \cup Rbds
  BY <1>2, <1>3 DEF GivenInv, Closed
<1>11. GivenInv'
  <2>1. Behind[rfd] + 0 = Behind[rfd] /\ Room[bd.rbd] + 0 = Room[bd.rbd]
    BY <1>2, RoomFalls, BehindIs
  <2> QED BY <1>1, <1>2, <1>6, <1>7, <1>8, <1>9, <1>10, <2>1
          DEF GivenInv, Ahead, Begun, Keeping, Open, Opening
<1> QED BY <1>4, <1>5, <1>11

LEMMA NextOwned ==
  ASSUME Working, Ru!NextRfd
  PROVE  Owned'
<1> USE DEF Working, Owned
<1>1. /\ state = "RU_FIN_RD_LINK" /\ bus_ack /\ rfd' = rdata
      /\ state' \in {"RU_NO_RESOURCE", "RU_IDLE", "RU_RD_NEXT_RBD"}
      /\ state' # "RU_NO_RESOURCE" => ~frame_bd.el
      /\ UNCHANGED <<bd, frame_bd, in_frame>>
  BY DEF Ru!NextRfd, Ru!Goto, Ru!ListEnds, Ru!bufVars, Ru!frameVars
<1>2. ~in_frame /\ rfd \in Rfds /\ rfd' = Rf[rfd].link
  BY <1>1, FieldsGive DEF VerdictIInv, HoldInv, Ru!FileStates
<1>3. given' = given /\ rfd_rbd' = rfd_rbd
  BY <1>1, GivenSteps, FieldSteps DEF Restarts
<1>4. Rf[rfd'].list = home /\ rfd' \in Rfds
  <2>1. Rf[Rf[rfd].link].list = Rf[rfd].list
    BY <1>2, AreasAssumption
  <2>2. Rf[rfd].list = home
    BY DEF AreaInv
  <2> QED BY <1>2, <2>1, <2>2, BehindFalls
<1>5. AreaInv'
  <2>1. state' = "RU_RD_NEXT_RBD" => Bd[bd.rbd].list = home
    BY <1>1 DEF AreaInv
  <2>2. home # Null
    BY DEF AreaInv
  <2> QED BY <1>1, <1>2, <1>4, <2>1, <2>2, FieldsKeep DEF AreaInv, Begun, Keeping
<1>6. ClosedInv'
  BY <1>1, <1>2 DEF ClosedInv, Begun, Keeping
<1>7. EndsSeen' /\ given' \subseteq Rfds \cup Rbds
  BY <1>1, <1>3 DEF EndsSeen, GivenInv
<1>8. CASE state' = "RU_NO_RESOURCE"
  BY <1>5, <1>6, <1>7, <1>8 DEF GivenInv
<1>9. CASE state' # "RU_NO_RESOURCE"
  <2>1. ~Rf[rfd].el
    BY <1>1, <1>9 DEF GivenInv, EndsSeen
  <2>2. /\ \A r \in given \cap Rfds : Behind[rfd] + 0 <= Behind[r]
        /\ Ahead(bd.rbd, 0)
        /\ \A r \in Rfds \ given : rfd_rbd[r] = Rf[r].rbd
    BY <1>1, <1>2 DEF GivenInv, Filing
  <2>3. Behind[rfd] = 1 + Behind[rfd'] /\ Behind[rfd'] \in Nat
    BY <1>2, <2>1, BehindFalls
  <2>4. \A r \in given \cap Rfds : Behind[rfd'] + 1 <= Behind[r]
    BY <2>2, <2>3
  <2>5. rfd_rbd'[rfd'] = Null
    <3>1. rfd' \notin given
      BY <1>4, <2>3, <2>4
    <3>2. Rf[Rf[rfd].link].rbd = Null
      BY <1>2, <2>1, AreasAssumption
    <3> QED BY <1>2, <1>3, <1>4, <2>2, <3>1, <3>2
  <2>6. GivenInv'
    BY <1>1, <1>2, <1>3, <1>7, <1>9, <2>2, <2>4, <2>5
       DEF GivenInv, Ahead, Begun, Keeping, Open, Opening
  <2> QED BY <1>5, <1>6, <2>6
<1> QED BY <1>8, <1>9

LEMMA OwnedKeeps ==
  ASSUME Clock, VerdictIInv, AccessInv, WpInv, Owned
  PROVE  Owned' \/ ~Live'
<1> SUFFICES ASSUME Live'
             PROVE  Owned'
  OBVIOUS
<1>1. /\ ~core_rst /\ ru_ctl # "ABORT" /\ ~cut
      /\ \/ Started
         \/ /\ Live /\ home' = home
            /\ ~(ru_ctl = "START" /\ state \in {"RU_IDLE", "RU_NO_RESOURCE"})
  BY LiveSteps DEF VerdictIInv
<1>2. CASE Started
  BY <1>1, <1>2, StartOwned
<1>3. CASE ~Started
  <2>1. Working
    BY <1>1, <1>3 DEF Working
  <2>2. \/ Ru!Idle \/ Ru!NoResource \/ Ru!Arm \/ Ru!Ready
        \/ Ru!Take \/ Ru!Dispose \/ Ru!WriteStatus \/ Ru!NextRfd \/ Ru!Wait
    BY <1>1, RuCases DEF Clock, Ru!RuReset, Ru!Abort, Ru!Aborting
  <2>3. CASE Ru!Dispose
    <3>1. Ru!Drop \/ Ru!CloseRbd \/ Ru!CountErr \/ Ru!LinkBuffers
      BY <2>3 DEF Ru!Dispose
    <3> QED BY <2>1, <3>1, DropOwned, CountOwned, FilingOwned
  <2> QED BY <2>1, <2>2, <2>3, IdleOwned, OpenOwned, ReadyOwned, TakeOwned, StatusOwned,
          NextOwned, WaitOwned
<1> QED BY <1>2, <1>3

-----------------------------------------------------------------------------
\* The word gathered, and the write posted.

LEMMA Lanes ==
  ASSUME NEW b \in Nat, NEW o \in Nat
  PROVE  /\ (b + o) % 4 \in 0..3 /\ (b + o) - ((b + o) % 4) \in Int
         /\ (b + o) % 4 # 3 =>
              (b + (o + 1)) - ((b + (o + 1)) % 4) = (b + o) - ((b + o) % 4)
BY SMT

LEMMA GatherOwn ==
  ASSUME VerdictIInv, BufInv, AccInv, state = "RU_POP", ~cut
  PROVE  LET g == Ru!Gathered
         IN  /\ DOMAIN g.lanes \subseteq 0..3 /\ g.at = Ru!WordAddr
             /\ \A l \in DOMAIN g.lanes :
                  g.at + l \in Bd[bd.rbd].buf..(Bd[bd.rbd].buf + Bd[bd.rbd].size - 1)
<1> DEFINE g == Ru!Gathered
           own == Bd[bd.rbd].buf..(Bd[bd.rbd].buf + Bd[bd.rbd].size - 1)
<1>1. /\ bd.buf \in Nat /\ bd.buf = Bd[bd.rbd].buf /\ bd.size = Bd[bd.rbd].size
      /\ bd.rbd \in Rbds
  BY DEF BufInv, VerdictIInv, HoldInv, Held, Ru!ArmStates
<1>2. buf_off \in Nat /\ buf_off < bd.size
  BY DEF VerdictIInv, HoldInv, Amid, InHandInv, Filling
<1>3. Bd[bd.rbd].size \in Nat
  BY <1>1, ListsAssumption
<1>4. Ru!Lane \in 0..3 /\ Ru!WordAddr \in Int /\ Ru!WordAddr + Ru!Lane = Ru!ByteAddr
  <2>1. Ru!ByteAddr \in Nat /\ Ru!Lane \in 0..3
    BY <1>1, <1>2, Lanes DEF Ru!ByteAddr, Ru!Lane
  <2> QED BY <2>1 DEF Ru!WordAddr
<1>5. Ru!ByteAddr \in own
  BY <1>1, <1>2, <1>3 DEF Ru!ByteAddr
<1>6. /\ DOMAIN g.lanes = DOMAIN acc.lanes \cup {Ru!Lane}
      /\ g.at = IF Ru!AccDirty THEN acc.at ELSE Ru!WordAddr
  BY DEF Ru!Gathered
<1> HIDE DEF g
<1>7. CASE Ru!AccDirty
  <2>1. /\ DOMAIN acc.lanes \subseteq 0..3 /\ acc.at = Ru!WordAddr
        /\ \A l \in DOMAIN acc.lanes : acc.at + l \in own
    BY <1>7 DEF AccInv
  <2> HIDE DEF own
  <2> QED BY <1>4, <1>5, <1>6, <1>7, <2>1 DEF g, own
<1>8. CASE ~Ru!AccDirty
  <2>1. DOMAIN g.lanes = {Ru!Lane} /\ g.at = Ru!WordAddr
    BY <1>6, <1>8 DEF Ru!AccDirty
  <2> HIDE DEF own
  <2> QED BY <1>4, <1>5, <2>1 DEF g, own
<1> QED BY <1>7, <1>8

LEMMA AccByte ==
  ASSUME VerdictIInv, BufInv, AccInv, Ru!Take, Ru!PopByte, ~cut
  PROVE  AccInv'
<1>1. state = "RU_POP" /\ UNCHANGED <<bd, in_frame>> /\ DOMAIN Ru!NoAcc.lanes = {}
  BY DEF Ru!Take, Ru!PopByte, Ru!PopNow, Ru!NoAcc
<1>2. CASE Ru!RejectByte
  BY <1>1, <1>2 DEF Ru!RejectByte, AccInv, Ru!AccDirty
<1>3. CASE Ru!HeaderByte
  <2>1. UNCHANGED <<state, buf_off, acc>>
    BY <1>3 DEF Ru!HeaderByte
  <2> QED BY <1>1, <2>1 DEF AccInv, Ru!AccDirty, Ru!WordAddr, Ru!ByteAddr, Ru!Lane
<1>4. CASE Ru!BufferByte
  <2>1. state' \in {"RU_POP", "RU_FLUSH"} /\ buf_off' = buf_off + 1
    BY <1>1, <1>4 DEF Ru!BufferByte, Ru!Goto
  <2>2. CASE Ru!LastLane
    BY <1>1, <1>4, <2>2 DEF Ru!BufferByte, AccInv, Ru!AccDirty
  <2>3. CASE ~Ru!LastLane
    <3> DEFINE g == Ru!Gathered
    <3>1. acc' = g
      BY <1>4, <2>3 DEF Ru!BufferByte
    <3>2. /\ DOMAIN g.lanes \subseteq 0..3 /\ g.at = Ru!WordAddr
          /\ \A l \in DOMAIN g.lanes :
               g.at + l \in Bd[bd.rbd].buf..(Bd[bd.rbd].buf + Bd[bd.rbd].size - 1)
      BY <1>1, GatherOwn
    <3>3. Ru!WordAddr' = Ru!WordAddr
      <4>1. bd.buf \in Nat /\ buf_off \in Nat
        BY <1>1 DEF BufInv, VerdictIInv, HoldInv, Amid, InHandInv, Filling
      <4>2. (bd.buf + buf_off) % 4 # 3
        BY <2>3 DEF Ru!LastLane, Ru!Lane, Ru!ByteAddr
      <4>3. (bd.buf + (buf_off + 1)) - ((bd.buf + (buf_off + 1)) % 4)
              = (bd.buf + buf_off) - ((bd.buf + buf_off) % 4)
        BY <4>1, <4>2, Lanes
      <4>4. Ru!ByteAddr = bd.buf + buf_off /\ Ru!ByteAddr' = bd.buf + (buf_off + 1)
        BY <1>1, <2>1 DEF Ru!ByteAddr
      <4>5. /\ Ru!WordAddr = Ru!ByteAddr - (Ru!ByteAddr % 4)
            /\ Ru!WordAddr' = Ru!ByteAddr' - (Ru!ByteAddr' % 4)
        BY <4>1, <4>4 DEF Ru!WordAddr, Ru!Lane
      <4> HIDE DEF g
      <4> QED BY <4>1, <4>3, <4>4, <4>5
    <3> HIDE DEF g
    <3> QED BY <1>1, <2>1, <3>1, <3>2, <3>3 DEF AccInv
  <2> QED BY <2>2, <2>3
<1> QED BY <1>2, <1>3, <1>4 DEF Ru!PopByte

LEMMA AccKeeps ==
  ASSUME Clock, VerdictIInv, BufInv, AccInv
  PROVE  AccInv'
<1> SUFFICES ASSUME ~cut', Ru!AccDirty', ~core_rst
             PROVE  AccInv'
  <2>1. Ru!RuReset => ~Ru!AccDirty'
    BY DEF Ru!RuReset, Ru!AccDirty, Ru!NoAcc
  <2> QED BY <2>1, RuCases DEF AccInv, Clock, Ru!RuEdge, Ru!Abort
<1>1. ~cut /\ (ru_ctl = "ABORT" => ~in_frame)
  BY DEF Clock, History
<1>2. CASE Ru!Abort \/ Ru!Idle \/ Ru!NoResource \/ Ru!Arm
  <2>1. UNCHANGED <<acc, in_frame>>
    BY <1>2 DEF Ru!Abort, Ru!Idle, Ru!NoResource, Ru!Arm, Ru!frameVars
  <2>2. Ru!AccDirty
    BY <2>1 DEF Ru!AccDirty
  <2>3. ~in_frame /\ state' \notin {"RU_POP", "RU_FLUSH"}
    <3>1. CASE Ru!Abort
      BY <1>1, <3>1 DEF Ru!Abort, Ru!Aborting, Ru!Goto
    <3>2. CASE Ru!Idle \/ Ru!NoResource
      BY <1>1, <2>2, <3>2 DEF Ru!Idle, Ru!NoResource, Ru!Goto, AccInv
    <3>3. CASE Ru!Arm
      BY <1>1, <2>2, <3>3 DEF Ru!Arm, Ru!Goto, AccInv
    <3> QED BY <1>2, <3>1, <3>2, <3>3
  <2> QED BY <2>1, <2>3 DEF AccInv
<1>3. ~Ru!Ready
  BY DEF Ru!Ready, Ru!AccDirty, Ru!NoAcc
<1>4. CASE Ru!Take
  <2>1. CASE Ru!PopByte
    BY <1>1, <1>4, <2>1, AccByte
  <2>2. CASE Ru!PopEnd
    <3>1. UNCHANGED <<bd, buf_off, acc>> /\ state = "RU_POP"
      BY <1>4, <2>2 DEF Ru!Take, Ru!PopEnd, Ru!PopNow
    <3>2. state' = "RU_FLUSH" /\ ~in_frame'
      BY <2>2 DEF Ru!PopEnd, Ru!TakeEnd, Ru!Goto
    <3> QED BY <1>1, <3>1, <3>2 DEF AccInv, Ru!AccDirty, Ru!WordAddr, Ru!ByteAddr, Ru!Lane
  <2>3. CASE Ru!Flush \/ Ru!FullPeek \/ Ru!CloseFull
    <3>1. ~Ru!AccDirty'
      <4>1. Ru!Flush => ~Ru!AccDirty'
        BY DEF Ru!Flush, Ru!AccDirty, Ru!NoAcc
      <4>2. Ru!FullPeek \/ Ru!CloseFull => UNCHANGED acc /\ ~Ru!AccDirty
        BY DEF Ru!FullPeek, Ru!CloseFull, VerdictIInv, ReceiveIInv, GatherInv
      <4> QED BY <2>3, <4>1, <4>2 DEF Ru!AccDirty
    <3> QED BY <3>1
  <2> QED BY <1>4, <2>1, <2>2, <2>3 DEF Ru!Take
<1>5. ~(Ru!Dispose \/ Ru!WriteStatus \/ Ru!NextRfd)
  <2>1. Ru!Dispose => UNCHANGED acc /\ state \in {"RU_DROP", "RU_COUNT_ERR"} \cup Ru!FileStates
    BY DisposeSteps DEF Ru!Dispose, Ru!FileStates
  <2>2. Ru!WriteStatus \/ Ru!NextRfd => UNCHANGED acc /\ state \in Ru!FileStates
    BY DEF Ru!WriteStatus, Ru!Filed, Ru!NextRfd, Ru!FileStates
  <2>3. state \in {"RU_DROP", "RU_COUNT_ERR"} \cup Ru!FileStates => ~Ru!AccDirty
    BY DEF VerdictIInv, ReceiveIInv, GatherInv
  <2> QED BY <2>1, <2>2, <2>3 DEF Ru!AccDirty
<1>6. CASE Ru!Wait
  <2>1. UNCHANGED <<state, bd, buf_off, acc, in_frame>>
    BY <1>6 DEF Ru!Wait, Ru!bufVars, Ru!frameVars
  <2> QED BY <1>1, <2>1 DEF AccInv, Ru!AccDirty, Ru!WordAddr, Ru!ByteAddr, Ru!Lane
<1> QED BY <1>2, <1>3, <1>4, <1>5, <1>6, RuCases DEF Clock, Ru!RuReset

-----------------------------------------------------------------------------
\* What is the unit's own stays so, and the unit writes nothing else.

LEMMA OwnStays ==
  ASSUME NEW p, OwnPlace(p), home' = home, given' \subseteq given
  PROVE  OwnPlace(p)'
BY DEF OwnPlace, HostsOwn, InArea

LEMMA OwnReset ==
  ASSUME NEW p, home' = Null, given' = {}
  PROVE  OwnPlace(p)'
BY DEF OwnPlace, HostsOwn

\* An edge with an access or a posted write under way.
LEMMA QuietOwn ==
  ASSUME Clock, ~core_rst, ~cut, ~(state = "RU_FIN_WR_STATUS" /\ bus_ack),
         ~(ru_ctl = "START" /\ state \in {"RU_IDLE", "RU_NO_RESOURCE"})
  PROVE  home' = home /\ given' \subseteq given
BY DEF Clock, History

\* The descriptor in hand, and the buffer.
LEMMA RfdOwn ==
  ASSUME Owned, HoldInv, Live, state \notin {"RU_NO_RESOURCE", "RU_FIN_RD_LINK"}, NEW n
  PROVE  rfd \in Rfds /\ OwnPlace(<<rfd, n>>)
<1>1. rfd \in Rfds /\ Rf[rfd].list = home
  BY DEF Owned, AreaInv, HoldInv, Live
<1>2. \A r \in given \cap Rfds : Behind[rfd] + 1 <= Behind[r]
  BY DEF Owned, GivenInv
<1>3. rfd \notin given
  BY <1>1, <1>2, BehindIs
<1>4. rfd # "BUF"
  BY <1>1, ListsAssumption
<1> QED BY <1>1, <1>3, <1>4 DEF OwnPlace, HostsOwn, InArea

LEMMA RbdOwn ==
  ASSUME Owned, HoldInv, Live, in_frame \/ state \in Begun,
         state \notin Ru!ArmStates \cup {"RU_IDLE", "RU_NO_RESOURCE"}
  PROVE  /\ bd.rbd \in Rbds /\ Bd[bd.rbd].list = home /\ bd.rbd \notin given
         /\ \A g \in given \cap Rbds : Bd[g].buf + Bd[g].size <= Bd[bd.rbd].buf
                                        \/ Bd[bd.rbd].buf + Bd[bd.rbd].size <= Bd[g].buf
<1>1. bd.rbd \in Rbds /\ Bd[bd.rbd].list = home
  BY DEF Owned, AreaInv, HoldInv, Held, Ru!ArmStates
<1>2. frame_bd.rbd \in Rbds /\ Room[bd.rbd] <= Room[frame_bd.rbd]
  BY DEF Owned, AreaInv
<1>3. \A g \in given \cap Rbds : Room[frame_bd.rbd] + 1 <= Room[g]
  BY DEF Owned, GivenInv, Ahead
<1>4. \A b \in Rbds : Room[b] \in Nat
  BY RoomFalls
<1>5. bd.rbd \notin given
  BY <1>1, <1>2, <1>3, <1>4
<1>6. \A g \in Rbds : \/ g = bd.rbd
                      \/ Bd[g].buf + Bd[g].size <= Bd[bd.rbd].buf
                      \/ Bd[bd.rbd].buf + Bd[bd.rbd].size <= Bd[g].buf
  BY <1>1, AreasAssumption
<1> QED BY <1>1, <1>5, <1>6

LEMMA BytesOwn ==
  ASSUME Owned, HoldInv, Live, in_frame \/ state \in Begun,
         state \notin Ru!ArmStates \cup {"RU_IDLE", "RU_NO_RESOURCE"},
         NEW a \in Bd[bd.rbd].buf..(Bd[bd.rbd].buf + Bd[bd.rbd].size - 1)
  PROVE  OwnPlace(<<"BUF", a>>)
<1>1. /\ bd.rbd \in Rbds /\ Bd[bd.rbd].list = home
      /\ \A g \in given \cap Rbds : Bd[g].buf + Bd[g].size <= Bd[bd.rbd].buf
                                     \/ Bd[bd.rbd].buf + Bd[bd.rbd].size <= Bd[g].buf
  BY RbdOwn
<1>2. \A b \in Rbds : Bd[b].buf \in Nat /\ Bd[b].size \in Nat
  BY AreasAssumption, ListsAssumption
<1>3. "BUF" \notin given
  BY ListsAssumption, AreasAssumption DEF Owned, GivenInv
<1>4. \A g \in given \cap Rbds : a \notin Bd[g].buf..(Bd[g].buf + Bd[g].size - 1)
  BY <1>1, <1>2
<1> QED BY <1>1, <1>3, <1>4 DEF OwnPlace, HostsOwn, InArea

\* A word of the buffer in hand.
LEMMA WordOwn ==
  ASSUME Owned, HoldInv, Live, in_frame \/ state \in Begun,
         state \notin Ru!ArmStates \cup {"RU_IDLE", "RU_NO_RESOURCE"}, NEW w,
         \A l \in DOMAIN w.lanes :
           w.at + l \in Bd[bd.rbd].buf..(Bd[bd.rbd].buf + Bd[bd.rbd].size - 1)
  PROVE  \A p \in Places(Ru!Post(w)) : OwnPlace(p)
<1> SUFFICES ASSUME NEW p \in Places(Ru!Post(w))
             PROVE  OwnPlace(p)
  OBVIOUS
<1>1. /\ Ru!Post(w).size = "WORD" /\ Ru!Post(w).of = "BUF"
      /\ Ru!Post(w).n = w.at /\ Ru!Post(w).data = w.lanes
  BY DEF Ru!Post, Ru!Access
<1>2. PICK l \in DOMAIN w.lanes : p = <<"BUF", w.at + l>>
  BY <1>1 DEF Places
<1> QED BY <1>2, BytesOwn

\* What becomes of the posted write.
LEMMA PostKinds ==
  ASSUME Clock, VerdictIInv, BufInv, AccInv, ~cut, ~core_rst, Ru!wp_valid', wp' # wp
  PROVE  /\ state \in {"RU_POP", "RU_FLUSH"} /\ ru_ctl # "ABORT"
         /\ \/ state = "RU_POP" /\ wp' = Ru!PostHeader(frame_len, rx_data.byte)
            \/ \E w \in {acc, Ru!Gathered} :
                 /\ wp' = Ru!Post(w)
                 /\ \A l \in DOMAIN w.lanes :
                      w.at + l \in Bd[bd.rbd].buf..(Bd[bd.rbd].buf + Bd[bd.rbd].size - 1)
<1> USE DEF Ru!wp_valid
<1>1. Ru!Drain => FALSE
  BY DEF Ru!Drain, Ru!NoRequest, Ru!Access
<1>2. ~Ru!Abort /\ ~Ru!Idle /\ ~Ru!NoResource /\ ~Ru!Arm /\ ~Ru!Ready /\ ~Ru!Wait
  BY <1>1 DEF Ru!Abort, Ru!Idle, Ru!NoResource, Ru!Arm, Ru!Ready, Ru!Wait
<1>3. ~Ru!Dispose /\ ~Ru!WriteStatus /\ ~Ru!NextRfd
  BY <1>1 DEF Ru!Dispose, Ru!Drop, Ru!CloseRbd, Ru!CountErr, Ru!LinkBuffers, Ru!WriteStatus,
     Ru!NextRfd
<1>4. Ru!Take /\ ru_ctl # "ABORT"
  BY <1>2, <1>3, RuCases DEF Clock, Ru!RuReset
<1>5. ~Ru!PopEnd /\ ~Ru!FullPeek /\ ~Ru!CloseFull
  BY <1>1 DEF Ru!PopEnd, Ru!FullPeek, Ru!CloseFull
<1>6. CASE Ru!PopByte
  <2>1. state = "RU_POP" /\ ~Ru!RejectByte
    BY <1>1, <1>6 DEF Ru!PopByte, Ru!PopNow, Ru!RejectByte
  <2>2. CASE Ru!HeaderByte
    BY <1>4, <2>1, <2>2 DEF Ru!HeaderByte
  <2>3. CASE Ru!BufferByte
    <3>1. wp' = Ru!Post(Ru!Gathered)
      BY <1>1, <2>3 DEF Ru!BufferByte
    <3> QED BY <1>4, <2>1, <3>1, GatherOwn
  <2> QED BY <1>6, <2>1, <2>2, <2>3 DEF Ru!PopByte
<1>7. CASE Ru!Flush
  <2>1. state = "RU_FLUSH" /\ wp' = Ru!Post(acc) /\ Ru!AccDirty
    BY <1>7 DEF Ru!Flush
  <2> QED BY <1>4, <2>1 DEF AccInv
<1> QED BY <1>4, <1>5, <1>6, <1>7 DEF Ru!Take

LEMMA WpKeeps ==
  ASSUME Clock, VerdictIInv, BufInv, AccInv, WpInv, Owned
  PROVE  WpInv'
<1> SUFFICES ASSUME ~cut', Ru!wp_valid'
             PROVE  /\ wp'.size = "WORD" => wp'.of = "BUF"
                    /\ \A p \in Places(wp') : OwnPlace(p)'
  BY DEF WpInv, Places
<1>1. ~core_rst /\ ~cut
  <2>1. Ru!RuReset => ~Ru!wp_valid'
    BY DEF Ru!RuReset, Ru!wp_valid, Ru!NoRequest, Ru!Access
  <2>2. ~core_rst
    BY <2>1 DEF Clock, Ru!RuEdge
  <2> QED BY <2>2 DEF Clock, History
<1>2. CASE wp' = wp
  <2>1. Ru!wp_valid
    BY <1>2 DEF Ru!wp_valid
  <2>2. ~(state = "RU_FIN_WR_STATUS" /\ bus_ack)
        /\ ~(ru_ctl = "START" /\ state \in {"RU_IDLE", "RU_NO_RESOURCE"})
    BY <1>1, <2>1 DEF VerdictIInv, PostInv
  <2> QED BY <1>1, <1>2, <2>1, <2>2, QuietOwn, OwnStays DEF WpInv
<1>3. CASE wp' # wp
  <2>1. state \in {"RU_POP", "RU_FLUSH"}
    BY <1>1, <1>3, PostKinds
  <2>2. /\ Live /\ (in_frame \/ state \in Begun) /\ HoldInv
        /\ state \notin Ru!ArmStates \cup {"RU_IDLE", "RU_NO_RESOURCE", "RU_FIN_RD_LINK"}
    BY <1>1, <2>1 DEF Live, VerdictIInv, HoldInv, Amid, Begun, Keeping, Ru!ArmStates
  <2>3. home' = home /\ given' \subseteq given
    BY <1>1, <2>1, QuietOwn
  <2>4. CASE wp' = Ru!PostHeader(frame_len, rx_data.byte)
    <3>1. wp'.size = "BYTE" /\ wp'.of = rfd
      BY <2>4 DEF Ru!PostHeader, Ru!Access
    <3>2. Places(wp') = {<<rfd, wp'.n>>}
      BY <3>1 DEF Places
    <3> QED BY <2>2, <2>3, <3>1, <3>2, RfdOwn, OwnStays
  <2>5. ASSUME NEW w, wp' = Ru!Post(w),
               \A l \in DOMAIN w.lanes :
                 w.at + l \in Bd[bd.rbd].buf..(Bd[bd.rbd].buf + Bd[bd.rbd].size - 1)
        PROVE  /\ wp'.size = "WORD" => wp'.of = "BUF"
               /\ \A p \in Places(wp') : OwnPlace(p)'
    <3>1. wp'.of = "BUF"
      BY <2>5 DEF Ru!Post, Ru!Access
    <3>2. \A p \in Places(wp') : OwnPlace(p)
      BY <2>2, <2>5, WordOwn
    <3> QED BY <2>3, <3>1, <3>2, OwnStays
  <2> QED BY <1>1, <1>3, <2>4, <2>5, PostKinds
<1> QED BY <1>2, <1>3

LEMMA WritesKeep ==
  ASSUME Clock, VerdictIInv, WpInv, WritesItsOwn, Owned
  PROVE  WritesItsOwn'
<1> SUFFICES ASSUME Writing', ~cut', NEW p \in Places(access')
             PROVE  OwnPlace(p)'
  BY DEF WritesItsOwn, OwnPlace, Places
<1>1. CASE core_rst
  BY <1>1, OwnReset DEF Clock, History, Forget
<1>2. CASE ~core_rst
  <2>1. ~cut
    BY <1>2 DEF Clock, History
  <2>2. ru_ctl = "NOP"
    BY AfterPulse DEF Writing, VerdictIInv
  <2>3. /\ access'.we /\ ~bus_ack
        /\ \/ port = "ACTIVE" /\ access' = access
           \/ access' = Ru!Request
    BY DEF Writing, Clock, PortEdge, PortMoves, PortIdle, PortStart, OtherStart, PortDone, PortAck,
       OtherDone, PortWait, portVars, bus_ack
  <2>4. home' = home /\ given' \subseteq given
    BY <1>2, <2>1, <2>2, <2>3, QuietOwn
  <2>5. CASE port = "ACTIVE" /\ access' = access
    <3>1. OwnPlace(p)
      BY <2>1, <2>3, <2>5 DEF WritesItsOwn, Writing, OwnPlace
    <3> QED BY <2>4, <3>1, OwnStays
  <2>6. CASE access' = Ru!Request
    <3>1. Ru!Request.we /\ p \in Places(Ru!Request)
      BY <2>3, <2>6
    <3>2. CASE Ru!wp_valid /\ Ru!Request = wp
      <4>1. OwnPlace(p)
        BY <2>1, <3>1, <3>2 DEF WpInv
      <4> QED BY <2>4, <4>1, OwnStays
    <3>3. ASSUME state \in {"RU_CLOSE_FULL", "RU_FIN_CLOSE_RBD"}, p = <<bd.rbd, 0>>
          PROVE  OwnPlace(p)
      <4>1. /\ Live /\ (in_frame \/ state \in Begun) /\ HoldInv
            /\ state \notin Ru!ArmStates \cup {"RU_IDLE", "RU_NO_RESOURCE"}
        BY <2>1, <3>3 DEF Live, VerdictIInv, HoldInv, Amid, Begun, Keeping, Ru!ArmStates
      <4>2. bd.rbd \in Rbds /\ Bd[bd.rbd].list = home /\ bd.rbd \notin given
        BY <4>1, RbdOwn
      <4>3. bd.rbd # "BUF"
        BY <4>2, AreasAssumption
      <4> QED BY <3>3, <4>2, <4>3 DEF OwnPlace, HostsOwn, InArea
    <3>4. ASSUME state \in {"RU_FIN_WR_RFD_RBD", "RU_FIN_WR_STATUS"}, NEW n, p = <<rfd, n>>
          PROVE  OwnPlace(p)
      BY <2>1, <3>4, RfdOwn DEF Live, VerdictIInv
    <3>5. ASSUME p[1] = "SCB"
          PROVE  OwnPlace(p)
      <4>1. "SCB" \notin given /\ "SCB" # "BUF"
        BY ListsAssumption, AreasAssumption DEF Owned, GivenInv
      <4> QED BY <3>5, <4>1 DEF OwnPlace, HostsOwn, InArea
    <3>6. \/ Ru!wp_valid /\ Ru!Request = wp
          \/ state \in {"RU_CLOSE_FULL", "RU_FIN_CLOSE_RBD"} /\ p = <<bd.rbd, 0>>
          \/ state = "RU_FIN_WR_RFD_RBD" /\ p = <<rfd, 6>>
          \/ state = "RU_FIN_WR_STATUS" /\ p = <<rfd, 0>>
          \/ p[1] = "SCB"
      BY <2>1, <3>1, Writes DEF VerdictIInv
    <3> QED BY <2>4, <3>2, <3>3, <3>4, <3>5, <3>6, OwnStays
  <2> QED BY <2>3, <2>5, <2>6
<1> QED BY <1>1, <1>2

LEMMA GivenTyped ==
  ASSUME Clock, VerdictIInv, Owned
  PROVE  given' \subseteq Rfds \cup Rbds
<1>1. given \subseteq Rfds \cup Rbds
  BY DEF Owned, GivenInv
<1>2. state = "RU_FIN_WR_STATUS" => rfd \in Rfds
  BY DEF VerdictIInv, HoldInv
<1> QED BY <1>1, <1>2 DEF Clock, History

LEMMA OwnInit == Init => OwnIInv
<1> SUFFICES ASSUME Init
             PROVE  OwnIInv
  OBVIOUS
<1>1. VerdictIInv
  BY VerdictInit
<1>2. AccessInv /\ WritesItsOwn
  BY DEF Init, AccessInv, WritesItsOwn, Writing
<1>3. BufInv /\ AccInv /\ WpInv
  BY DEF Init, Ru!RuInit, Ru!NoBd, Ru!NoAcc, Ru!NoRequest, Ru!Access, Ru!AccDirty,
     Ru!wp_valid, BufInv, AccInv, WpInv, Keeping
<1>4. AreaInv /\ ClosedInv /\ GivenInv
  BY DEF Init, Ru!RuInit, AreaInv, ClosedInv, GivenInv, Live
<1> QED BY <1>1, <1>2, <1>3, <1>4 DEF OwnIInv

LEMMA OwnStep ==
  ASSUME OwnIInv, Clock
  PROVE  OwnIInv'
<1> USE DEF OwnIInv
<1>1. VerdictIInv'
  BY VerdictStep
<1>2. AccessInv' /\ BufInv' /\ AccInv'
  BY AccessKeeps, BufKeeps, AccKeeps DEF VerdictIInv
<1>3. Owned
  BY DEF Owned
<1>4. WpInv' /\ WritesItsOwn'
  BY <1>3, WpKeeps, WritesKeep
<1>5. AreaInv' /\ ClosedInv' /\ GivenInv'
  <2>1. CASE Live'
    BY <1>3, <2>1, OwnedKeeps DEF Owned
  <2>2. CASE ~Live'
    BY <1>3, <2>2, GivenTyped DEF AreaInv, ClosedInv, GivenInv
  <2> QED BY <2>1, <2>2
<1> QED BY <1>1, <1>2, <1>4, <1>5

LEMMA OwnStutter ==
  ASSUME OwnIInv, UNCHANGED vars
  PROVE  OwnIInv'
<1> USE DEF OwnIInv, vars, ruVars, ctlVars, rxVars, portVars, memVars, histVars
<1>1. VerdictIInv'
  BY VerdictStutter
<1>2. Ru!Request' = Ru!Request /\ Ru!wp_valid' = Ru!wp_valid /\ Live' = Live /\ Closed' = Closed
  BY DEF Ru!Request, Ru!wp_valid, Ru!StateRequest, Ru!WhichErr, Ru!ErrValue, Live, Closed
<1>3. AccessInv' /\ BufInv'
  BY <1>2 DEF AccessInv, BufInv
<1>4. AreaInv' /\ ClosedInv' /\ GivenInv'
  BY <1>2 DEF AreaInv, ClosedInv, GivenInv, EndsSeen, Ahead
<1>5. AccInv'
  BY DEF AccInv, Ru!AccDirty, Ru!WordAddr, Ru!ByteAddr, Ru!Lane
<1>6. WpInv' /\ WritesItsOwn'
  <2>1. \A p : OwnPlace(p)' = OwnPlace(p)
    BY DEF OwnPlace, HostsOwn, InArea
  <2>2. WpInv'
    BY <1>2, <2>1 DEF WpInv, Places
  <2>3. WritesItsOwn'
    BY DEF WritesItsOwn, Writing, Places, HostsOwn, InArea
  <2> QED BY <2>2, <2>3
<1> QED BY <1>1, <1>3, <1>4, <1>5, <1>6

\* The invariant that keeps track of the unit's place on its lists: what is in
\* hand is of its area, what has been handed over is behind it, and what it has
\* gathered and posted is for the buffer in hand.
THEOREM OwnInvariance == Spec => []OwnIInv
<1>1. Init => OwnIInv
  BY OwnInit
<1>2. OwnIInv /\ [Next]_vars => OwnIInv'
  BY OwnStep, OwnStutter DEF Next
<1> QED BY <1>1, <1>2, PTL DEF Spec

\* As long as no abort has hit the unit in the middle of a frame, whatever it
\* writes goes to the area it was last started on, and never to a descriptor or
\* a buffer that it has handed to the host and the host has not given back.
THEOREM WritesOnlyItsOwn == Spec => []WritesItsOwn
<1>1. OwnIInv => WritesItsOwn
  BY DEF OwnIInv
<1> QED BY <1>1, OwnInvariance, PTL

-----------------------------------------------------------------------------
\* The edges on which what has been taken of a frame is kept.

StoredInv == LandedInv /\ RightInv /\ CoverInv /\ ChainedInv /\ WholeInv
Keeps ==
  /\ Clock /\ OwnIInv /\ StoredInv /\ Storing /\ Storing' /\ ~core_rst /\ ru_ctl # "ABORT"
  /\ frame' = frame /\ cfg' = cfg /\ rfd' = rfd /\ frame_bd'.rbd = frame_bd.rbd

\* Where the unit is meanwhile, and what it has in hand.
LEMMA StoringHas ==
  ASSUME OwnIInv, WholeInv, Storing
  PROVE  /\ state \notin {"RU_IDLE", "RU_NO_RESOURCE", "RU_READY", "RU_RD_RFD_RBD", "RU_DROP",
                          "RU_FIN_RD_LINK"}
         /\ ~cut /\ Live /\ (in_frame \/ state \in Begun) /\ frame \in Frames
         /\ ~(state = "RU_COUNT_ERR" /\ ~count_then_file)
         /\ rfd \in Rfds /\ bd.rbd \in Rbds /\ frame_bd.rbd \in Rbds
         /\ buf_off \in Nat /\ buf_off <= Bd[bd.rbd].size
<1> USE DEF OwnIInv
<1>1. ~cut /\ (~Whole => in_frame /\ state # "RU_DROP")
  BY DEF Storing
<1>2. in_frame => state \notin Apart
  BY <1>1 DEF VerdictIInv, ReceiveIInv, FrameInv
<1>3. state \notin {"RU_IDLE", "RU_NO_RESOURCE", "RU_READY", "RU_RD_RFD_RBD", "RU_DROP",
                    "RU_FIN_RD_LINK"}
  BY <1>1, <1>2 DEF Apart, Resting, Whole, Filing, Ru!FileStates
<1>4. ~(state = "RU_COUNT_ERR" /\ ~count_then_file)
  BY <1>1, <1>2 DEF Apart, Whole, Filing
<1>5. in_frame \/ state \in Begun
  BY <1>1 DEF Whole, Filing, Begun, Keeping
<1>6. Live
  BY <1>1, <1>3 DEF Live
<1>7. frame \in Frames
  BY <1>1 DEF VerdictIInv, InHandInv, WholeInv
<1>8. rfd \in Rfds /\ bd.rbd \in Rbds /\ frame_bd.rbd \in Rbds
  <2>1. rfd \in Rfds /\ bd.rbd \in Rbds
    BY <1>3 DEF VerdictIInv, HoldInv, Held, Opening, Ru!ArmStates
  <2> QED BY <1>5, <1>6, <2>1 DEF AreaInv
<1>9. buf_off \in Nat /\ buf_off <= Bd[bd.rbd].size
  <2>1. CASE Whole
    BY <1>1, <2>1 DEF WholeInv
  <2>2. CASE ~Whole
    <3>1. in_frame /\ Filling /\ state \in Opening \cup {"RU_POP", "RU_FLUSH", "RU_FULL_PEEK",
             "RU_CLOSE_FULL", "RU_RD_NEXT_RBD"}
      <4>1. state \in Ru!States
        BY DEF VerdictIInv, ReceiveIInv, ReceiveTypeOK
      <4>2. in_frame /\ Filling
        BY <1>1, <2>2 DEF VerdictIInv, InHandInv
      <4> QED BY <1>2, <1>3, <4>1, <4>2
              DEF Ru!States, Ru!ArmStates, Ru!TakeStates, Ru!FileStates, Apart, Opening
    <3>2. state \notin Ru!ArmStates => bd.size = Bd[bd.rbd].size
      BY <1>3 DEF VerdictIInv, HoldInv, Held
    <3>3. Bd[bd.rbd].size \in Nat
      BY <1>8, ListsAssumption
    <3> QED BY <3>1, <3>2, <3>3 DEF Filling, Opening, Ru!ArmStates
  <2> QED BY <2>1, <2>2
<1> QED BY <1>1, <1>3, <1>4, <1>5, <1>6, <1>7, <1>8, <1>9

LEMMA StoringSteps ==
  ASSUME Clock, OwnIInv, StoredInv, Storing'
  PROVE  /\ ~core_rst /\ ru_ctl # "ABORT" /\ ~cut
         /\ \/ Ru!Ready
            \/ /\ Keeps
               /\ \/ Ru!Take \/ Ru!Arm \/ Ru!Wait
                  \/ Ru!Dispose /\ (Ru!CloseRbd \/ Ru!CountErr \/ Ru!LinkBuffers)
<1> USE DEF OwnIInv, VerdictIInv
<1>1. ~core_rst /\ ru_ctl # "ABORT" /\ ~cut
  <2>1. ~Ru!RuReset
    BY DEF Ru!RuReset, Storing, Whole, Filing
  <2>2. ~core_rst
    BY <2>1 DEF Clock, Ru!RuEdge
  <2>3. ~cut'
    BY DEF Storing
  <2>4. ~Ru!Abort
    <3> SUFFICES ASSUME Ru!Abort
                 PROVE  FALSE
      OBVIOUS
    <3>1. state' = "RU_IDLE" /\ in_frame' = in_frame /\ ru_ctl = "ABORT"
      BY DEF Ru!Abort, Ru!Aborting, Ru!Goto, Ru!frameVars
    <3>2. in_frame
      BY <3>1 DEF Storing, Whole, Filing
    <3> QED BY <2>2, <2>3, <3>1, <3>2 DEF Clock, History
  <2> QED BY <2>1, <2>2, <2>3, <2>4, RuCases DEF Clock, History, Ru!Abort, Ru!RuEdge, Ru!Aborting
<1>2. state \in Apart => ~in_frame
  BY <1>1 DEF ReceiveIInv, FrameInv
<1>3. ASSUME Storing, rfd' = rfd, frame_bd'.rbd = frame_bd.rbd
      PROVE  Keeps
  <2>1. state # "RU_READY"
    BY <1>3, StoringHas DEF StoredInv
  <2>2. frame' = frame /\ cfg' = cfg
    BY <1>1, <2>1, FrameSteps
  <2> QED BY <1>1, <1>3, <2>2 DEF Keeps
<1>4. ~Ru!Idle /\ ~Ru!NoResource
  BY <1>2 DEF Ru!Idle, Ru!NoResource, Ru!Goto, Ru!frameVars, Apart, Resting, Storing, Whole, Filing
<1>5. CASE Ru!Arm
  <2>1. UNCHANGED <<rfd, frame_bd, in_frame>> /\ state \in Ru!ArmStates \cup {"RU_RD_NEXT_RBD"}
        /\ state' \in Ru!ArmStates \cup {"RU_NO_RESOURCE", "RU_POP", "RU_READY"}
    BY <1>5 DEF Ru!Arm, Ru!Goto, Ru!frameVars, Ru!ArmStates
  <2>2. in_frame
    BY <2>1 DEF Storing, Whole, Filing, Ru!ArmStates
  <2>3. Storing
    BY <1>1, <2>1, <2>2 DEF Storing, Ru!ArmStates
  <2> QED BY <1>1, <1>3, <1>5, <2>1, <2>3
<1>6. CASE Ru!Take
  <2>1. UNCHANGED <<rfd, frame_bd>>
        /\ state \in {"RU_POP", "RU_FLUSH", "RU_FULL_PEEK", "RU_CLOSE_FULL"}
    BY <1>6, TakeSteps DEF Ru!Take
  <2>2. Storing
    BY <1>1, <2>1 DEF Storing, HoldInv, Amid, Whole
  <2> QED BY <1>1, <1>3, <1>6, <2>1, <2>2
<1>7. CASE Ru!Dispose
  <2>1. ~Ru!Drop
    BY DEF Ru!Drop, Ru!Goto, Storing, Whole, Filing
  <2>2. CASE Ru!CloseRbd \/ Ru!LinkBuffers
    <3>1. rfd' = rfd /\ state \in {"RU_FIN_CLOSE_RBD"} \cup Filing
      BY <2>2 DEF Ru!CloseRbd, Ru!LinkBuffers, Filing
    <3>2. frame_bd'.rbd = frame_bd.rbd
      <4>1. DOMAIN frame_bd = {"rbd", "buf", "size", "el"}
        BY DEF HoldInv, Ru!NoBd
      <4>2. frame_bd' = frame_bd \/ frame_bd' = [frame_bd EXCEPT !.el = rdata]
        BY <2>2 DEF Ru!CloseRbd, Ru!LinkBuffers
      <4> QED BY <4>1, <4>2
    <3>3. Storing
      BY <1>1, <3>1 DEF Storing, Whole
    <3> QED BY <1>1, <1>3, <1>7, <2>2, <3>1, <3>2, <3>3
  <2>3. CASE Ru!CountErr
    <3>1. UNCHANGED <<rfd, frame_bd, in_frame>> /\ state = "RU_COUNT_ERR"
          /\ state' = IF count_then_file THEN "RU_FIN_WR_RFD_RBD" ELSE "RU_READY"
      BY <2>3 DEF Ru!CountErr, Ru!Goto, Ru!bufVars, Ru!frameVars
    <3>2. ~in_frame
      BY <1>2, <3>1 DEF Apart
    <3>3. count_then_file
      BY <3>1, <3>2 DEF Storing, Whole, Filing
    <3>4. Storing
      BY <1>1, <3>1, <3>3 DEF Storing, Whole
    <3> QED BY <1>1, <1>3, <1>7, <2>3, <3>1, <3>4
  <2> QED BY <1>7, <2>1, <2>2, <2>3 DEF Ru!Dispose
<1>8. ~Ru!WriteStatus /\ ~Ru!NextRfd
  <2>1. Ru!WriteStatus => in_frame' = in_frame /\ state = "RU_FIN_WR_STATUS" /\ state' = "RU_FIN_RD_LINK"
    BY DEF Ru!WriteStatus, Ru!Filed, Ru!Goto, Ru!frameVars
  <2>2. Ru!NextRfd => in_frame' = in_frame /\ state = "RU_FIN_RD_LINK"
                      /\ state' \in {"RU_NO_RESOURCE", "RU_IDLE", "RU_RD_NEXT_RBD"}
    BY DEF Ru!NextRfd, Ru!Goto, Ru!frameVars
  <2> QED BY <1>2, <2>1, <2>2 DEF Apart, Ru!FileStates, Storing, Whole, Filing
<1>9. CASE Ru!Wait
  <2>1. UNCHANGED <<rfd, frame_bd, state, in_frame, flush_to_end, count_then_file>>
    BY <1>9 DEF Ru!Wait, Ru!bufVars, Ru!frameVars, Ru!pathVars
  <2>2. Storing
    BY <1>1, <2>1 DEF Storing, Whole
  <2> QED BY <1>1, <1>3, <1>9, <2>1, <2>2
<1>10. ~Ru!RuReset /\ ~Ru!Abort
  BY <1>1 DEF Ru!RuReset, Ru!Abort, Ru!Aborting
<1>11. Ru!RuEdge
  BY DEF Clock
<1> QED BY <1>1, <1>4, <1>5, <1>6, <1>7, <1>8, <1>9, <1>10, <1>11, RuCases

\* What is written on such an edge.
LEMMA WrittenSteps ==
  ASSUME Keeps
  PROVE  \/ written' = written /\ ~(PortDone /\ access.we)
         \/ /\ PortDone /\ access' = access /\ access = Ru!Request /\ Ru!Request.we /\ ~bus_ack
            /\ DOMAIN written' = DOMAIN written \cup Places(Ru!Request)
            /\ \A p \in DOMAIN written' :
                 written'[p] = IF p \in Places(Ru!Request) THEN Value(Ru!Request, p)
                                                           ELSE written[p]
<1> USE DEF Keeps, StoredInv
<1>1. ~Begins /\ ~Forget /\ Live
  BY StoringHas DEF Begins, Forget
<1>2. CASE ~(PortDone /\ access.we)
  BY <1>1, <1>2 DEF Clock, History
<1>3. CASE PortDone /\ access.we
  <2>1. access = Ru!Request /\ access' = access /\ ~bus_ack
    BY <1>1, <1>3 DEF PortDone, OwnIInv, AccessInv, bus_ack
  <2>2. written' = WriteTo(written, access)
    BY <1>1, <1>3 DEF Clock, History
  <2> QED BY <1>3, <2>1, <2>2 DEF WriteTo
<1> QED BY <1>2, <1>3

LEMMA SameRight ==
  ASSUME Keeps, NEW p, NEW v
  PROVE  Right(p, v)' <=> Right(p, v)
BY DEF Keeps, Right, Nth, HdrMax, Start

\* What is asked for is right for the frame, and leaves the counts of other
\* buffers alone.
LEMMA RequestRight ==
  ASSUME OwnIInv, WholeInv, RightInv, Storing, Ru!Request.we
  PROVE  /\ \A p \in Places(Ru!Request) : Right(p, Value(Ru!Request, p))
         /\ \A b \in Rbds : <<b, 0>> \in Places(Ru!Request) =>
              b = bd.rbd /\ state \in {"RU_CLOSE_FULL", "RU_FIN_CLOSE_RBD"}
         /\ <<rfd, 6>> \in Places(Ru!Request) => state = "RU_FIN_WR_RFD_RBD"
<1> USE DEF OwnIInv
<1>1. /\ ~cut /\ rfd \in Rfds /\ bd.rbd \in Rbds
  BY StoringHas
<1>2. /\ "BUF" \notin Rfds /\ "SCB" \notin Rfds /\ "BUF" \notin Rbds /\ "SCB" \notin Rbds
      /\ Rfds \cap Rbds = {}
  BY ListsAssumption, AreasAssumption
<1>3. CASE Ru!wp_valid /\ Ru!Request = wp
  <2>1. \A p \in Places(wp) : Right(p, Value(wp, p))
    BY <1>3 DEF RightInv
  <2>2. wp.size # "NONE" /\ (wp.of = "BUF" \/ (wp.n \in Nat /\ wp.n >= 8))
        /\ (wp.size = "WORD" => wp.of = "BUF")
    BY <1>1, <1>3 DEF VerdictIInv, PostInv, WpInv
  <2>3. \A b \in Rbds : <<b, 0>> \notin Places(wp)
    BY <1>2, <2>2 DEF Places
  <2>4. <<rfd, 6>> \notin Places(wp)
    BY <1>1, <1>2, <2>2 DEF Places
  <2> QED BY <1>3, <2>1, <2>3, <2>4
<1>4. CASE /\ state \in {"RU_CLOSE_FULL", "RU_FIN_CLOSE_RBD"}
           /\ Places(Ru!Request) = {<<bd.rbd, 0>>}
  <2>1. \A v : Right(<<bd.rbd, 0>>, v)
    BY <1>1, <1>2 DEF Right
  <2>2. <<rfd, 6>> # <<bd.rbd, 0>>
    OBVIOUS
  <2> QED BY <1>1, <1>4, <2>1, <2>2
<1>5. ASSUME state \in {"RU_FIN_WR_RFD_RBD", "RU_FIN_WR_STATUS"},
             NEW n \in {0, 6}, Places(Ru!Request) = {<<rfd, n>>},
             n = 6 => state = "RU_FIN_WR_RFD_RBD"
      PROVE  /\ \A p \in Places(Ru!Request) : Right(p, Value(Ru!Request, p))
             /\ \A b \in Rbds : <<b, 0>> \notin Places(Ru!Request)
             /\ <<rfd, 6>> \in Places(Ru!Request) => state = "RU_FIN_WR_RFD_RBD"
  <2>1. \A v : Right(<<rfd, n>>, v)
    BY <1>1, <1>2 DEF Right
  <2>2. \A b \in Rbds : b # rfd
    BY <1>1, <1>2
  <2> QED BY <1>5, <2>1, <2>2
<1>6. CASE Places(Ru!Request) = {<<"SCB", Ru!WhichErr>>}
  <2>1. \A v : Right(<<"SCB", Ru!WhichErr>>, v)
    BY <1>2 DEF Right
  <2> QED BY <1>1, <1>2, <1>6, <2>1
<1> QED BY <1>1, <1>3, <1>4, <1>5, <1>6, Writes DEF VerdictIInv

LEMMA LandedKeeps ==
  ASSUME Keeps
  PROVE  LandedInv'
<1> SUFFICES ASSUME port' = "ACK", access'.we, NEW p \in Places(access')
             PROVE  p \in DOMAIN written' /\ written'[p] = Value(access', p)
  BY DEF LandedInv, Wrote, Places, Value
<1>1. PortDone /\ access' = access
  BY DEF Keeps, Clock, PortEdge, PortMoves, PortIdle, PortStart, OtherStart, PortDone, PortAck,
     OtherDone, PortWait, portVars
<1>2. /\ access = Ru!Request
      /\ DOMAIN written' = DOMAIN written \cup Places(Ru!Request)
      /\ \A q \in DOMAIN written' :
           written'[q] = IF q \in Places(Ru!Request) THEN Value(Ru!Request, q) ELSE written[q]
  BY <1>1, WrittenSteps
<1> QED BY <1>1, <1>2

\* What was there stays, and so do the counts that are not being written.
LEMMA WrittenStays ==
  ASSUME Keeps
  PROVE  /\ DOMAIN written \subseteq DOMAIN written'
         /\ Closed \subseteq Closed' /\ Closed' \subseteq Closed \cup {bd.rbd}
         /\ \A b \in Rbds : \/ b = bd.rbd /\ state \in {"RU_CLOSE_FULL", "RU_FIN_CLOSE_RBD"}
                            \/ \A v : Wrote(<<b, 0>>, v) => Wrote(<<b, 0>>, v)'
         /\ state # "RU_FIN_WR_RFD_RBD" => \A v : Wrote(<<rfd, 6>>, v) => Wrote(<<rfd, 6>>, v)'
         /\ bus_ack => written' = written
<1> USE DEF Keeps, StoredInv
<1>1. DOMAIN written \subseteq DOMAIN written'
  BY WrittenSteps
<1>2. Closed \subseteq Closed' /\ Closed' \subseteq Closed \cup {bd.rbd}
  BY <1>1, ClosedSteps, StoringHas DEF Closed, OwnIInv
<1>3. CASE written' = written
  BY <1>1, <1>2, <1>3 DEF Wrote
<1>4. CASE /\ Ru!Request.we /\ ~bus_ack
           /\ \A p \in DOMAIN written' :
                written'[p] = IF p \in Places(Ru!Request) THEN Value(Ru!Request, p) ELSE written[p]
  <2>1. /\ \A b \in Rbds : <<b, 0>> \in Places(Ru!Request) =>
             b = bd.rbd /\ state \in {"RU_CLOSE_FULL", "RU_FIN_CLOSE_RBD"}
        /\ <<rfd, 6>> \in Places(Ru!Request) => state = "RU_FIN_WR_RFD_RBD"
    BY <1>4, RequestRight
  <2>2. \A p : p \notin Places(Ru!Request) => \A v : Wrote(p, v) => Wrote(p, v)'
    BY <1>1, <1>4 DEF Wrote
  <2> QED BY <1>1, <1>2, <1>4, <2>1, <2>2
<1> QED BY <1>3, <1>4, WrittenSteps

\* What becomes of the byte that is taken, and of what has been gathered.
Quiet == (Ru!Drain \/ wp' = wp) /\ UNCHANGED <<acc, frame_len>>
Poured ==
  /\ state = "RU_FLUSH" /\ ~Ru!wp_valid /\ Ru!AccDirty /\ wp' = Ru!Post(acc) /\ acc' = Ru!NoAcc
  /\ UNCHANGED <<frame_len, bd, buf_off>>
HeaderIn ==
  /\ Ru!HdrPhase /\ ~Ru!wp_valid
  /\ wp' = Ru!PostHeader(frame_len, Nth(frame_len)) /\ frame_len' = frame_len + 1
  /\ UNCHANGED <<acc, bd, buf_off>>
ByteIn ==
  /\ state = "RU_POP" /\ ~Ru!HdrPhase /\ rx_data.byte = Nth(frame_len)
  /\ frame_len' = frame_len + 1 /\ buf_off' = buf_off + 1 /\ bd' = bd
  /\ \/ Ru!Drain /\ acc' = Ru!Gathered
     \/ ~Ru!wp_valid /\ wp' = Ru!Post(Ru!Gathered) /\ acc' = Ru!NoAcc
OntoNext ==
  /\ state = "RU_RD_NEXT_RBD" /\ bus_ack /\ state' = "RU_RD_BUF_LO"
  /\ bd'.rbd = Bd[bd.rbd].next /\ buf_off' = 0

LEMMA PopKinds ==
  ASSUME Keeps, Ru!Take, Ru!PopByte
  PROVE  HeaderIn \/ ByteIn
<1> USE DEF Keeps, OwnIInv, StoredInv
<1>1. state = "RU_POP" /\ ~rx_empty /\ ~rx_data.end /\ ~Ru!PopStall /\ in_frame /\ ~cut
      /\ bd' = bd /\ in_frame'
  BY StoringHas DEF Ru!Take, Ru!PopByte, Ru!PopNow, VerdictIInv, HoldInv, Amid
<1>2. /\ frame \in Frames /\ Upcoming.of = frame /\ Upcoming.n = frame_len
      /\ frame_len \in Nat /\ Fr[frame].len \in Nat /\ frame_len <= Fr[frame].len
      /\ Fr[frame].len < 65536
  BY <1>1, InHand DEF Filling
<1>3. /\ rx_data.byte = Upcoming /\ rx_data.end = (Upcoming.n = Fr[Upcoming.of].len)
      /\ Upcoming \in [of : Frames, n : Nat]
  BY <1>1, WordSeen, UpcomingTyped DEF VerdictIInv, ReceiveIInv
<1>4. rx_data.byte = Nth(frame_len) /\ frame_len < Fr[frame].len
  <2>1. Upcoming = [of |-> frame, n |-> frame_len]
    BY <1>2, <1>3
  <2>2. Upcoming.n # Fr[Upcoming.of].len
    BY <1>1, <1>3
  <2>3. frame_len # Fr[frame].len
    BY <1>2, <2>2
  <2> QED BY <1>2, <1>3, <2>1, <2>3 DEF Nth
<1>5. frame_len' = frame_len + 1
  <2>1. frame_len' = (frame_len + 1) % 65536
    BY DEF Ru!PopByte
  <2> QED BY <1>2, <1>4, <2>1, SMT
<1>6. ~Ru!RejectByte
  BY <1>1 DEF Ru!RejectByte, Ru!Goto, Storing, Whole, Filing
<1>7. CASE Ru!HeaderByte
  BY <1>1, <1>4, <1>5, <1>7 DEF Ru!HeaderByte, Ru!PopStall, HeaderIn
<1>8. CASE Ru!BufferByte
  BY <1>1, <1>4, <1>5, <1>8 DEF Ru!BufferByte, Ru!PopStall, ByteIn
<1> QED BY <1>6, <1>7, <1>8 DEF Ru!PopByte

LEMMA StepKinds ==
  ASSUME Keeps
  PROVE  \/ Quiet /\ ((bd'.rbd = bd.rbd /\ buf_off' = buf_off) \/ OntoNext)
         \/ Poured \/ HeaderIn \/ ByteIn
<1> USE DEF Keeps
<1>1. CASE Ru!Take
  <2>1. CASE Ru!PopByte
    BY <1>1, <2>1, PopKinds
  <2>2. CASE Ru!Flush
    BY <1>1, <2>2 DEF Ru!Take, Ru!Flush, Ru!frameVars, Poured, Quiet
  <2>3. CASE Ru!PopEnd \/ Ru!FullPeek \/ Ru!CloseFull
    BY <1>1, <2>3 DEF Ru!Take, Ru!PopEnd, Ru!FullPeek, Ru!CloseFull, Quiet
  <2> QED BY <1>1, <2>1, <2>2, <2>3 DEF Ru!Take
<1>2. CASE Ru!Arm
  <2>1. Quiet /\ bus_ack
    BY <1>2 DEF Ru!Arm, Quiet, Ru!frameVars
  <2>2. CASE state = "RU_RD_NEXT_RBD"
    BY <1>2, <2>1, <2>2, OpenSteps DEF OwnIInv, VerdictIInv, OntoNext
  <2>3. CASE state \in Opening
    <3>1. in_frame /\ ~cut
      BY <2>3 DEF Storing, Whole, Filing, Opening
    <3>2. buf_off = 0
      BY <2>3, <3>1 DEF OwnIInv, VerdictIInv, InHandInv, Filling, Opening
    <3>3. bd'.rbd = bd.rbd /\ (buf_off' = buf_off \/ buf_off' = 0)
      BY <1>2, <2>3, OpenSteps DEF OwnIInv, VerdictIInv, Opening
    <3> QED BY <2>1, <3>2, <3>3
  <2>4. state # "RU_RD_RFD_RBD"
    BY StoringHas DEF StoredInv
  <2>5. state \in {"RU_RD_RFD_RBD", "RU_RD_NEXT_RBD"} \cup Opening
    BY <1>2, OpenSteps DEF OwnIInv, VerdictIInv
  <2> QED BY <2>2, <2>3, <2>4, <2>5
<1>3. CASE Ru!Wait
  BY <1>3 DEF Ru!Wait, Quiet, Ru!frameVars, Ru!bufVars
<1>4. CASE Ru!Dispose /\ (Ru!CountErr \/ Ru!LinkBuffers)
  BY <1>4 DEF Ru!Dispose, Ru!CountErr, Ru!LinkBuffers, Quiet, Ru!frameVars, Ru!bufVars
<1>5. CASE Ru!Dispose /\ Ru!CloseRbd
  <2>1. Quiet /\ state = "RU_FIN_CLOSE_RBD"
    BY <1>5 DEF Ru!Dispose, Ru!CloseRbd, Quiet, Ru!frameVars
  <2>2. ~in_frame /\ UNCHANGED in_frame
    BY <1>5, <2>1 DEF Ru!CloseRbd, Ru!frameVars, OwnIInv, VerdictIInv, HoldInv, Ru!FileStates
  <2>3. Ru!Kept
    <3>1. ~Ru!Kept => state' = "RU_COUNT_ERR" /\ ~count_then_file'
      BY <1>5 DEF Ru!CloseRbd, Ru!Goto
    <3> QED BY <2>2, <3>1 DEF Storing, Whole, Filing
  <2> QED BY <1>5, <2>1, <2>3 DEF Ru!CloseRbd
<1>6. ~Ru!Ready
  BY StoringHas DEF StoredInv, Ru!Ready
<1> QED BY <1>1, <1>2, <1>3, <1>4, <1>5, <1>6, StoringSteps

-----------------------------------------------------------------------------
\* All that is on its way to memory is the right byte for its place.

LEMMA Places4 ==
  ASSUME OwnIInv, WholeInv, Storing, state \in {"RU_POP", "RU_FLUSH"}
  PROVE  /\ bd.buf = Bd[bd.rbd].buf /\ bd.buf \in Nat /\ Ru!ByteAddr = bd.buf + buf_off
         /\ Ru!Lane \in 0..3 /\ Ru!WordAddr \in Int /\ Ru!WordAddr + Ru!Lane = Ru!ByteAddr
         /\ Ru!AccDirty => DOMAIN acc.lanes \subseteq 0..3 /\ acc.at = Ru!WordAddr
<1>1. bd.buf = Bd[bd.rbd].buf /\ bd.buf \in Nat
  BY DEF OwnIInv, BufInv, Ru!ArmStates
<1>2. buf_off \in Nat /\ ~cut
  BY StoringHas
<1>3. Ru!ByteAddr = bd.buf + buf_off /\ Ru!ByteAddr \in Nat
  BY <1>1, <1>2 DEF Ru!ByteAddr
<1>4. Ru!Lane \in 0..3
  BY <1>3, Lanes DEF Ru!Lane
<1>5. Ru!WordAddr \in Int /\ Ru!WordAddr + Ru!Lane = Ru!ByteAddr
  BY <1>3, <1>4 DEF Ru!WordAddr
<1>6. Ru!AccDirty => DOMAIN acc.lanes \subseteq 0..3 /\ acc.at = Ru!WordAddr
  BY <1>2 DEF OwnIInv, AccInv
<1> QED BY <1>1, <1>3, <1>4, <1>5, <1>6

\* The places of a word, and of a header byte.
LEMMA WordPlaces ==
  ASSUME NEW w, w.at \in Int, DOMAIN w.lanes \subseteq 0..3
  PROVE  /\ Places(Ru!Post(w)) = {<<"BUF", w.at + l>> : l \in DOMAIN w.lanes}
         /\ \A l \in DOMAIN w.lanes : Value(Ru!Post(w), <<"BUF", w.at + l>>) = w.lanes[l]
<1>1. /\ Ru!Post(w).size = "WORD" /\ Ru!Post(w).of = "BUF"
      /\ Ru!Post(w).n = w.at /\ Ru!Post(w).data = w.lanes /\ Ru!Post(w).we
  BY DEF Ru!Post, Ru!Access
<1>2. ASSUME NEW l \in DOMAIN w.lanes
      PROVE  Value(Ru!Post(w), <<"BUF", w.at + l>>) = w.lanes[l]
  <2>1. w.at + l - w.at = l
    OBVIOUS
  <2>2. <<"BUF", w.at + l>>[2] = w.at + l
    OBVIOUS
  <2> QED BY <1>1, <2>1, <2>2 DEF Value
<1> QED BY <1>1, <1>2 DEF Places

LEMMA HeaderPlaces ==
  ASSUME NEW n \in Nat, NEW byte
  PROVE  /\ Ru!PostHeader(n, byte).we
         /\ Places(Ru!PostHeader(n, byte)) = {<<rfd, 8 + n>>}
         /\ \A p : Value(Ru!PostHeader(n, byte), p) = byte
BY DEF Ru!PostHeader, Ru!Access, Places, Value

\* The byte that is taken, where it goes.
LEMMA ByteRight ==
  ASSUME Keeps, ByteIn
  PROVE  /\ Right(<<"BUF", Ru!ByteAddr>>, rx_data.byte)
         /\ frame_len \in Nat /\ frame_len >= HdrMax
<1> USE DEF Keeps, ByteIn, StoredInv, OwnIInv
<1>1. /\ bd.rbd \in Rbds /\ bd.buf = Bd[bd.rbd].buf /\ bd.buf \in Nat
      /\ Ru!ByteAddr = bd.buf + buf_off
  BY StoringHas, Places4
<1>2. /\ in_frame /\ ~cut
  BY StoringHas DEF VerdictIInv, HoldInv, Amid
<1>3. /\ frame_len \in Nat /\ buf_off \in Nat /\ buf_off < bd.size /\ bd.size = Bd[bd.rbd].size
      /\ Taken(frame_len) + Room[bd.rbd] = Room[frame_bd.rbd] + buf_off
      /\ Room[bd.rbd] \in Nat /\ Room[frame_bd.rbd] \in Nat
  BY <1>2, InHand DEF Filling, Held
<1>4. frame_len >= HdrMax /\ Taken(frame_len) = frame_len - HdrMax /\ HdrMax \in {0, 14}
  BY <1>3 DEF Ru!HdrPhase, Taken, HdrMax
<1>5. Start(bd.rbd) \in Int /\ HdrMax + Start(bd.rbd) + buf_off = frame_len
  BY <1>3, <1>4 DEF Start
<1>6. \A b \in Rbds : Ru!ByteAddr \in Extent(b) => b = bd.rbd
  <2>1. \A b \in Rbds : /\ Bd[b].buf \in Nat /\ Bd[b].size \in Nat
                        /\ \/ b = bd.rbd
                           \/ Bd[b].buf + Bd[b].size <= Bd[bd.rbd].buf
                           \/ Bd[bd.rbd].buf + Bd[bd.rbd].size <= Bd[b].buf
    BY <1>1, AreasAssumption, ListsAssumption
  <2> QED BY <1>1, <1>3, <2>1 DEF Extent
<1>7. HdrMax + Start(bd.rbd) + (Ru!ByteAddr - Bd[bd.rbd].buf) = frame_len
  BY <1>1, <1>3, <1>4, <1>5
<1>8. "BUF" \notin Rfds
  BY ListsAssumption
<1> QED BY <1>3, <1>4, <1>6, <1>7, <1>8 DEF Right

LEMMA GatheredRight ==
  ASSUME Keeps, ByteIn
  PROVE  /\ Ru!Gathered.at = Ru!WordAddr /\ Ru!Gathered.at \in Int
         /\ DOMAIN Ru!Gathered.lanes = DOMAIN acc.lanes \cup {Ru!Lane}
         /\ DOMAIN Ru!Gathered.lanes \subseteq 0..3
         /\ \A l \in DOMAIN Ru!Gathered.lanes :
              Right(<<"BUF", Ru!Gathered.at + l>>, Ru!Gathered.lanes[l])
<1> DEFINE g == Ru!Gathered
<1>1. /\ Ru!Lane \in 0..3 /\ Ru!WordAddr \in Int /\ Ru!WordAddr + Ru!Lane = Ru!ByteAddr
      /\ Ru!AccDirty => DOMAIN acc.lanes \subseteq 0..3 /\ acc.at = Ru!WordAddr
  BY Places4 DEF Keeps, ByteIn, StoredInv
<1>2. /\ g.at = IF Ru!AccDirty THEN acc.at ELSE Ru!WordAddr
      /\ DOMAIN g.lanes = DOMAIN acc.lanes \cup {Ru!Lane}
      /\ \A l \in DOMAIN acc.lanes \cup {Ru!Lane} :
           g.lanes[l] = IF l = Ru!Lane THEN rx_data.byte ELSE acc.lanes[l]
  BY DEF Ru!Gathered
<1> HIDE DEF g
<1>3. g.at = Ru!WordAddr /\ DOMAIN g.lanes \subseteq 0..3
  BY <1>1, <1>2 DEF Ru!AccDirty
<1>4. ASSUME NEW l \in DOMAIN g.lanes
      PROVE  Right(<<"BUF", g.at + l>>, g.lanes[l])
  <2>1. CASE l = Ru!Lane
    BY <1>1, <1>2, <1>3, <2>1, ByteRight
  <2>2. CASE l # Ru!Lane
    <3>1. l \in DOMAIN acc.lanes /\ g.lanes[l] = acc.lanes[l]
      BY <1>2, <2>2
    <3>2. acc.at = g.at
      BY <1>1, <1>3, <3>1 DEF Ru!AccDirty
    <3>3. Right(<<"BUF", acc.at + l>>, acc.lanes[l])
      BY <3>1 DEF Keeps, StoredInv, RightInv
    <3> QED BY <3>1, <3>2, <3>3
  <2> QED BY <2>1, <2>2
<1> QED BY <1>1, <1>2, <1>3, <1>4 DEF g

LEMMA RightKeeps ==
  ASSUME Keeps
  PROVE  RightInv'
<1> DEFINE Fit(a) == \A p \in Places(a) : Right(p, Value(a, p))
           Held4(w) == \A l \in DOMAIN w.lanes : Right(<<"BUF", w.at + l>>, w.lanes[l])
<1> USE DEF Keeps, StoredInv
<1>1. \A p \in DOMAIN written' : Right(p, written'[p])
  <2>1. \A p \in DOMAIN written : Right(p, written[p])
    BY DEF RightInv
  <2>2. CASE written' = written
    BY <2>1, <2>2
  <2>3. CASE /\ Ru!Request.we /\ DOMAIN written' = DOMAIN written \cup Places(Ru!Request)
             /\ \A p \in DOMAIN written' :
                  written'[p] = IF p \in Places(Ru!Request) THEN Value(Ru!Request, p)
                                                            ELSE written[p]
    <3>1. \A p \in Places(Ru!Request) : Right(p, Value(Ru!Request, p))
      BY <2>3, RequestRight
    <3> QED BY <2>1, <2>3, <3>1
  <2> QED BY <2>2, <2>3, WrittenSteps
<1>2. (Ru!wp_valid' => Fit(wp')) /\ Held4(acc')
  <2>1. (Ru!wp_valid => Fit(wp)) /\ Held4(acc)
    BY DEF RightInv
  <2>2. Held4(Ru!NoAcc)
    BY DEF Ru!NoAcc
  <2>3. ASSUME NEW w, w.at \in Int, DOMAIN w.lanes \subseteq 0..3, Held4(w)
        PROVE  Fit(Ru!Post(w))
    <3> SUFFICES ASSUME NEW p \in Places(Ru!Post(w))
                 PROVE  Right(p, Value(Ru!Post(w), p))
      OBVIOUS
    <3>1. PICK l \in DOMAIN w.lanes : p = <<"BUF", w.at + l>>
      BY <2>3, WordPlaces
    <3>2. Value(Ru!Post(w), p) = w.lanes[l]
      BY <2>3, <3>1, WordPlaces
    <3> QED BY <2>3, <3>1, <3>2
  <2>4. CASE Quiet
    <3>1. Ru!wp_valid' => wp' = wp /\ Ru!wp_valid
      BY <2>4 DEF Quiet, Ru!Drain, Ru!wp_valid, Ru!NoRequest, Ru!Access
    <3> QED BY <2>1, <2>4, <3>1 DEF Quiet
  <2>5. CASE Poured
    <3>1. acc.at \in Int /\ DOMAIN acc.lanes \subseteq 0..3
      BY <2>5, Places4 DEF Poured
    <3> QED BY <2>1, <2>2, <2>3, <2>5, <3>1 DEF Poured
  <2>6. CASE HeaderIn
    <3>1. frame_len \in Nat /\ "BUF" \notin Rfds /\ rfd \in Rfds
      BY StoringHas, ListsAssumption DEF OwnIInv, VerdictIInv
    <3>2. Right(<<rfd, 8 + frame_len>>, Nth(frame_len))
      BY <3>1 DEF Right
    <3>3. Fit(Ru!PostHeader(frame_len, Nth(frame_len)))
      BY <3>1, <3>2, HeaderPlaces
    <3> QED BY <2>1, <2>6, <3>3 DEF HeaderIn
  <2>7. CASE ByteIn
    <3>1. /\ Ru!Gathered.at \in Int /\ DOMAIN Ru!Gathered.lanes \subseteq 0..3 /\ Held4(Ru!Gathered)
      BY <2>7, GatheredRight
    <3>2. Fit(Ru!Post(Ru!Gathered))
      BY <2>3, <3>1
    <3>3. CASE Ru!Drain /\ acc' = Ru!Gathered
      <4>1. Ru!wp_valid' => wp' = wp /\ Ru!wp_valid
        BY <3>3 DEF Ru!Drain, Ru!wp_valid, Ru!NoRequest, Ru!Access
      <4> QED BY <2>1, <3>1, <3>3, <4>1
    <3> QED BY <2>2, <2>7, <3>2, <3>3 DEF ByteIn
  <2> QED BY <2>4, <2>5, <2>6, <2>7, StepKinds
<1>3. \A p, v : Right(p, v)' <=> Right(p, v)
  BY SameRight
<1>4. \A p \in DOMAIN written' : Right(p, written[p])'
  BY <1>1, <1>3 DEF Right, Nth, HdrMax, Start
<1>5. Ru!wp_valid' => \A p \in Places(wp)' : Right(p, Value(wp, p))'
  BY <1>2, <1>3 DEF Places, Value, Right, Nth, HdrMax, Start
<1>6. \A l \in DOMAIN acc'.lanes : Right(<<"BUF", acc.at + l>>, acc.lanes[l])'
  BY <1>2, <1>3 DEF Right, Nth, HdrMax, Start
<1> QED BY <1>4, <1>5, <1>6 DEF RightInv

-----------------------------------------------------------------------------
\* No byte that was taken is lost.

LEMMA DrainLands ==
  ASSUME Keeps, Ru!wp_valid, Ru!Drain
  PROVE  Places(wp) \subseteq DOMAIN written \/ (wp' = wp /\ Ru!wp_valid')
<1> USE DEF Keeps, StoredInv
<1>1. CASE bus_ack
  <2>1. access = wp
    BY <1>1, StoringHas DEF OwnIInv, AccessInv, Ru!Request, bus_ack
  <2> QED BY <1>1, <2>1 DEF LandedInv, Wrote, Ru!wp_valid, bus_ack
<1>2. CASE ~bus_ack
  BY <1>2 DEF Ru!Drain, Ru!wp_valid
<1> QED BY <1>1, <1>2

LEMMA CoveredGrows ==
  ASSUME Keeps
  PROVE  /\ Covered \subseteq Covered'
         /\ HeaderIn => <<rfd, 8 + frame_len>> \in Covered' /\ frame_len \in Nat
         /\ ByteIn => <<"BUF", bd.buf + buf_off>> \in Covered'
<1> DEFINE Posted == IF Ru!wp_valid THEN Places(wp) ELSE {}
           Lanes4(w) == {<<"BUF", w.at + l>> : l \in DOMAIN w.lanes}
<1>1. DOMAIN written \subseteq DOMAIN written'
  BY WrittenStays
<1>2. /\ Covered = DOMAIN written \cup Posted \cup Lanes4(acc)
      /\ Covered' = DOMAIN written' \cup Posted' \cup Lanes4(acc')
  BY DEF Covered
<1>3. Ru!Drain \/ wp' = wp => Posted \subseteq DOMAIN written \cup Posted'
  BY DrainLands DEF Ru!wp_valid, Places
<1>4. ~Ru!wp_valid => Posted = {}
  OBVIOUS
<1>5. ASSUME NEW w, w.at \in Int, DOMAIN w.lanes \subseteq 0..3, wp' = Ru!Post(w)
      PROVE  Posted' = Lanes4(w)
  <2>1. Ru!wp_valid'
    BY <1>5 DEF Ru!wp_valid, Ru!Post, Ru!Access
  <2>2. Places(Ru!Post(w)) = Lanes4(w)
    BY <1>5, WordPlaces
  <2>3. Posted' = Places(wp')
    BY <2>1 DEF Places
  <2> QED BY <1>5, <2>2, <2>3
<1>6. CASE Quiet
  <2>1. Lanes4(acc') = Lanes4(acc)
    BY <1>6 DEF Quiet
  <2>2. ~HeaderIn /\ ~ByteIn
    <3>1. frame_len \in Nat
      BY DEF Keeps, OwnIInv, VerdictIInv
    <3> QED BY <1>6, <3>1 DEF Quiet, HeaderIn, ByteIn
  <2> HIDE DEF Posted, Lanes4
  <2> QED BY <1>1, <1>2, <1>3, <1>6, <2>1, <2>2 DEF Quiet
<1>7. CASE Poured
  <2>1. acc.at \in Int /\ DOMAIN acc.lanes \subseteq 0..3
    BY <1>7, Places4 DEF Poured, Keeps, StoredInv
  <2>2. Posted' = Lanes4(acc)
    BY <1>5, <1>7, <2>1 DEF Poured
  <2>3. ~HeaderIn /\ ~ByteIn
    <3>1. frame_len \in Nat
      BY DEF Keeps, OwnIInv, VerdictIInv
    <3> QED BY <1>7, <3>1 DEF Poured, HeaderIn, ByteIn
  <2>4. Posted = {}
    BY <1>7 DEF Poured
  <2> HIDE DEF Posted, Lanes4
  <2> QED BY <1>1, <1>2, <2>2, <2>3, <2>4
<1>8. CASE HeaderIn
  <2>1. frame_len \in Nat
    BY DEF Keeps, OwnIInv, VerdictIInv
  <2>2. Posted' = {<<rfd, 8 + frame_len>>}
    <3>1. Ru!wp_valid' /\ Places(wp') = {<<rfd, 8 + frame_len>>}
      BY <1>8, <2>1, HeaderPlaces DEF HeaderIn, Ru!wp_valid
    <3>2. Posted' = Places(wp')
      BY <3>1 DEF Places
    <3> QED BY <3>1, <3>2
  <2>3. Posted = {} /\ Lanes4(acc') = Lanes4(acc) /\ ~ByteIn
    BY <1>8 DEF HeaderIn, ByteIn
  <2> HIDE DEF Posted, Lanes4
  <2> QED BY <1>1, <1>2, <2>1, <2>2, <2>3
<1>9. CASE ByteIn
  <2>1. /\ Ru!Gathered.at = Ru!WordAddr /\ Ru!Gathered.at \in Int
        /\ DOMAIN Ru!Gathered.lanes = DOMAIN acc.lanes \cup {Ru!Lane}
        /\ DOMAIN Ru!Gathered.lanes \subseteq 0..3
    BY <1>9, GatheredRight
  <2>2. /\ Ru!WordAddr + Ru!Lane = bd.buf + buf_off
        /\ Ru!AccDirty => acc.at = Ru!WordAddr
    BY <1>9, Places4 DEF ByteIn, Keeps, StoredInv
  <2>3. Lanes4(acc) \subseteq Lanes4(Ru!Gathered) /\ <<"BUF", bd.buf + buf_off>> \in Lanes4(Ru!Gathered)
    <3>1. ASSUME NEW l \in DOMAIN acc.lanes
          PROVE  <<"BUF", acc.at + l>> \in Lanes4(Ru!Gathered)
      BY <2>1, <2>2 DEF Ru!AccDirty
    <3>2. <<"BUF", Ru!Gathered.at + Ru!Lane>> \in Lanes4(Ru!Gathered)
      BY <2>1
    <3> QED BY <2>1, <2>2, <3>1, <3>2
  <2>4. CASE Ru!Drain /\ acc' = Ru!Gathered
    <3>1. Lanes4(acc') = Lanes4(Ru!Gathered)
      BY <2>4
    <3> HIDE DEF Posted, Lanes4
    <3> QED BY <1>1, <1>2, <1>3, <1>9, <2>3, <2>4, <3>1 DEF HeaderIn, ByteIn
  <2>5. CASE ~Ru!wp_valid /\ wp' = Ru!Post(Ru!Gathered)
    <3>1. Posted' = Lanes4(Ru!Gathered) /\ Posted = {}
      BY <1>5, <2>1, <2>5
    <3> HIDE DEF Posted, Lanes4
    <3> QED BY <1>1, <1>2, <1>9, <2>3, <3>1 DEF HeaderIn, ByteIn
  <2> QED BY <1>9, <2>4, <2>5 DEF ByteIn
<1> QED BY <1>6, <1>7, <1>8, <1>9, StepKinds

LEMMA CoverKeeps ==
  ASSUME Keeps
  PROVE  CoverInv'
<1> USE DEF Keeps, StoredInv
<1>1. HdrMax' = HdrMax /\ HdrMax \in Nat /\ frame_len \in Nat
  BY DEF HdrMax, OwnIInv, VerdictIInv
<1>2. /\ \A i \in 0..(HdrMax - 1) : i < frame_len => <<rfd, 8 + i>> \in Covered
      /\ \A k \in 0..(buf_off - 1) : <<"BUF", Bd[bd.rbd].buf + k>> \in Covered
      /\ \A b \in Closed \ {bd.rbd} : \A k \in 0..(Bd[b].size - 1) :
           <<"BUF", Bd[b].buf + k>> \in Covered
  BY DEF CoverInv
<1>3. /\ Covered \subseteq Covered'
      /\ HeaderIn => <<rfd, 8 + frame_len>> \in Covered'
      /\ ByteIn => <<"BUF", bd.buf + buf_off>> \in Covered'
  BY CoveredGrows
<1>4. \A i \in 0..(HdrMax - 1) : i < frame_len' => <<rfd, 8 + i>> \in Covered'
  <2>1. CASE frame_len' = frame_len
    BY <1>2, <1>3, <2>1
  <2>2. CASE HeaderIn
    BY <1>1, <1>2, <1>3, <2>2 DEF HeaderIn
  <2>3. CASE ByteIn
    BY <1>1, <1>2, <1>3, <2>3, ByteRight DEF ByteIn
  <2> QED BY <2>1, <2>2, <2>3, StepKinds DEF Quiet, Poured
<1>5. \A k \in 0..(buf_off' - 1) : <<"BUF", Bd[bd'.rbd].buf + k>> \in Covered'
  <2>1. buf_off \in Nat
    BY StoringHas
  <2>2. CASE bd'.rbd = bd.rbd /\ buf_off' = buf_off
    BY <1>2, <1>3, <2>2
  <2>3. CASE ByteIn
    <3>1. bd.buf = Bd[bd.rbd].buf
      BY <2>3, Places4 DEF ByteIn
    <3>2. buf_off' = buf_off + 1 /\ bd' = bd
      BY <2>3 DEF ByteIn
    <3> QED BY <1>2, <1>3, <2>1, <2>3, <3>1, <3>2
  <2>4. CASE OntoNext
    BY <2>4 DEF OntoNext
  <2> QED BY <2>2, <2>3, <2>4, StepKinds DEF Poured, HeaderIn
<1>6. ASSUME NEW b \in Closed' \ {bd'.rbd}, NEW k \in 0..(Bd[b].size - 1)
      PROVE  <<"BUF", Bd[b].buf + k>> \in Covered'
  <2>1. CASE b # bd.rbd
    BY <1>2, <1>3, <2>1, WrittenStays
  <2>2. CASE b = bd.rbd
    <3>1. OntoNext
      BY <2>2, StepKinds DEF Poured, HeaderIn, ByteIn
    <3>2. state = "RU_RD_NEXT_RBD" /\ ~cut
      BY <3>1, StoringHas DEF OntoNext
    <3>3. in_frame
      BY <3>2 DEF Storing, Whole, Filing
    <3>4. buf_off = bd.size
      BY <3>2, <3>3 DEF OwnIInv, VerdictIInv, InHandInv, Filling
    <3>5. bd.size = Bd[bd.rbd].size
      BY <3>2 DEF OwnIInv, VerdictIInv, HoldInv, Held, Ru!ArmStates
    <3> QED BY <1>2, <1>3, <2>2, <3>4, <3>5
  <2> QED BY <2>1, <2>2
<1> QED BY <1>1, <1>4, <1>5, <1>6 DEF CoverInv

-----------------------------------------------------------------------------
\* The buffers that are closed, and the frame as it is filed.

\* What has been acknowledged of the unit's own accesses.
LEMMA Acknowledged ==
  ASSUME OwnIInv, LandedInv, WholeInv, Storing, ~core_rst, bus_ack
  PROVE  /\ state = "RU_CLOSE_FULL" => Wrote(<<bd.rbd, 0>>, [count |-> bd.size, eof |-> FALSE])
         /\ state = "RU_FIN_CLOSE_RBD" => Wrote(<<bd.rbd, 0>>, [count |-> buf_off, eof |-> TRUE])
         /\ state = "RU_FIN_WR_RFD_RBD" => Wrote(<<rfd, 6>>, frame_bd.rbd)
         /\ state = "RU_FIN_WR_STATUS" => Wrote(<<rfd, 0>>, err)
<1> DEFINE S == {"RU_CLOSE_FULL", "RU_FIN_CLOSE_RBD", "RU_FIN_WR_RFD_RBD", "RU_FIN_WR_STATUS"}
<1>1. ASSUME state \in S
      PROVE  access = Ru!StateRequest /\ port = "ACK"
  <2>1. ~Ru!wp_valid
    BY <1>1 DEF OwnIInv, VerdictIInv, PostInv
  <2> QED BY <2>1, StoringHas DEF OwnIInv, AccessInv, Ru!Request, bus_ack
<1>2. ASSUME state \in S, NEW at, NEW n, NEW v, Ru!StateRequest = Ru!Write(at, n, v)
      PROVE  Wrote(<<at, n>>, v)
  <2>1. access.we /\ Places(access) = {<<at, n>>} /\ Value(access, <<at, n>>) = v
    BY <1>1, <1>2 DEF Ru!Write, Ru!Access, Places, Value
  <2> QED BY <1>1, <1>2, <2>1 DEF LandedInv
<1>3. CASE state = "RU_CLOSE_FULL"
  <2>1. Ru!StateRequest = Ru!Write(bd.rbd, 0, [count |-> bd.size, eof |-> FALSE])
    BY <1>3 DEF Ru!StateRequest
  <2> QED BY <1>2, <1>3, <2>1
<1>4. CASE state = "RU_FIN_CLOSE_RBD"
  <2>1. Ru!StateRequest = Ru!Write(bd.rbd, 0, [count |-> buf_off, eof |-> TRUE])
    BY <1>4 DEF Ru!StateRequest
  <2> QED BY <1>2, <1>4, <2>1
<1>5. CASE state = "RU_FIN_WR_RFD_RBD"
  <2>1. Ru!StateRequest = Ru!Write(rfd, 6, frame_bd.rbd)
    BY <1>5 DEF Ru!StateRequest
  <2> QED BY <1>2, <1>5, <2>1
<1>6. CASE state = "RU_FIN_WR_STATUS"
  <2>1. Ru!StateRequest = Ru!Write(rfd, 0, err)
    BY <1>6 DEF Ru!StateRequest
  <2> QED BY <1>2, <1>6, <2>1
<1> QED BY <1>3, <1>4, <1>5, <1>6

LEMMA ChainedKeeps ==
  ASSUME Keeps
  PROVE  ChainedInv'
<1> USE DEF Keeps, StoredInv
<1>1. /\ frame_bd.rbd \in Closed \cup {bd.rbd}
      /\ \A b \in Closed \ {bd.rbd} : /\ ~Bd[b].el /\ Bd[b].next \in Closed \cup {bd.rbd}
                                     /\ Wrote(<<b, 0>>, Full(b))
      /\ state = "RU_RD_NEXT_RBD" => Wrote(<<bd.rbd, 0>>, Full(bd.rbd))
  BY DEF ChainedInv
<1>2. /\ Closed \subseteq Closed' /\ Closed' \subseteq Closed \cup {bd.rbd}
      /\ \A b \in Rbds : \/ b = bd.rbd /\ state \in {"RU_CLOSE_FULL", "RU_FIN_CLOSE_RBD"}
                         \/ \A v : Wrote(<<b, 0>>, v) => Wrote(<<b, 0>>, v)'
      /\ bus_ack => written' = written
  BY WrittenStays
<1>3. Closed \subseteq Rbds /\ bd.rbd \in Rbds
  BY StoringHas DEF Closed
<1>4. CASE bd'.rbd = bd.rbd
  <2>1. state' = "RU_RD_NEXT_RBD" => Wrote(<<bd.rbd, 0>>, Full(bd.rbd))'
    <3>1. CASE state = "RU_RD_NEXT_RBD"
      BY <1>1, <1>2, <1>3, <1>4, <3>1 DEF Full, Wrote
    <3>2. CASE state' = "RU_RD_NEXT_RBD" /\ state # "RU_RD_NEXT_RBD"
      <4>1. Ru!Take
        BY <3>2, StoringSteps, StoringHas
           DEF Ru!Arm, Ru!Wait, Ru!CloseRbd, Ru!CountErr, Ru!LinkBuffers, Ru!Goto, Ru!Ready
      <4>2. Ru!CloseFull
        BY <3>2, <4>1 DEF Ru!Take, Ru!PopEnd, Ru!PopByte, Ru!PopNow, Ru!RejectByte, Ru!HeaderByte,
           Ru!BufferByte, Ru!Flush, Ru!FullPeek, Ru!Goto
      <4>3. state = "RU_CLOSE_FULL" /\ bus_ack
        BY <4>2 DEF Ru!CloseFull
      <4>4. bd.size = Bd[bd.rbd].size
        BY <4>3 DEF OwnIInv, VerdictIInv, HoldInv, Held, Ru!ArmStates
      <4>5. Wrote(<<bd.rbd, 0>>, Full(bd.rbd))
        BY <4>3, <4>4, Acknowledged DEF Full
      <4> QED BY <1>2, <1>4, <4>3, <4>5 DEF Wrote, Full
    <3> QED BY <3>1, <3>2
  <2>2. ASSUME NEW b \in Closed' \ {bd'.rbd}
        PROVE  /\ ~Bd[b].el /\ Bd[b].next \in Closed' \cup {bd'.rbd}
               /\ Wrote(<<b, 0>>, Full(b))'
    BY <1>1, <1>2, <1>3, <1>4, <2>2 DEF Full
  <2> QED BY <1>1, <1>2, <1>4, <2>1, <2>2 DEF ChainedInv, Full
<1>5. CASE OntoNext
  <2>1. Closed' = Closed /\ bd.rbd \in Closed /\ written' = written
    BY <1>1, <1>2, <1>3, <1>5 DEF OntoNext, Closed, Wrote
  <2>2. ~Bd[bd.rbd].el /\ bd'.rbd = Bd[bd.rbd].next
    BY <1>5 DEF OntoNext, OwnIInv, VerdictIInv, HoldInv, Held, Ru!ArmStates
  <2>3. ASSUME NEW b \in Closed
        PROVE  /\ ~Bd[b].el /\ Bd[b].next \in Closed \cup {bd'.rbd}
               /\ Wrote(<<b, 0>>, Full(b))
    <3>1. CASE b = bd.rbd
      BY <1>1, <1>5, <2>1, <2>2, <3>1 DEF OntoNext
    <3>2. CASE b # bd.rbd
      BY <1>1, <2>1, <2>3, <3>2
    <3> QED BY <3>1, <3>2
  <2>4. frame_bd'.rbd \in Closed /\ state' # "RU_RD_NEXT_RBD"
    BY <1>1, <1>5, <2>1 DEF OntoNext
  <2>5. ASSUME NEW b \in Closed
        PROVE  <<b, 0>> \in DOMAIN written' /\ written'[<<b, 0>>] = Full(b)
    <3>1. Wrote(<<b, 0>>, Full(b))
      BY <2>3
    <3> QED BY <2>1, <3>1 DEF Wrote
  <2> QED BY <2>1, <2>3, <2>4, <2>5 DEF ChainedInv, Wrote, Full
<1> QED BY <1>4, <1>5, StepKinds DEF Poured, HeaderIn, ByteIn

LEMMA WholeSteps ==
  ASSUME Keeps
  PROVE  /\ Whole => /\ UNCHANGED <<frame_len, err, buf_off>> /\ bd'.rbd = bd.rbd
                     /\ \/ state' = state
                        \/ state = "RU_FLUSH" /\ state' = "RU_FIN_CLOSE_RBD"
                        \/ /\ state = "RU_FIN_CLOSE_RBD" /\ bus_ack
                           /\ state' \in {"RU_COUNT_ERR", "RU_FIN_WR_RFD_RBD"}
                        \/ state = "RU_COUNT_ERR" /\ state' = "RU_FIN_WR_RFD_RBD"
                        \/ state = "RU_FIN_WR_RFD_RBD" /\ bus_ack /\ state' = "RU_FIN_RD_CMD"
                        \/ state = "RU_FIN_RD_CMD" /\ state' = "RU_FIN_WR_STATUS"
         /\ ~Whole /\ Whole' =>
              /\ state \in {"RU_POP", "RU_FULL_PEEK"} /\ ~rx_empty /\ rx_data.end
              /\ in_frame /\ ~in_frame' /\ UNCHANGED <<frame_len, buf_off, bd>>
              /\ state' = IF state = "RU_POP" THEN "RU_FLUSH" ELSE "RU_FIN_CLOSE_RBD"
              /\ state' = "RU_FLUSH" => flush_to_end'
<1> USE DEF Keeps, StoredInv, Ru!Goto
<1>1. Whole => /\ ~in_frame \/ state = "RU_FLUSH"
               /\ state \in {"RU_FLUSH", "RU_FIN_CLOSE_RBD", "RU_COUNT_ERR"} \cup Filing
               /\ state = "RU_FLUSH" => flush_to_end
               /\ state = "RU_COUNT_ERR" => count_then_file
  <2>1. state \in Ru!FileStates \cup {"RU_COUNT_ERR"} => ~in_frame
    BY DEF OwnIInv, VerdictIInv, HoldInv
  <2> QED BY <2>1 DEF Whole, Filing, Ru!FileStates
<1>2. CASE Ru!Take
  <2>1. UNCHANGED bd
    BY <1>2 DEF Ru!Take
  <2>2. CASE Ru!PopEnd
    <3>1. /\ state = "RU_POP" /\ ~rx_empty /\ rx_data.end /\ ~in_frame' /\ UNCHANGED <<frame_len, buf_off>>
          /\ state' = "RU_FLUSH" /\ flush_to_end'
      BY <2>2 DEF Ru!PopEnd, Ru!PopNow, Ru!TakeEnd
    <3>2. in_frame
      BY <3>1 DEF OwnIInv, VerdictIInv, HoldInv, Amid
    <3> QED BY <1>1, <2>1, <3>1, <3>2 DEF Filing
  <2>3. CASE Ru!PopByte
    <3>1. state = "RU_POP" /\ (~Ru!RejectByte => state' = "RU_POP" \/ (state' = "RU_FLUSH" /\ ~flush_to_end'))
          /\ (Ru!RejectByte => state' = "RU_DROP")
      BY <2>3 DEF Ru!PopByte, Ru!PopNow, Ru!RejectByte, Ru!HeaderByte, Ru!BufferByte
    <3> QED BY <1>1, <3>1 DEF Whole, Filing
  <2>4. CASE Ru!Flush
    <3>1. /\ state = "RU_FLUSH" /\ UNCHANGED <<frame_len, err, buf_off, flush_to_end>>
          /\ state' = state \/ state' = IF flush_to_end THEN "RU_FIN_CLOSE_RBD" ELSE "RU_FULL_PEEK"
      BY <2>4 DEF Ru!Flush, Ru!frameVars
    <3> QED BY <1>1, <2>1, <3>1 DEF Whole, Filing
  <2>5. CASE Ru!FullPeek
    <3>1. /\ state = "RU_FULL_PEEK" /\ ~rx_empty /\ UNCHANGED <<frame_len, buf_off>>
          /\ \/ rx_data.end /\ ~in_frame' /\ state' = "RU_FIN_CLOSE_RBD"
             \/ state' = "RU_CLOSE_FULL"
      BY <2>5 DEF Ru!FullPeek, Ru!OverToo, Ru!TakeEnd
    <3>2. in_frame
      BY <3>1 DEF OwnIInv, VerdictIInv, HoldInv, Amid
    <3> QED BY <1>1, <2>1, <3>1, <3>2 DEF Whole, Filing
  <2>6. CASE Ru!CloseFull
    <3>1. state = "RU_CLOSE_FULL" /\ state' \in {"RU_DROP", "RU_RD_NEXT_RBD"}
      BY <2>6 DEF Ru!CloseFull
    <3> QED BY <1>1, <3>1 DEF Whole, Filing
  <2> QED BY <1>2, <2>2, <2>3, <2>4, <2>5, <2>6 DEF Ru!Take
<1>3. CASE Ru!Arm
  <2>1. state \in Ru!ArmStates \cup {"RU_RD_NEXT_RBD"}
        /\ state' \in Ru!ArmStates \cup {"RU_NO_RESOURCE", "RU_POP", "RU_READY"}
    BY <1>3 DEF Ru!Arm, Ru!ArmStates
  <2> QED BY <1>1, <2>1 DEF Whole, Filing, Ru!ArmStates
<1>4. CASE Ru!Wait
  <2>1. UNCHANGED <<state, bd, buf_off, frame_len, err, flush_to_end, count_then_file>>
    BY <1>4 DEF Ru!Wait, Ru!bufVars, Ru!frameVars, Ru!pathVars
  <2> QED BY <2>1 DEF Whole
<1>5. CASE Ru!Dispose /\ (Ru!CloseRbd \/ Ru!CountErr \/ Ru!LinkBuffers)
  <2>1. /\ Whole /\ UNCHANGED <<frame_len, err>>
        /\ state \in {"RU_FIN_CLOSE_RBD", "RU_COUNT_ERR", "RU_FIN_WR_RFD_RBD", "RU_FIN_RD_CMD"}
    <3>1. /\ UNCHANGED <<frame_len, err>>
          /\ state \in {"RU_FIN_CLOSE_RBD", "RU_COUNT_ERR", "RU_FIN_WR_RFD_RBD", "RU_FIN_RD_CMD"}
      BY <1>5 DEF Ru!CloseRbd, Ru!CountErr, Ru!LinkBuffers, Ru!frameVars
    <3> QED BY <3>1, StoringHas DEF Whole, Filing
  <2>2. bd'.rbd = bd.rbd /\ buf_off' = buf_off
    BY <2>1, StepKinds DEF OntoNext, Poured, HeaderIn, ByteIn
  <2>3. \/ /\ state = "RU_FIN_CLOSE_RBD" /\ bus_ack
           /\ state' \in {"RU_COUNT_ERR", "RU_FIN_WR_RFD_RBD"}
        \/ state = "RU_COUNT_ERR" /\ state' = "RU_FIN_WR_RFD_RBD"
        \/ state = "RU_FIN_WR_RFD_RBD" /\ bus_ack /\ state' = "RU_FIN_RD_CMD"
        \/ state = "RU_FIN_RD_CMD" /\ state' = "RU_FIN_WR_STATUS"
    <3>1. state = "RU_COUNT_ERR" => count_then_file
      BY <1>1, <2>1
    <3> QED BY <1>5, <3>1 DEF Ru!CloseRbd, Ru!CountErr, Ru!LinkBuffers
  <2> QED BY <2>1, <2>2, <2>3
<1>6. ~Ru!Ready
  BY StoringHas DEF Ru!Ready
<1> QED BY <1>2, <1>3, <1>4, <1>5, <1>6, StoringSteps

LEMMA WholeKeeps ==
  ASSUME Keeps
  PROVE  WholeInv'
<1> SUFFICES ASSUME Whole'
             PROVE  WholeInv'
  BY DEF WholeInv
<1> USE DEF Keeps, StoredInv
<1>1. frame \in Frames /\ ~cut /\ bd.rbd \in Rbds /\ buf_off \in Nat /\ buf_off <= Bd[bd.rbd].size
  BY StoringHas
<1>2. Taken(frame_len)' = Taken(frame_len') /\ Faults(frame)' = Faults(frame)
  BY DEF Taken, Faults
<1>3. CASE Whole
  <2>1. /\ frame_len = Fr[frame].len /\ err = Faults(frame)
        /\ Taken(frame_len) + Room[bd.rbd] = Room[frame_bd.rbd] + buf_off
        /\ state \in {"RU_COUNT_ERR"} \cup Filing =>
             Wrote(<<bd.rbd, 0>>, [count |-> buf_off, eof |-> TRUE])
        /\ state \in {"RU_FIN_RD_CMD", "RU_FIN_WR_STATUS"} => Wrote(<<rfd, 6>>, frame_bd.rbd)
    BY <1>1, <1>3 DEF WholeInv
  <2>2. /\ UNCHANGED <<frame_len, err, buf_off>> /\ bd'.rbd = bd.rbd
        /\ \/ state' = state
           \/ state = "RU_FLUSH" /\ state' = "RU_FIN_CLOSE_RBD"
           \/ /\ state = "RU_FIN_CLOSE_RBD" /\ bus_ack
              /\ state' \in {"RU_COUNT_ERR", "RU_FIN_WR_RFD_RBD"}
           \/ state = "RU_COUNT_ERR" /\ state' = "RU_FIN_WR_RFD_RBD"
           \/ state = "RU_FIN_WR_RFD_RBD" /\ bus_ack /\ state' = "RU_FIN_RD_CMD"
           \/ state = "RU_FIN_RD_CMD" /\ state' = "RU_FIN_WR_STATUS"
    BY <1>3, WholeSteps
  <2>3. state' \in {"RU_COUNT_ERR"} \cup Filing =>
          Wrote(<<bd.rbd, 0>>, [count |-> buf_off, eof |-> TRUE])'
    <3>1. CASE state = "RU_FIN_CLOSE_RBD" /\ bus_ack
      <4>1. Wrote(<<bd.rbd, 0>>, [count |-> buf_off, eof |-> TRUE]) /\ written' = written
        BY <3>1, Acknowledged, WrittenStays
      <4> QED BY <2>2, <4>1 DEF Wrote
    <3>2. CASE state \in {"RU_COUNT_ERR"} \cup Filing
      <4>1. \A v : Wrote(<<bd.rbd, 0>>, v) =>
                     <<bd.rbd, 0>> \in DOMAIN written' /\ written'[<<bd.rbd, 0>>] = v
        <5>1. \A b \in Rbds : b = bd.rbd => \A v : Wrote(<<b, 0>>, v) => Wrote(<<b, 0>>, v)'
          BY <3>2, WrittenStays DEF Filing
        <5> QED BY <1>1, <5>1 DEF Wrote
      <4> QED BY <2>1, <2>2, <3>2, <4>1 DEF Wrote
    <3> QED BY <2>2, <3>1, <3>2 DEF Filing
  <2>4. state' \in {"RU_FIN_RD_CMD", "RU_FIN_WR_STATUS"} => Wrote(<<rfd, 6>>, frame_bd.rbd)'
    <3>1. CASE state = "RU_FIN_WR_RFD_RBD" /\ bus_ack
      <4>1. Wrote(<<rfd, 6>>, frame_bd.rbd) /\ written' = written
        BY <3>1, Acknowledged, WrittenStays
      <4> QED BY <2>2, <4>1 DEF Wrote
    <3>2. CASE state \in {"RU_FIN_RD_CMD", "RU_FIN_WR_STATUS"}
      <4>1. \A v : Wrote(<<rfd, 6>>, v) => Wrote(<<rfd, 6>>, v)'
        BY <3>2, WrittenStays
      <4> QED BY <2>1, <2>2, <3>2, <4>1 DEF Wrote
    <3> QED BY <2>2, <3>1, <3>2
  <2> QED BY <1>1, <1>2, <2>1, <2>2, <2>3, <2>4 DEF WholeInv
<1>4. CASE ~Whole
  <2>1. /\ state \in {"RU_POP", "RU_FULL_PEEK"} /\ ~rx_empty /\ rx_data.end
        /\ in_frame /\ ~in_frame' /\ UNCHANGED <<frame_len, buf_off, bd>>
        /\ state' = IF state = "RU_POP" THEN "RU_FLUSH" ELSE "RU_FIN_CLOSE_RBD"
        /\ state' = "RU_FLUSH" => flush_to_end'
    BY <1>4, WholeSteps
  <2>2. /\ Upcoming.of = frame /\ Upcoming.n = frame_len
        /\ Taken(frame_len) + Room[bd.rbd] = Room[frame_bd.rbd] + buf_off
    BY <1>1, <2>1, InHand DEF OwnIInv, Filling
  <2>3. frame_len = Fr[frame].len
    BY <2>1, <2>2, WordSeen DEF OwnIInv, VerdictIInv, ReceiveIInv
  <2>4. err' = Faults(frame)'
    <3>1. TakenInv' /\ ~cut'
      BY VerdictStep DEF OwnIInv, VerdictIInv, Storing
    <3> QED BY <2>1, <3>1 DEF TakenInv
  <2> QED BY <1>1, <1>2, <2>1, <2>2, <2>3, <2>4 DEF WholeInv, Filing
<1> QED BY <1>3, <1>4

\* A frame begins: nothing of it has been written, posted or gathered.
LEMMA ReadyStores ==
  ASSUME Clock, OwnIInv, Ru!Ready, ~core_rst, ru_ctl # "ABORT", ~cut
  PROVE  StoredInv'
<1> USE DEF OwnIInv, VerdictIInv
<1>1. /\ state = "RU_READY" /\ ~rx_empty /\ state' = "RU_POP" /\ acc' = Ru!NoAcc /\ frame_bd' = bd
      /\ buf_off' = 0 /\ frame_len' = 0 /\ bd' = bd /\ (wp' = wp \/ wp' = Ru!NoRequest)
  BY DEF Ru!Ready, Ru!Goto, Ru!Drain
<1>2. ~Ru!wp_valid
  BY <1>1 DEF PostInv
<1>3. written' = Untouched
  BY <1>1 DEF Clock, History, Begins
<1>4. ~Ru!wp_valid' /\ DOMAIN acc'.lanes = {} /\ DOMAIN written' = {} /\ Closed' = {}
  BY <1>1, <1>2, <1>3 DEF Ru!wp_valid, Ru!NoRequest, Ru!Access, Ru!NoAcc, Untouched, Closed
<1>5. port' # "ACK"
  <2>1. port # "ACTIVE"
    <3>1. Ru!Request = Ru!NoRequest
      BY <1>1, <1>2 DEF Ru!Request, Ru!StateRequest
    <3>2. Live
      BY <1>1 DEF Live
    <3> QED BY <3>1, <3>2 DEF AccessInv, Ru!NoRequest, Ru!Access
  <2> QED BY <2>1 DEF Clock, PortEdge, PortMoves, PortIdle, PortStart, OtherStart, PortDone,
          PortAck, OtherDone, PortWait, portVars
<1>6. ~Whole' /\ state' # "RU_RD_NEXT_RBD"
  BY <1>1 DEF Whole, Filing
<1>7. LandedInv' /\ WholeInv'
  BY <1>5, <1>6 DEF LandedInv, WholeInv
<1>8. RightInv'
  BY <1>4 DEF RightInv
<1>9. CoverInv'
  BY <1>1, <1>4 DEF CoverInv
<1>10. ChainedInv'
  BY <1>1, <1>4, <1>6 DEF ChainedInv
<1> QED BY <1>7, <1>8, <1>9, <1>10 DEF StoredInv

LEMMA StoredKeeps ==
  ASSUME Clock, OwnIInv, StoredInv
  PROVE  StoredInv'
<1>1. CASE ~Storing'
  BY <1>1 DEF StoredInv, LandedInv, RightInv, CoverInv, ChainedInv, WholeInv, Storing
<1>2. CASE Keeps
  BY <1>2, LandedKeeps, RightKeeps, CoverKeeps, ChainedKeeps, WholeKeeps DEF StoredInv
<1>3. CASE Storing' /\ Ru!Ready
  BY <1>3, StoringSteps, ReadyStores
<1> QED BY <1>1, <1>2, <1>3, StoringSteps

-----------------------------------------------------------------------------
\* What a reader finds who follows the buffers of a frame that has been filed.

\* Bytes of the frame in hand, one after the other.
Run(c, n) == [k \in 1..n |-> Nth(c + k - 1)]

LEMMA RunJoins ==
  ASSUME NEW c \in Int, NEW m \in Nat, NEW n \in Nat
  PROVE  Run(c, m) \o Run(c + m, n) = Run(c, m + n)
<1> DEFINE U == {Nth(i) : i \in Int}
           s == Run(c, m)
           t == Run(c + m, n)
<1>1. /\ s \in Seq(U) /\ Len(s) = m /\ \A k \in 1..m : s[k] = Nth(c + k - 1)
  BY DEF Run
<1>2. /\ t \in Seq(U) /\ Len(t) = n /\ \A k \in 1..n : t[k] = Nth(c + m + k - 1)
  BY DEF Run
<1>3. Run(c, m + n) \in Seq(U) /\ Len(Run(c, m + n)) = m + n
      /\ \A k \in 1..(m + n) : Run(c, m + n)[k] = Nth(c + k - 1)
  BY DEF Run
<1> HIDE DEF U, s, t
<1>4. /\ s \o t \in Seq(U) /\ Len(s \o t) = m + n
      /\ \A i \in 1..(m + n) : (s \o t)[i] = IF i <= m THEN s[i] ELSE t[i - m]
  BY <1>1, <1>2, ConcatProperties
<1>5. ASSUME NEW i \in 1..(m + n)
      PROVE  (s \o t)[i] = Run(c, m + n)[i]
  <2>1. CASE i <= m
    BY <1>1, <1>3, <1>4, <2>1
  <2>2. CASE i > m
    <3>1. i - m \in 1..n /\ c + m + (i - m) - 1 = c + i - 1
      BY <2>2
    <3>2. t[i - m] = Nth(c + i - 1)
      BY <1>2, <3>1
    <3>3. (s \o t)[i] = t[i - m]
      BY <1>4, <2>2
    <3> QED BY <1>3, <3>2, <3>3
  <2>3. i <= m \/ i > m
    OBVIOUS
  <2> QED BY <2>1, <2>2, <2>3
<1>6. s \o t = Run(c, m + n)
  BY <1>3, <1>4, <1>5, SeqEqual
<1> QED BY <1>6 DEF s, t

\* What FiledWhole asks for, when FR is reported.
FrameThere ==
  /\ Wrote(<<rfd, 0>>, Faults(frame))
  /\ \E b \in Rbds :
       /\ Wrote(<<rfd, 6>>, b)
       /\ HeaderBytes(HdrLen(frame)) \o BufferBytes[b]
            = [k \in 1..Fr[frame].len |-> [of |-> frame, n |-> k - 1]]

\* The bytes one buffer holds, and those of the buffers from it on.
Held1(b) == [k \in 1..written[<<b, 0>>].count |-> ByteAt(<<"BUF", Bd[b].buf + k - 1>>)]
LastOf(b) == written[<<b, 0>>].eof \/ Bd[b].el

LEMMA BytesExist ==
  ASSUME \A b \in Closed : written[<<b, 0>>].count \in Nat
  PROVE  \E f :
           /\ f = [b \in Rbds |-> f[b]]
           /\ \A b \in Rbds : f[b] = IF b \notin Closed THEN <<>>
                                     ELSE Held1(b) \o (IF LastOf(b) THEN <<>> ELSE f[Bd[b].next])
<1> DEFINE U == {ByteAt(p) : p \in {<<"BUF", Bd[b].buf + k>> : b \in Rbds, k \in Int}}
           V == Seq(U)
           last == {b \in Rbds : b \notin Closed \/ LastOf(b)}
           next == [b \in Rbds \ last |-> Bd[b].next]
           base == [b \in last |-> IF b \notin Closed THEN <<>> ELSE Held1(b)]
           more == [b \in Rbds |-> IF b \notin Closed THEN <<>> ELSE Held1(b)]
           step == [x \in Rbds \X V |-> more[x[1]] \o x[2]]
<1>1. \A b \in Closed : Held1(b) \in V
  <2> SUFFICES ASSUME NEW b \in Closed
               PROVE  Held1(b) \in V
    OBVIOUS
  <2>1. b \in Rbds /\ Bd[b].buf \in Nat /\ written[<<b, 0>>].count \in Nat
    BY AreasAssumption DEF Closed
  <2>2. ASSUME NEW k \in 1..written[<<b, 0>>].count
        PROVE  ByteAt(<<"BUF", Bd[b].buf + k - 1>>) \in U
    <3>1. k - 1 \in Int /\ Bd[b].buf + k - 1 = Bd[b].buf + (k - 1)
      BY <2>1
    <3> QED BY <2>1, <3>1
  <2> HIDE DEF U
  <2>3. Held1(b) \in [1..written[<<b, 0>>].count -> U]
    BY <2>2 DEF Held1
  <2>4. \A n \in Nat : [1..n -> U] \subseteq Seq(U)
    BY SeqDef
  <2> QED BY <2>1, <2>3, <2>4
<1>2. <<>> \in V
  OBVIOUS
<1> HIDE DEF U
<1>3. more \in [Rbds -> V]
  BY <1>1, <1>2
<1>4. step \in [Rbds \X V -> V]
  <2> SUFFICES ASSUME NEW b \in Rbds, NEW v \in V
               PROVE  more[b] \o v \in V
    OBVIOUS
  <2> HIDE DEF more
  <2> QED BY <1>3
<1>5. Chain(Rbds, V, last, next, base, step)
  <2>1. /\ last \in SUBSET Rbds /\ next \in [Rbds \ last -> Rbds] /\ base \in [last -> V]
    <3>1. \A b \in Rbds : ~Bd[b].el => Bd[b].next \in Rbds
      BY ListsAssumption
    <3>2. next \in [Rbds \ last -> Rbds]
      BY <3>1 DEF LastOf
    <3>3. base \in [last -> V]
      BY <1>1, <1>2
    <3> QED BY <3>2, <3>3
  <2>2. \A S \in SUBSET Rbds : (\A x \in S : x \notin last /\ next[x] \in S) => S = {}
    <3> SUFFICES ASSUME NEW S \in SUBSET Rbds, \A x \in S : x \notin last /\ next[x] \in S
                 PROVE  S = {}
      OBVIOUS
    <3>1. \A x \in S : ~Bd[x].el /\ Bd[x].next \in S
      BY DEF LastOf
    <3> HIDE DEF last, next
    <3> QED BY <3>1, ListsAssumption
  <2>3. IsFiniteSet(Rbds)
    BY ListsAssumption
  <2> HIDE DEF last, next, base, step, V
  <2> QED BY <1>4, <2>1, <2>2, <2>3 DEF Chain
<1>6. \A b \in Rbds :
        /\ b \in last <=> (b \notin Closed \/ LastOf(b))
        /\ b \notin last => next[b] = Bd[b].next
        /\ b \in last => base[b] = IF b \notin Closed THEN <<>> ELSE Held1(b)
        /\ b \in Closed => more[b] = Held1(b)
  OBVIOUS
<1>7. \A b \in Rbds, v \in V : step[<<b, v>>] = more[b] \o v
  OBVIOUS
<1>8. \A v \in V : v \o <<>> = v
  BY ConcatEmptySeq
<1>9. \A b \in Rbds : ~LastOf(b) => Bd[b].next \in Rbds
  BY ListsAssumption DEF LastOf
<1> HIDE DEF last, next, base, step, more, V
<1>10. PICK f \in [Rbds -> V] : Along(f, Rbds, last, next, base, step)
  BY <1>5, ChainExists
<1>11. ASSUME NEW b \in Rbds
       PROVE  f[b] = IF b \notin Closed THEN <<>>
                     ELSE Held1(b) \o (IF LastOf(b) THEN <<>> ELSE f[Bd[b].next])
  <2>1. f[b] = IF b \in last THEN base[b] ELSE step[<<b, f[next[b]]>>]
    BY <1>10 DEF Along
  <2>2. CASE b \notin Closed
    BY <1>6, <2>1, <2>2
  <2>3. CASE b \in Closed /\ LastOf(b)
    BY <1>1, <1>6, <1>8, <2>1, <2>3
  <2>4. CASE b \in Closed /\ ~LastOf(b)
    <3>1. f[b] = step[<<b, f[Bd[b].next]>>] /\ f[Bd[b].next] \in V
      BY <1>6, <1>9, <2>1, <2>4
    <3> QED BY <1>6, <1>7, <2>4, <3>1
  <2> QED BY <2>2, <2>3, <2>4
<1>12. f = [b \in Rbds |-> f[b]]
  BY <1>10
<1> QED BY <1>11, <1>12

LEMMA BytesIs ==
  ASSUME \A b \in Closed : written[<<b, 0>>].count \in Nat, NEW b \in Closed
  PROVE  BufferBytes[b] = Held1(b) \o (IF LastOf(b) THEN <<>> ELSE BufferBytes[Bd[b].next])
<1> DEFINE Bytes(f) ==
      [c \in Rbds |->
         IF <<c, 0>> \notin DOMAIN written THEN <<>>
         ELSE LET closed == written[<<c, 0>>]
              IN  [k \in 1..closed.count |-> ByteAt(<<"BUF", Bd[c].buf + k - 1>>)]
                    \o (IF closed.eof \/ Bd[c].el THEN <<>> ELSE f[Bd[c].next])]
<1>1. PICK f :
        /\ f = [c \in Rbds |-> f[c]]
        /\ \A c \in Rbds : f[c] = IF c \notin Closed THEN <<>>
                                  ELSE Held1(c) \o (IF LastOf(c) THEN <<>> ELSE f[Bd[c].next])
  BY BytesExist
<1>2. ASSUME NEW c \in Rbds
      PROVE  f[c] = Bytes(f)[c]
  <2>1. c \in Closed <=> <<c, 0>> \in DOMAIN written
    BY DEF Closed
  <2>2. CASE c \notin Closed
    <3>1. Bytes(f)[c] = <<>>
      BY <2>1, <2>2
    <3> QED BY <1>1, <2>2, <3>1
  <2>3. CASE c \in Closed
    <3>1. Bytes(f)[c] = Held1(c) \o (IF LastOf(c) THEN <<>> ELSE f[Bd[c].next])
      BY <2>1, <2>3 DEF Held1, LastOf
    <3> HIDE DEF Bytes
    <3> QED BY <1>1, <2>3, <3>1
  <2> QED BY <2>2, <2>3
<1>3. f = Bytes(f)
  <2> HIDE DEF Bytes
  <2>1. Bytes(f) = [c \in Rbds |-> Bytes(f)[c]]
    BY DEF Bytes
  <2> QED BY <1>1, <1>2, <2>1
<1>4. BufferBytes = Bytes(BufferBytes)
  BY <1>3 DEF BufferBytes
<1>5. b \in Rbds /\ <<b, 0>> \in DOMAIN written
  BY DEF Closed
<1>6. BufferBytes[b] = Bytes(BufferBytes)[b]
  BY <1>4
<1> QED BY <1>5, <1>6 DEF Held1, LastOf

\* From each buffer on, they hold the rest of the frame.
LEMMA RestOfFrame ==
  ASSUME InMemory
  PROVE  \A b \in Closed :
           /\ Start(b) \in Int /\ Taken(Fr[frame].len) - Start(b) \in Nat
           /\ BufferBytes[b] = Run(HdrMax + Start(b), Taken(Fr[frame].len) - Start(b))
<1> DEFINE T == Taken(Fr[frame].len)
           Rest(c) == /\ T - Start(c) \in Nat
                      /\ BufferBytes[c] = Run(HdrMax + Start(c), T - Start(c))
<1>1. /\ T \in Nat /\ HdrMax \in Nat /\ Closed \subseteq Rbds
      /\ bd.rbd \in Closed /\ frame_bd.rbd \in Closed
      /\ buf_off \in Nat /\ buf_off <= Bd[bd.rbd].size
  <2>1. /\ frame \in Frames /\ bd.rbd \in Closed /\ frame_bd.rbd \in Closed
        /\ buf_off \in Nat /\ buf_off <= Bd[bd.rbd].size
    BY DEF InMemory
  <2>2. Closed \subseteq Rbds /\ HdrMax \in Nat
    BY DEF Closed, HdrMax
  <2>3. Fr[frame].len \in Nat
    BY <2>1, FramesAssumption
  <2>4. T \in Nat
    BY <2>3 DEF Taken
  <2> QED BY <2>1, <2>2, <2>4
<1>2. ASSUME NEW b \in Closed
      PROVE  /\ Start(b) \in Int /\ Bd[b].buf \in Nat /\ Bd[b].size \in Nat
             /\ "BUF" \notin Rfds
  BY <1>1, RoomIs, ListsAssumption, AreasAssumption DEF Start
<1>3. ASSUME NEW b \in Closed, NEW n \in Nat, n <= Bd[b].size,
             \A k \in 0..(n - 1) : <<"BUF", Bd[b].buf + k>> \in DOMAIN written
      PROVE  [k \in 1..n |-> ByteAt(<<"BUF", Bd[b].buf + k - 1>>)] = Run(HdrMax + Start(b), n)
  <2>1. ASSUME NEW k \in 1..n
        PROVE  ByteAt(<<"BUF", Bd[b].buf + k - 1>>) = Nth(HdrMax + Start(b) + k - 1)
    <3> DEFINE at == Bd[b].buf + k - 1
               p == <<"BUF", at>>
    <3>1. at \in Extent(b) /\ at = Bd[b].buf + (k - 1) /\ k - 1 \in 0..(n - 1)
      BY <1>2, <1>3 DEF Extent
    <3>2. p \in DOMAIN written
      BY <1>3, <3>1
    <3>3. Right(p, written[p])
      BY <3>2 DEF InMemory
    <3>4. written[p] = Nth(HdrMax + Start(b) + (at - Bd[b].buf))
      BY <1>1, <3>1, <3>3 DEF Right
    <3>5. HdrMax + Start(b) + (at - Bd[b].buf) = HdrMax + Start(b) + k - 1
      BY <1>1, <1>2
    <3>6. ByteAt(p) = written[p]
      BY <3>2 DEF ByteAt
    <3> HIDE DEF at
    <3> QED BY <3>4, <3>5, <3>6 DEF at
  <2> QED BY <2>1 DEF Run
<1>4. ASSUME NEW b \in Closed
      PROVE  written[<<b, 0>>].count \in Nat
  <2>1. CASE b = bd.rbd
    BY <1>1, <2>1 DEF InMemory, Wrote
  <2>2. CASE b # bd.rbd
    <3>1. written[<<b, 0>>] = Full(b)
      BY <2>2 DEF InMemory, Wrote
    <3> QED BY <1>2, <3>1 DEF Full
  <2> QED BY <2>1, <2>2
<1>5. Rest(bd.rbd)
  <2> DEFINE b == bd.rbd
  <2>1. written[<<b, 0>>].count = buf_off /\ written[<<b, 0>>].eof
    BY DEF InMemory, Wrote
  <2>2. Held1(b) = Run(HdrMax + Start(b), buf_off)
    <3>1. \A k \in 0..(buf_off - 1) : <<"BUF", Bd[b].buf + k>> \in DOMAIN written
      BY DEF InMemory
    <3> QED BY <1>1, <1>3, <2>1, <3>1 DEF Held1
  <2>3. T - Start(b) = buf_off
    BY <1>1, RoomIs DEF InMemory, Start
  <2>4. BufferBytes[b] = Held1(b) \o <<>>
    BY <1>1, <1>4, <2>1, BytesIs DEF LastOf
  <2>5. Run(HdrMax + Start(b), buf_off) \o <<>> = Run(HdrMax + Start(b), buf_off)
    <3>1. ASSUME NEW c \in Int, NEW n \in Nat
          PROVE  Run(c, n) \o <<>> = Run(c, n)
      <4>1. Run(c, n) \in Seq({Nth(i) : i \in Int})
        BY DEF Run
      <4> QED BY <4>1, ConcatEmptySeq
    <3>2. HdrMax + Start(b) \in Int
      BY <1>1, <1>2
    <3> QED BY <1>1, <3>1, <3>2
  <2> QED BY <1>1, <2>2, <2>3, <2>4, <2>5
<1>6. ASSUME NEW b \in Closed, b # bd.rbd
      PROVE  ~Bd[b].el /\ Bd[b].next \in Closed /\ (Rest(Bd[b].next) => Rest(b))
  <2> DEFINE c == Bd[b].next
             m == Bd[b].size
  <2>1. /\ ~Bd[b].el /\ c \in Closed /\ written[<<b, 0>>] = Full(b)
        /\ \A k \in 0..(m - 1) : <<"BUF", Bd[b].buf + k>> \in DOMAIN written
    BY <1>6 DEF InMemory, Wrote
  <2>2. written[<<b, 0>>].count = m /\ ~LastOf(b)
    BY <2>1 DEF Full, LastOf
  <2>3. Held1(b) = Run(HdrMax + Start(b), m)
    BY <1>2, <1>3, <2>1, <2>2 DEF Held1
  <2>4. Start(c) = Start(b) + m /\ m \in Nat
    BY <1>1, <1>2, <2>1, RoomIs DEF Start
  <2>5. BufferBytes[b] = Held1(b) \o BufferBytes[c]
    BY <1>4, <2>2, BytesIs
  <2>6. ASSUME Rest(c)
        PROVE  Rest(b)
    <3> DEFINE n  == T - Start(c)
               at == HdrMax + Start(b)
    <3>1. n \in Nat /\ T - Start(b) = m + n /\ HdrMax + Start(c) = at + m /\ at \in Int
      BY <1>1, <1>2, <2>4, <2>6
    <3>2. BufferBytes[c] = Run(at + m, n)
      BY <2>6, <3>1
    <3> HIDE DEF at, n, m
    <3>3. Run(at, m) \o Run(at + m, n) = Run(at, m + n)
      BY <2>4, <3>1, RunJoins
    <3>4. BufferBytes[b] = Run(at, m) \o Run(at + m, n)
      BY <2>3, <2>5, <3>2 DEF at
    <3>5. T - Start(b) \in Nat
      BY <2>4, <3>1
    <3>6. BufferBytes[b] = Run(at, T - Start(b))
      BY <3>1, <3>3, <3>4
    <3> QED BY <3>5, <3>6 DEF at
  <2> QED BY <2>1, <2>6
<1> HIDE DEF Rest
<1>7. {b \in Closed : ~Rest(b)} = {}
  <2> DEFINE M == {b \in Closed : ~Rest(b)}
  <2>1. M \in SUBSET Rbds
    BY <1>1
  <2>2. \A b \in M : ~Bd[b].el /\ Bd[b].next \in M
    BY <1>5, <1>6
  <2> HIDE DEF M
  <2>3. M = {}
    BY <2>1, <2>2, ListsAssumption
  <2> QED BY <2>3 DEF M
<1> QED BY <1>2, <1>7 DEF Rest

LEMMA MemoryHolds == InMemory => FrameThere
<1> SUFFICES ASSUME InMemory
             PROVE  FrameThere
  OBVIOUS
<1> DEFINE len == Fr[frame].len
           b == frame_bd.rbd
           h == HdrLen(frame)
<1>1. /\ b \in Closed /\ b \in Rbds /\ len \in Nat /\ rfd \in Rfds /\ Room[b] \in Nat
  <2>1. frame \in Frames /\ rfd \in Rfds /\ b \in Closed
    BY DEF InMemory
  <2>2. len \in Nat
    BY <2>1, FramesAssumption
  <2>3. b \in Rbds
    BY <2>1 DEF Closed
  <2> QED BY <2>1, <2>2, <2>3, RoomIs
<1>2. /\ h \in Nat /\ HdrMax \in Nat /\ h <= HdrMax /\ h <= len
      /\ h + Taken(len) = len /\ (Taken(len) # 0 => h = HdrMax)
  BY <1>1 DEF HdrLen, HdrMax, Taken
<1>3. Start(b) = 0
  BY <1>1 DEF Start
<1>4. Taken(len) \in Nat
  BY <1>1 DEF Taken
<1>5. BufferBytes[b] = Run(h, Taken(len))
  <2>1. BufferBytes[b] = Run(HdrMax, Taken(len))
    <3>1. BufferBytes[b] = Run(HdrMax + Start(b), Taken(len) - Start(b))
      BY <1>1, RestOfFrame
    <3>2. HdrMax + Start(b) = HdrMax /\ Taken(len) - Start(b) = Taken(len)
      BY <1>2, <1>3, <1>4
    <3> QED BY <3>1, <3>2
  <2>2. CASE Taken(len) # 0
    BY <1>2, <2>1, <2>2
  <2>3. CASE Taken(len) = 0
    <3>1. Run(HdrMax, 0) = Run(h, 0)
      BY DEF Run
    <3> QED BY <2>1, <2>3, <3>1
  <2> QED BY <2>2, <2>3
<1>6. HeaderBytes(h) = Run(0, h)
  <2>1. ASSUME NEW k \in 1..h
        PROVE  ByteAt(<<rfd, 7 + k>>) = Nth(0 + k - 1)
    <3> DEFINE p == <<rfd, 7 + k>>
    <3>1. k - 1 \in 0..(HdrMax - 1) /\ k - 1 < len /\ 7 + k = 8 + (k - 1)
      BY <1>1, <1>2
    <3>2. p \in DOMAIN written
      BY <3>1 DEF InMemory
    <3>3. Right(p, written[p])
      BY <3>2 DEF InMemory
    <3>4. written[p] = Nth((7 + k) - 8)
      BY <1>1, <3>3 DEF Right
    <3>5. (7 + k) - 8 = 0 + k - 1
      OBVIOUS
    <3>6. ByteAt(p) = written[p]
      BY <3>2 DEF ByteAt
    <3> QED BY <3>4, <3>5, <3>6
  <2> QED BY <2>1 DEF HeaderBytes, Run
<1>7. HeaderBytes(h) \o BufferBytes[b] = Run(0, len)
  <2> HIDE DEF h, len
  <2>1. \A n, m \in Nat : Run(0, n) \o Run(0 + n, m) = Run(0, n + m)
    <3>1. 0 \in Int
      OBVIOUS
    <3>2. \A c \in Int : \A n, m \in Nat : Run(c, n) \o Run(c + n, m) = Run(c, n + m)
      BY RunJoins
    <3> QED BY <3>1, <3>2
  <2>2. 0 + h = h /\ h + Taken(len) = len
    BY <1>2
  <2>3. Run(0, h) \o Run(0 + h, Taken(len)) = Run(0, h + Taken(len))
    BY <1>2, <1>4, <2>1
  <2> QED BY <1>5, <1>6, <2>2, <2>3
<1>8. Run(0, len) = [k \in 1..len |-> [of |-> frame, n |-> k - 1]]
  <2>1. \A k \in 1..len : Nth(0 + k - 1) = [of |-> frame, n |-> k - 1]
    BY <1>1 DEF Nth
  <2> QED BY <2>1 DEF Run
<1>9. Wrote(<<rfd, 6>>, b) /\ Wrote(<<rfd, 0>>, Faults(frame))
  BY DEF InMemory
<1> QED BY <1>1, <1>7, <1>8, <1>9 DEF FrameThere

-----------------------------------------------------------------------------
\* The event that reports a frame.

\* FR is given on the edge on which the write of the status is acknowledged.
LEMMA Reporting ==
  ASSUME OwnIInv, Clock, "FR" \in ru_ev', ~cut'
  PROVE  /\ ~core_rst /\ ru_ctl # "ABORT" /\ ~cut /\ state = "RU_FIN_WR_STATUS" /\ bus_ack
         /\ UNCHANGED <<rfd, bd, buf_off, frame_bd, frame, cfg, written>>
<1>1. ~Ru!RuReset /\ ~Ru!Abort /\ ~Ru!Idle /\ ~Ru!NoResource /\ ~Ru!Arm /\ ~Ru!Ready /\ ~Ru!Take
      /\ ~Ru!Dispose /\ ~Ru!NextRfd /\ ~Ru!Wait
  <2>1. ru_ev' # {} /\ ru_ev' # {"RNR"}
    OBVIOUS
  <2>2. ~Ru!RuReset
    BY <2>1 DEF Ru!RuReset
  <2>3. ~Ru!Abort
    BY <2>1 DEF Ru!Abort
  <2>4. ~Ru!Idle /\ ~Ru!NoResource /\ ~Ru!Arm /\ ~Ru!Ready
    BY <2>1 DEF Ru!Idle, Ru!NoResource, Ru!Arm, Ru!Ready
  <2>5. ~Ru!Take /\ ~Ru!Dispose /\ ~Ru!Wait
    BY <2>1 DEF Ru!Take, Ru!Dispose, Ru!Wait
  <2>6. ~Ru!NextRfd
    BY <2>1 DEF Ru!NextRfd
  <2> QED BY <2>2, <2>3, <2>4, <2>5, <2>6
<1>2. Ru!RuEdge
  BY DEF Clock
<1>3. Ru!WriteStatus
  BY <1>1, <1>2, RuCases
<1>4. /\ state = "RU_FIN_WR_STATUS" /\ bus_ack
      /\ UNCHANGED <<rfd, bd, buf_off, frame_bd>>
  BY <1>3 DEF Ru!WriteStatus, Ru!Filed, Ru!bufVars
<1>5. ~core_rst /\ ru_ctl # "ABORT"
  <2>1. ~core_rst => ~Ru!Aborting
    BY <1>1, <1>2 DEF Ru!RuEdge
  <2>2. ~core_rst
    BY <1>1, <1>2 DEF Ru!RuEdge
  <2> QED BY <2>1, <2>2 DEF Ru!Aborting
<1>6. ~cut
  BY <1>5 DEF Clock, History
<1>7. frame' = frame /\ cfg' = cfg
  BY <1>4, <1>5, <1>6, FrameSteps
<1>8. written' = written
  <2>1. ~Begins /\ ~Forget /\ ~PortDone
    BY <1>4, <1>5, <1>6 DEF Begins, Forget, PortDone, bus_ack
  <2> QED BY <2>1 DEF Clock, History
<1> QED BY <1>4, <1>5, <1>6, <1>7, <1>8

\* By then all that was posted and gathered has been written.
LEMMA MemoryKeeps ==
  ASSUME OwnIInv, StoredInv, Clock
  PROVE  MemoryInv'
<1> SUFFICES ASSUME "FR" \in ru_ev', ~cut'
             PROVE  InMemory'
  BY DEF MemoryInv
<1> USE DEF StoredInv
<1>1. /\ ~core_rst /\ ru_ctl # "ABORT" /\ ~cut /\ state = "RU_FIN_WR_STATUS" /\ bus_ack
      /\ UNCHANGED <<rfd, bd, buf_off, frame_bd, frame, cfg, written>>
  BY Reporting
<1>2. Storing /\ Whole
  BY <1>1 DEF Storing, Whole, Filing
<1>3. /\ frame \in Frames /\ rfd \in Rfds /\ bd.rbd \in Rbds /\ frame_bd.rbd \in Rbds
      /\ buf_off \in Nat /\ buf_off <= Bd[bd.rbd].size
  BY <1>2, StoringHas
<1>4. /\ frame_len = Fr[frame].len /\ err = Faults(frame)
      /\ Taken(Fr[frame].len) + Room[bd.rbd] = Room[frame_bd.rbd] + buf_off
      /\ Wrote(<<bd.rbd, 0>>, [count |-> buf_off, eof |-> TRUE])
      /\ Wrote(<<rfd, 6>>, frame_bd.rbd)
  BY <1>1, <1>2 DEF WholeInv, Filing
<1>5. Wrote(<<rfd, 0>>, Faults(frame))
  BY <1>1, <1>2, <1>4, Acknowledged
<1>6. bd.rbd \in Closed /\ frame_bd.rbd \in Closed
  BY <1>2, <1>3, <1>4 DEF ChainedInv, Closed, Wrote
<1>7. Covered = DOMAIN written
  <2>1. ~Ru!wp_valid
    BY <1>1 DEF OwnIInv, VerdictIInv, PostInv
  <2>2. DOMAIN acc.lanes = {}
    BY <1>1 DEF OwnIInv, VerdictIInv, ReceiveIInv, GatherInv, Ru!AccDirty, Ru!FileStates
  <2> QED BY <2>1, <2>2 DEF Covered
<1>8. /\ \A p \in DOMAIN written : Right(p, written[p])
      /\ \A i \in 0..(HdrMax - 1) : i < Fr[frame].len => <<rfd, 8 + i>> \in DOMAIN written
      /\ \A k \in 0..(buf_off - 1) : <<"BUF", Bd[bd.rbd].buf + k>> \in DOMAIN written
  BY <1>2, <1>4, <1>7 DEF RightInv, CoverInv
<1>9. \A b \in Closed \ {bd.rbd} : \A k \in 0..(Bd[b].size - 1) :
        <<"BUF", Bd[b].buf + k>> \in DOMAIN written
  BY <1>2, <1>7 DEF CoverInv
<1>10. ASSUME NEW b \in Closed \ {bd.rbd}
       PROVE  ~Bd[b].el /\ Bd[b].next \in Closed /\ Wrote(<<b, 0>>, Full(b))
  BY <1>2, <1>6 DEF ChainedInv
<1>11. InMemory
  BY <1>3, <1>4, <1>5, <1>6, <1>8, <1>9, <1>10 DEF InMemory
<1> QED BY <1>1, <1>11 DEF InMemory, Closed, Taken, Right, Nth, HdrMax, Start, Wrote, Faults, Full

LEMMA FiledInit == Init => FiledIInv
<1> SUFFICES ASSUME Init
             PROVE  FiledIInv
  OBVIOUS
<1>1. state = "RU_IDLE" /\ ~in_frame /\ ru_ev = {}
  BY DEF Init, Ru!RuInit
<1>2. ~Storing
  BY <1>1 DEF Storing, Whole, Filing
<1>3. LandedInv /\ RightInv /\ CoverInv /\ ChainedInv /\ WholeInv
  BY <1>2 DEF LandedInv, RightInv, CoverInv, ChainedInv, WholeInv, Storing
<1>4. MemoryInv
  BY <1>1 DEF MemoryInv
<1> QED BY <1>3, <1>4, OwnInit DEF FiledIInv

LEMMA FiledStutter ==
  ASSUME FiledIInv, UNCHANGED vars
  PROVE  FiledIInv'
<1> USE DEF FiledIInv, vars, ruVars, ctlVars, rxVars, portVars, memVars, histVars
<1>1. OwnIInv'
  BY OwnStutter
<1>2. /\ Storing' = Storing /\ Whole' = Whole /\ Closed' = Closed /\ Ru!wp_valid' = Ru!wp_valid
      /\ HdrMax' = HdrMax
  BY DEF Storing, Whole, Closed, Ru!wp_valid, HdrMax
<1>3. \A p, v : Right(p, v)' <=> Right(p, v)
  BY <1>2 DEF Right, Nth, HdrMax, Start
<1>4. LandedInv'
  BY <1>2 DEF LandedInv, Wrote, Places, Value
<1>5. RightInv'
  BY <1>2, <1>3 DEF RightInv, Places, Value
<1>6. CoverInv'
  BY <1>2 DEF CoverInv, Covered, Places
<1>7. ChainedInv'
  BY <1>2 DEF ChainedInv, Wrote, Full
<1>8. WholeInv'
  BY <1>2 DEF WholeInv, Wrote, Taken, Faults
<1>9. MemoryInv'
  BY <1>2, <1>3 DEF MemoryInv, InMemory, Taken, Wrote, Faults, Full
<1> QED BY <1>1, <1>4, <1>5, <1>6, <1>7, <1>8, <1>9

\* The invariant that keeps track of every byte of the frame in hand: gathered,
\* posted or written, each in its place, until the frame is in memory whole.
THEOREM FiledInvariance == Spec => []FiledIInv
<1>1. Init => FiledIInv
  BY FiledInit
<1>2. FiledIInv /\ [Next]_vars => FiledIInv'
  <2> SUFFICES ASSUME FiledIInv, [Next]_vars
               PROVE  FiledIInv'
    OBVIOUS
  <2>1. CASE Clock
    BY <2>1, OwnStep, StoredKeeps, MemoryKeeps DEF FiledIInv, StoredInv
  <2>2. CASE UNCHANGED vars
    BY <2>2, FiledStutter
  <2> QED BY <2>1, <2>2 DEF Next
<1> QED BY <1>1, <1>2, PTL DEF Spec

\* When FR is reported memory holds the frame, the whole frame and nothing but
\* the frame: header in the descriptor, the rest along the buffers the descriptor
\* leads to, however many it takes, with what was wrong with it in the status.
THEOREM FramesFiledWhole == Spec => []FiledWhole
<1>1. FiledIInv => FiledWhole
  BY MemoryHolds DEF FiledIInv, MemoryInv, FrameThere, FiledWhole
<1> QED BY <1>1, FiledInvariance, PTL
=============================================================================
