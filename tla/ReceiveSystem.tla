---------------------------- MODULE ReceiveSystem ----------------------------
(***************************************************************************)
(* The receive unit at work: ie_ru, its receive FIFO, the memory port it   *)
(* shares with the SCB handler, and the receive frame areas the driver     *)
(* built.  Frames arrive one after another, whatever the unit is doing,    *)
(* and control pulses come at any moment the SCB handler can give them.    *)
(***************************************************************************)
EXTENDS ScbTypes, Naturals, Sequences

CONSTANTS
  Rfds, Rf,     \* frame descriptors, and what the driver put in each
  Rbds, Bd,     \* buffer descriptors, likewise
  Heads,        \* frame descriptors a receive frame area starts at
  Frames, Fr,   \* frames that may arrive: length, destination, errors
  Configs,      \* configurations the unit may run under
  Pulses,       \* control pulses given to the unit
  ResetStates,  \* states of the unit in which a reset may begin (a bound)
  FifoDepth, CntRange, Null

ASSUME AreaAssumption ==
  /\ Heads \subseteq Rfds
  /\ Pulses \subseteq Controls
  /\ ResetStates \subseteq STRING
  /\ {FifoDepth, CntRange} \subseteq Nat \ {0}

VARIABLES
  \* ie_ru
  state, rfd, suspended, suspend_pending, ru_ev, bd, buf_off, frame_bd,
  frame_len, in_frame, rejected, err, count_then_file, flush_to_end, acc,
  wp, cnt,
  core_rst, ru_ctl, rfa, cfg,
  \* the receive FIFO, and the next word to arrive
  fifo, coming,
  \* the SCB handler's use of the memory port
  core,
  \* the memory port and the memory
  port, access, rdata,
  rfd_rbd,     \* buffer field of each frame descriptor
  shown,       \* error counters in the SCB
  \* history
  written,     \* what has been written to memory since the frame began
  frame,       \* the frame in hand, or the last one
  outcome,     \* what became of it so far
  home,        \* the receive frame area last started on
  given,       \* descriptors and buffers handed to the host since then
  cut          \* an abort has hit the unit in the middle of a frame

bus_ack  == port = "ACK"
rx_empty == fifo = <<>>
rx_data  == Head(fifo)

Ru == INSTANCE IeRu

ruVars == <<state, rfd, suspended, suspend_pending, ru_ev, bd, buf_off,
            frame_bd, frame_len, in_frame, rejected, err, count_then_file,
            flush_to_end, acc, wp, cnt>>
ctlVars  == <<core_rst, ru_ctl, rfa, cfg, core>>
rxVars   == <<fifo, coming>>
portVars == <<port, access, rdata>>
memVars  == <<rfd_rbd, shown, written>>
histVars == <<frame, outcome, home, given, cut>>
vars == <<ruVars, ctlVars, rxVars, portVars, memVars, histVars>>

NoData == "NONE"
Untouched == [p \in {} |-> NoData]

\* The buffer fields of the descriptors as the driver builds them.
Built == [r \in Rfds |-> Rf[r].rbd]

Init ==
  /\ Ru!RuInit
  /\ core_rst = FALSE /\ ru_ctl = "NOP" /\ rfa = Null /\ core = "QUIET"
  /\ cfg \in Configs
  /\ fifo = <<>> /\ coming \in [of : Frames, n : {0}]
  /\ port = "IDLE" /\ access = Ru!NoRequest /\ rdata = NoData
  /\ rfd_rbd = Built
  /\ shown = [k \in Ru!Counters |-> 0]
  /\ written = Untouched
  /\ frame = Null /\ outcome = <<>> /\ home = Null /\ given = {} /\ cut = FALSE

-----------------------------------------------------------------------------
\* Shared memory.

RfdField(r, n) ==
  CASE n = 2 -> Rf[r].el
    [] n = 4 -> Rf[r].link
    [] n = 6 -> rfd_rbd[r]

\* A buffer's address takes two fields.
LowHalf(at)  == at % 65536
HighHalf(at) == at \div 65536
RbdField(b, n) ==
  CASE n = 2 -> Bd[b].next
    [] n = 4 -> LowHalf(Bd[b].buf)
    [] n = 6 -> HighHalf(Bd[b].buf)
    [] n = 8 -> [size |-> Bd[b].size, el |-> Bd[b].el]

Memory(a) == IF a.of \in Rfds THEN RfdField(a.of, a.n) ELSE RbdField(a.of, a.n)

\* The places an access writes, and what it puts there.
Places(a) == IF a.size = "WORD" THEN {<<a.of, a.n + l>> : l \in DOMAIN a.data}
                                ELSE {<<a.of, a.n>>}
Value(a, p) == IF a.size = "WORD" THEN a.data[p[2] - a.n] ELSE a.data
WriteTo(mem, a) ==
  [p \in DOMAIN mem \cup Places(a) |-> IF p \in Places(a) THEN Value(a, p) ELSE mem[p]]

\* The memory port as this unit sees it.  The SCB handler comes first.
PortIdle ==
  /\ port = "IDLE" /\ core = "QUIET" /\ Ru!Request.size = "NONE"
  /\ UNCHANGED <<portVars, shown>>

PortStart ==
  /\ port = "IDLE" /\ core = "QUIET" /\ Ru!Request.size # "NONE"
  /\ port' = "ACTIVE" /\ access' = Ru!Request
  /\ UNCHANGED <<rdata, shown>>

OtherStart ==
  /\ port = "IDLE" /\ core # "QUIET"
  /\ port' = "OTHER"
  /\ UNCHANGED <<access, rdata, shown>>

PortWait == port \in {"ACTIVE", "OTHER"} /\ UNCHANGED <<portVars, shown>>

PortDone ==
  /\ port = "ACTIVE"
  /\ port' = "ACK"
  /\ IF ~access.we
     THEN rdata' = Memory(access) /\ UNCHANGED shown
     ELSE /\ rdata' = NoData
          /\ shown' = IF access.of = "SCB"
                      THEN [shown EXCEPT ![access.n] = access.data] ELSE shown
  /\ UNCHANGED access

PortAck ==
  /\ port = "ACK"
  /\ port' = "IDLE" /\ access' = Ru!NoRequest /\ rdata' = NoData
  /\ UNCHANGED shown

OtherDone == port = "OTHER" /\ port' = "IDLE" /\ UNCHANGED <<access, rdata, shown>>

\* The driver takes everything back before it starts the unit, or resumes it
\* after it ran out.
Restarts ==
  \/ state = "RU_IDLE" /\ ru_ctl = "START"
  \/ state = "RU_NO_RESOURCE" /\ ru_ctl \in {"START", "RESUME"}

\* A filed descriptor is given the buffer its frame begins in, and the driver
\* clears that field when it takes the descriptor back.
FieldWritten == access.we /\ access.of \in Rfds /\ access.n = 6
FieldEdge ==
  rfd_rbd' = IF Restarts THEN Built
             ELSE IF PortDone /\ FieldWritten
             THEN [rfd_rbd EXCEPT ![access.of] = access.data] ELSE rfd_rbd

PortMoves == PortIdle \/ PortStart \/ OtherStart \/ PortDone \/ PortAck \/ OtherDone
PortEdge == PortMoves \/ PortWait

-----------------------------------------------------------------------------
\* What else moves on clk.

\* The SCB handler makes its accesses in bursts, between which it asks for
\* nothing.  It gives at most one pulse in a burst, as one of its accesses
\* ends, and always has another to make after it.
CoreEdge ==
  /\ core' \in CASE core = "QUIET" -> {"QUIET", "ASKS"}
                 [] core = "ASKS" /\ OtherDone -> {"QUIET", "ASKS", "PULSED"}
                 [] core = "PULSED" /\ OtherDone -> {"QUIET", "PULSED"}
                 [] OTHER -> {core}
  /\ ru_ctl' \in IF core = "ASKS" /\ core' = "PULSED" THEN Pulses ELSE {"NOP"}
  /\ rfa' \in IF ru_ctl' = "START" THEN Heads ELSE {Null}

ControlEdge ==
  /\ core_rst' \in {FALSE, core_rst \/ state \in ResetStates}
  /\ IF core_rst' THEN core' = "QUIET" /\ ru_ctl' = "NOP" /\ rfa' = Null
                  ELSE CoreEdge
  /\ UNCHANGED cfg

\* A word of a frame as the receiver puts it in the FIFO.
Word(f, k) ==
  [byte |-> [of |-> f, n |-> k], end |-> k = Fr[f].len, err |-> Fr[f].err,
   dst |-> Fr[f].dst]

NextComing(f, k) ==
  IF k = Fr[f].len THEN [of : Frames, n : {0}] ELSE {[of |-> f, n |-> k + 1]}

Left == IF Ru!RxRd THEN Tail(fifo) ELSE fifo

Arrive ==
  /\ Len(fifo) < FifoDepth
  /\ fifo' = Append(Left, Word(coming.of, coming.n))
  /\ coming' \in NextComing(coming.of, coming.n)

NoArrival == fifo' = Left /\ UNCHANGED coming

\* A reset empties the FIFO; what arrives after it is a frame from its start.
RxEdge ==
  IF core_rst THEN fifo' = <<>> /\ coming' \in [of : Frames, n : {0}]
  ELSE Arrive \/ NoArrival

\* A frame begins when the unit takes it up.
Begins == state = "RU_READY" /\ ~rx_empty /\ ~core_rst /\ ru_ctl # "ABORT"

Forget == core_rst \/ ru_ctl = "ABORT" \/ cut

FrameHistory ==
  IF Forget THEN frame' = Null /\ outcome' = <<>>
  ELSE /\ frame' = IF Begins THEN rx_data.byte.of ELSE frame
       /\ outcome' =
            CASE Begins -> <<>>
              [] state = "RU_COUNT_ERR" /\ bus_ack -> Append(outcome, Ru!WhichErr)
              [] state = "RU_FIN_WR_STATUS" /\ bus_ack -> Append(outcome, "FILED")
              [] OTHER -> outcome

History ==
  /\ FrameHistory
  /\ written' = IF Begins \/ Forget THEN Untouched
                ELSE IF PortDone /\ access.we THEN WriteTo(written, access)
                ELSE written
  /\ home' = IF core_rst THEN Null
             ELSE IF ru_ctl = "START" /\ state \in {"RU_IDLE", "RU_NO_RESOURCE"}
             THEN rfa ELSE home
  /\ given' = IF Forget \/ Restarts THEN {}
              ELSE IF state = "RU_FIN_WR_STATUS" /\ bus_ack
              THEN given \cup {rfd} \cup {b \in Rbds : <<b, 0>> \in DOMAIN written}
              ELSE given
  /\ cut' = (~core_rst /\ (cut \/ (ru_ctl = "ABORT" /\ in_frame)))

Clock ==
  /\ Ru!RuEdge
  /\ PortEdge
  /\ FieldEdge
  /\ ControlEdge
  /\ RxEdge
  /\ History

Next == Clock

Spec == Init /\ [][Next]_vars

\* The memory answers, the SCB handler's bursts end, and a frame that has begun
\* to arrive goes on to its end.
Fairness ==
  /\ WF_vars(Clock /\ PortMoves)
  /\ SF_vars(Clock /\ OtherDone /\ core' = "QUIET")
  /\ WF_vars(Clock /\ coming.n > 0 /\ Arrive)
FairSpec == Spec /\ Fairness
-----------------------------------------------------------------------------
\* Properties.

\* What the SCB handler is promised: ie_ru implements ReceiveUnit.
rus == Ru!Rus
Unit == INSTANCE ReceiveUnit
UnitPromise == Unit!RuInit /\ [][Unit!RuEdge]_<<core_rst, ru_ctl, rus, ru_ev>>

\* What is wrong with a frame once it has been taken whole.
Faults(f) == Fr[f].err \cup (IF cfg.min_len > Fr[f].len + 4 THEN {"short"} ELSE {})

\* A frame is kept if it is for this station and there is room for it.
Ours(f) ==
  \/ Fr[f].len < 6 \/ cfg.promisc
  \/ Fr[f].dst \in {"OURS", "LISTED"}
       \cup (IF cfg.no_bcast THEN {} ELSE {"BROADCAST"})
       \cup (IF cfg.mc_all THEN {"GROUP"} ELSE {})

HdrLen(f) == IF cfg.al_loc THEN 0 ELSE IF Fr[f].len < 14 THEN Fr[f].len ELSE 14

Room[b \in Rbds] == Bd[b].size + (IF Bd[b].el THEN 0 ELSE Room[Bd[b].next])
Fits(f) == Fr[f].len - HdrLen(f) <= Room[frame_bd.rbd]

Expected(f) ==
  IF ~Ours(f) \/ ~Fits(f) THEN <<Ru!CounterOf(Fr[f].err)>>
  ELSE IF Faults(f) = {} THEN <<"FILED">>
  ELSE IF cfg.save_bad THEN <<Ru!CounterOf(Faults(f)), "FILED">>
  ELSE <<Ru!CounterOf(Faults(f))>>

\* Every frame the unit takes up has exactly one fate, the one it deserves:
\* filed once, counted once, or both if bad frames are saved.
Resting == {"RU_READY", "RU_NO_RESOURCE", "RU_IDLE"}
Verdict == state \in Resting /\ frame # Null /\ ~cut => outcome = Expected(frame)

\* Frames do not run together: when the unit waits for a frame, what comes next
\* is the first byte of one.
Boundaries == state = "RU_READY" /\ ~rx_empty /\ ~cut => rx_data.byte.n = 0

\* When FR is reported memory holds the frame, the whole frame and nothing but
\* the frame, where the descriptor says, and the descriptor says what was wrong
\* with it.
Wrote(p, v) == p \in DOMAIN written /\ written[p] = v
ByteAt(p) == IF p \in DOMAIN written THEN written[p] ELSE [of |-> Null, n |-> 0]
HeaderBytes(n) == [k \in 1..n |-> ByteAt(<<rfd, 7 + k>>)]
BufferBytes[b \in Rbds] ==
  IF <<b, 0>> \notin DOMAIN written THEN <<>>
  ELSE LET closed == written[<<b, 0>>]
       IN  [k \in 1..closed.count |-> ByteAt(<<"BUF", Bd[b].buf + k - 1>>)]
             \o (IF closed.eof \/ Bd[b].el THEN <<>> ELSE BufferBytes[Bd[b].next])

FiledWhole ==
  "FR" \in ru_ev /\ ~cut =>
    /\ Wrote(<<rfd, 0>>, Faults(frame))
    /\ \E b \in Rbds :
         /\ Wrote(<<rfd, 6>>, b)
         /\ HeaderBytes(HdrLen(frame)) \o BufferBytes[b]
              = [k \in 1..Fr[frame].len |-> [of |-> frame, n |-> k - 1]]

\* A frame that is not handed over leaves the unit where the frame found it: the
\* same descriptor, the same first buffer, nothing of it used up.
Rewound ==
  state = "RU_READY" /\ outcome # <<>> /\ outcome[Len(outcome)] # "FILED" =>
    bd = frame_bd /\ buf_off = 0 /\ ~Ru!AccDirty

\* "Files it into the receive frame area the host set up" (ie_ru.sv): all that
\* is written to buffers and descriptors belongs to the area last started on.
InArea(p) ==
  \/ p[1] = "SCB"
  \/ p[1] \in Rfds /\ Rf[p[1]].list = home
  \/ p[1] \in Rbds /\ Bd[p[1]].list = home
  \/ p[1] = "BUF" /\ \E b \in Rbds : /\ Bd[b].list = home
                                    /\ p[2] \in Bd[b].buf..(Bd[b].buf + Bd[b].size - 1)
Writing == port = "ACTIVE" /\ access.we
WritesInArea == Writing => \A p \in Places(access) : InArea(p)

\* The same, as long as no abort has hit the unit in the middle of a frame and
\* no reset has cut an access loose; and what has been handed to the host is the
\* host's: nothing more is written to its descriptors and buffers until the
\* driver gives them back.
HostsOwn(p) ==
  \/ p[1] \in given
  \/ p[1] = "BUF" /\ \E b \in given \cap Rbds :
                        p[2] \in Bd[b].buf..(Bd[b].buf + Bd[b].size - 1)
WritesItsOwn ==
  Writing /\ ~cut =>
    \A p \in Places(access) : ~HostsOwn(p) /\ (home # Null => InArea(p))

\* "The matching SCB error counter is bumped" (ie_ru.sv): when the unit is done
\* with a frame the counters in the SCB are the ones it keeps.
CountersShown == state = "RU_READY" => shown = cnt

\* A bound: nothing is followed beyond the edge on which an abort hits the unit
\* in the middle of a frame, the one that reports it with RNR.
UpToTheCut == cut => ru_ev = {"RNR"}

\* What has been taken up is dealt with.
Settles == state \notin Resting /\ ~cut ~> state \in Resting \/ cut
=============================================================================
