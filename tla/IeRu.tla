-------------------------------- MODULE IeRu --------------------------------
(***************************************************************************)
(* ie_ru: the receive unit.                                                *)
(*                                                                         *)
(* The module gives the block's registers and what one rising edge of clk  *)
(* does to them; its inputs are variables it never primes.  A word of the  *)
(* receive FIFO is a byte, known by the frame it is from and its place     *)
(* there, or the end of a frame with its error flags; every word carries   *)
(* the kind of destination its frame has.                                  *)
(***************************************************************************)
EXTENDS ScbTypes, Naturals, Sequences

CONSTANTS
  CntRange,  \* values of an error counter (65536: they are 16 bits wide)
  Null       \* the link that ends a list

VARIABLES
  state, rfd, suspended, suspend_pending,
  ru_ev,            \* events pulsed this cycle
  \* the buffer in use, and the one the frame began in
  bd, buf_off, frame_bd,
  \* the frame being taken
  frame_len, in_frame, rejected, err,
  count_then_file, flush_to_end,
  acc,              \* the word being gathered: its address, its bytes by lane
  wp,               \* the posted write, or no request
  cnt,              \* the four error counters
  \* input wires
  core_rst,
  ru_ctl, rfa,      \* control pulse, and the list it starts
  cfg,              \* from the command unit: filter, AL-LOC, SAV-BF, minimum
  rx_empty, rx_data,
  bus_ack, rdata

bufVars   == <<bd, buf_off, frame_bd>>
frameVars == <<frame_len, in_frame, rejected, err>>
pathVars  == <<count_then_file, flush_to_end>>
ruVars == <<state, rfd, suspended, suspend_pending, ru_ev, bd, buf_off,
            frame_bd, frame_len, in_frame, rejected, err, count_then_file,
            flush_to_end, acc, wp, cnt>>

ArmStates  == {"RU_RD_RFD_RBD", "RU_RD_BUF_LO", "RU_RD_BUF_HI", "RU_RD_SIZE"}
TakeStates == {"RU_POP", "RU_FLUSH", "RU_FULL_PEEK", "RU_CLOSE_FULL",
               "RU_RD_NEXT_RBD", "RU_DROP"}
FileStates == {"RU_FIN_CLOSE_RBD", "RU_FIN_WR_RFD_RBD", "RU_FIN_RD_CMD",
               "RU_FIN_WR_STATUS", "RU_FIN_RD_LINK"}
States == {"RU_IDLE", "RU_READY", "RU_COUNT_ERR", "RU_NO_RESOURCE"}
            \cup ArmStates \cup TakeStates \cup FileStates

\* What can be wrong with a frame.
Errors == {"bad", "dribble", "overrun", "short"}

\* A buffer descriptor in hand, by its fields.
NoBd == [rbd |-> Null, buf |-> 0, size |-> 0, el |-> FALSE]

\* An access: read or write, how much, where, and the value for a write.
Access(we, size, at, n, value) ==
  [we |-> we, size |-> size, of |-> at, n |-> n, data |-> value]
Read(at, n) == Access(FALSE, "HALF", at, n, Null)
Write(at, n, value) == Access(TRUE, "HALF", at, n, value)
NoRequest == Access(FALSE, "NONE", Null, 0, Null)

\* The two kinds of posted write: lanes of a word of a buffer, a header byte.
Post(word) == Access(TRUE, "WORD", "BUF", word.at, word.lanes)
PostHeader(n, byte) == Access(TRUE, "BYTE", rfd, 8 + n, byte)

\* An empty word has no address: the register keeps one that nothing looks at.
NoAcc == [at |-> 0, lanes |-> [l \in {} |-> Null]]
Counters == {"CRC", "ALN", "RSC", "OVR"}

RuInit ==
  /\ state = "RU_IDLE" /\ rfd = Null /\ suspended = FALSE
  /\ suspend_pending = FALSE /\ ru_ev = {}
  /\ bd = NoBd /\ buf_off = 0 /\ frame_bd = NoBd
  /\ frame_len = 0 /\ in_frame = FALSE /\ rejected = FALSE /\ err = {}
  /\ count_then_file = FALSE /\ flush_to_end = FALSE
  /\ acc = NoAcc /\ wp = NoRequest
  /\ cnt = [k \in Counters |-> 0]

-----------------------------------------------------------------------------
\* Combinational outputs.

wp_valid == wp.we

Rus == CASE state = "RU_NO_RESOURCE"          -> "NO_RESOURCE"
         [] state = "RU_IDLE" /\ suspended    -> "SUSPENDED"
         [] state = "RU_IDLE" /\ ~suspended   -> "IDLE"
         [] OTHER                             -> "READY"

\* Where the next byte goes.
ByteAddr == bd.buf + buf_off
Lane     == ByteAddr % 4
LastLane == Lane = 3
WordAddr == ByteAddr - Lane
AccDirty == DOMAIN acc.lanes # {}

\* With AL-LOC off the first fourteen bytes go to the descriptor.
HdrPhase == ~cfg.al_loc /\ frame_len < 14

\* The address filter, on the byte that completes the destination.
AcceptNext ==
  \/ cfg.promisc
  \/ rx_data.dst = "OURS"
  \/ rx_data.dst = "BROADCAST" /\ ~cfg.no_bcast
  \/ rx_data.dst = "LISTED"
  \/ rx_data.dst = "GROUP" /\ cfg.mc_all

FrameGood == err = {}

\* Which counter a frame not filed as good belongs to, and its next value.
CounterOf(e) == IF "overrun" \in e THEN "OVR" ELSE IF "dribble" \in e THEN "ALN"
                ELSE IF "bad" \in e THEN "CRC" ELSE "RSC"
WhichErr == CounterOf(err)
ErrValue == (cnt[WhichErr] + 1) % CntRange

\* A posted write always goes first.
StateRequest ==
  CASE state = "RU_RD_RFD_RBD"     -> Read(rfd, 6)
    [] state = "RU_RD_BUF_LO"      -> Read(bd.rbd, 4)
    [] state = "RU_RD_BUF_HI"      -> Read(bd.rbd, 6)
    [] state = "RU_RD_SIZE"        -> Read(bd.rbd, 8)
    [] state = "RU_CLOSE_FULL"     -> Write(bd.rbd, 0, [count |-> bd.size, eof |-> FALSE])
    [] state = "RU_RD_NEXT_RBD"    -> Read(bd.rbd, 2)
    [] state = "RU_FIN_CLOSE_RBD"  -> Write(bd.rbd, 0, [count |-> buf_off, eof |-> TRUE])
    [] state = "RU_FIN_WR_RFD_RBD" -> Write(rfd, 6, frame_bd.rbd)
    [] state = "RU_FIN_RD_CMD"     -> Read(rfd, 2)
    [] state = "RU_FIN_WR_STATUS"  -> Write(rfd, 0, err)
    [] state = "RU_FIN_RD_LINK"    -> Read(rfd, 4)
    [] state = "RU_COUNT_ERR"      -> Write("SCB", WhichErr, ErrValue)
    [] OTHER                       -> NoRequest

Request == IF wp_valid THEN wp ELSE StateRequest

\* A word leaves the FIFO exactly when it is dealt with.
PopStall == wp_valid /\ (LastLane \/ HdrPhase)
PopNow   == state = "RU_POP" /\ ~rx_empty /\ ~PopStall
RxRd == \/ PopNow
        \/ state = "RU_DROP" /\ ~rx_empty
        \/ state = "RU_FULL_PEEK" /\ ~rx_empty /\ rx_data.end

-----------------------------------------------------------------------------
\* One rising edge of clk, by state, while no abort is given.

Goto(s) == state' = s
Latch   == suspend_pending' = (suspend_pending \/ ru_ctl = "SUSPEND")
Drain == wp' = IF bus_ack THEN NoRequest ELSE wp

Idle ==
  /\ state = "RU_IDLE"
  /\ \/ /\ ru_ctl = "START"
        /\ rfd' = rfa
        /\ suspended' = FALSE /\ suspend_pending' = FALSE
        /\ Goto("RU_RD_RFD_RBD")
     \/ /\ ru_ctl = "RESUME" /\ suspended
        /\ suspended' = FALSE
        /\ Latch
        /\ Goto("RU_RD_RFD_RBD")
        /\ UNCHANGED rfd
     \/ /\ ru_ctl # "START" /\ ~(ru_ctl = "RESUME" /\ suspended)
        /\ Latch
        /\ UNCHANGED <<state, rfd, suspended>>
  /\ ru_ev' = {} /\ Drain
  /\ UNCHANGED <<bufVars, frameVars, pathVars, acc, cnt>>

NoResource ==
  /\ state = "RU_NO_RESOURCE"
  /\ rfd' = IF ru_ctl = "START" THEN rfa ELSE rfd
  /\ Goto(IF ru_ctl \in {"START", "RESUME"} THEN "RU_RD_RFD_RBD" ELSE state)
  /\ Latch /\ ru_ev' = {} /\ Drain
  /\ UNCHANGED <<suspended, bufVars, frameVars, pathVars, acc, cnt>>

\* Arming: the first buffer of a descriptor, or the next one of a frame.
Arm ==
  /\ bus_ack
  /\ \/ /\ state = "RU_RD_RFD_RBD"
        /\ IF rdata = Null
           THEN Goto("RU_NO_RESOURCE") /\ UNCHANGED bd
           ELSE Goto("RU_RD_BUF_LO") /\ bd' = [bd EXCEPT !.rbd = rdata]
        /\ UNCHANGED buf_off
     \/ /\ state = "RU_RD_NEXT_RBD"
        /\ bd' = [bd EXCEPT !.rbd = rdata] /\ buf_off' = 0
        /\ Goto("RU_RD_BUF_LO")
     \/ /\ state = "RU_RD_BUF_LO"
        /\ bd' = [bd EXCEPT !.buf = 65536 * (@ \div 65536) + rdata]
        /\ Goto("RU_RD_BUF_HI")
        /\ UNCHANGED buf_off
     \/ /\ state = "RU_RD_BUF_HI"
        /\ bd' = [bd EXCEPT !.buf = 65536 * (rdata % 256) + (@ % 65536)]
        /\ Goto("RU_RD_SIZE")
        /\ UNCHANGED buf_off
     \/ /\ state = "RU_RD_SIZE"
        /\ bd' = [bd EXCEPT !.size = rdata.size, !.el = rdata.el] /\ buf_off' = 0
        /\ Goto(IF in_frame THEN "RU_POP" ELSE "RU_READY")
  /\ Latch /\ ru_ev' = {} /\ Drain
  /\ UNCHANGED <<rfd, suspended, frame_bd, frameVars, pathVars, acc, cnt>>

\* Data begins a frame; remember where it starts, so it can be rewound.
Ready ==
  /\ state = "RU_READY" /\ ~rx_empty
  /\ acc' = NoAcc
  /\ frame_bd' = bd /\ buf_off' = 0
  /\ frame_len' = 0 /\ rejected' = FALSE /\ in_frame' = TRUE /\ err' = {}
  /\ Goto("RU_POP")
  /\ Latch /\ ru_ev' = {} /\ Drain
  /\ UNCHANGED <<rfd, suspended, bd, pathVars, cnt>>

-----------------------------------------------------------------------------
\* Taking a frame.

FrameIsShort == cfg.min_len > frame_len + 4

\* The end word gives its error flags; short is the unit's own verdict.
TakeEnd(short) == err' = rx_data.err \cup short /\ in_frame' = FALSE
Short == IF FrameIsShort THEN {"short"} ELSE {}

PopEnd ==
  /\ PopNow /\ rx_data.end
  /\ TakeEnd(Short)
  /\ flush_to_end' = TRUE
  /\ Goto("RU_FLUSH")
  /\ Drain
  /\ UNCHANGED <<buf_off, frame_len, rejected, acc>>

\* Not for us: what has been gathered is dropped as well.
RejectByte ==
  /\ frame_len = 5 /\ ~AcceptNext
  /\ rejected' = TRUE
  /\ acc' = NoAcc
  /\ Goto("RU_DROP")
  /\ Drain
  /\ UNCHANGED <<buf_off, flush_to_end>>

HeaderByte ==
  /\ ~(frame_len = 5 /\ ~AcceptNext) /\ HdrPhase
  /\ wp' = PostHeader(frame_len, rx_data.byte)
  /\ UNCHANGED <<state, rejected, buf_off, flush_to_end, acc>>

\* The byte goes into its lane; the last lane posts the word, and the last
\* byte of the buffer leads on.
BufferFull == buf_off + 1 >= bd.size
Gathered ==
  [at |-> IF AccDirty THEN acc.at ELSE WordAddr,
   lanes |-> [l \in DOMAIN acc.lanes \cup {Lane} |->
                IF l = Lane THEN rx_data.byte ELSE acc.lanes[l]]]

BufferByte ==
  /\ ~(frame_len = 5 /\ ~AcceptNext) /\ ~HdrPhase
  /\ buf_off' = buf_off + 1
  /\ IF LastLane THEN wp' = Post(Gathered) /\ acc' = NoAcc
                 ELSE Drain /\ acc' = Gathered
  /\ IF BufferFull THEN Goto("RU_FLUSH") /\ flush_to_end' = FALSE
                   ELSE UNCHANGED <<state, flush_to_end>>
  /\ UNCHANGED rejected

PopByte ==
  /\ PopNow /\ ~rx_data.end
  /\ frame_len' = (frame_len + 1) % 65536
  /\ RejectByte \/ HeaderByte \/ BufferByte
  /\ UNCHANGED <<in_frame, err>>

Flush ==
  /\ state = "RU_FLUSH" /\ ~wp_valid
  /\ IF AccDirty
     THEN wp' = Post(acc) /\ acc' = NoAcc /\ UNCHANGED state
     ELSE /\ Goto(IF flush_to_end THEN "RU_FIN_CLOSE_RBD" ELSE "RU_FULL_PEEK")
          /\ UNCHANGED <<wp, acc>>
  /\ UNCHANGED <<buf_off, frameVars, flush_to_end>>

\* Full; but if the frame is over too, this buffer is its last.
\* (Mutant: closed as full without looking.)
OverTooUnseen == FALSE
OverToo == rx_data.end

FullPeek ==
  /\ state = "RU_FULL_PEEK" /\ ~rx_empty
  /\ IF OverToo
     THEN TakeEnd(Short) /\ Goto("RU_FIN_CLOSE_RBD")
     ELSE Goto("RU_CLOSE_FULL") /\ UNCHANGED <<in_frame, err>>
  /\ Drain
  /\ UNCHANGED <<buf_off, frame_len, rejected, flush_to_end, acc>>

\* The last buffer is full and the frame is not over: it cannot be kept.
CloseFull ==
  /\ state = "RU_CLOSE_FULL" /\ bus_ack
  /\ IF bd.el THEN rejected' = TRUE /\ Goto("RU_DROP")
              ELSE Goto("RU_RD_NEXT_RBD") /\ UNCHANGED rejected
  /\ Drain
  /\ UNCHANGED <<buf_off, frame_len, in_frame, err, flush_to_end, acc>>

Take ==
  /\ PopEnd \/ PopByte \/ Flush \/ FullPeek \/ CloseFull
  /\ Latch /\ ru_ev' = {}
  /\ UNCHANGED <<rfd, suspended, bd, frame_bd, count_then_file, cnt>>

-----------------------------------------------------------------------------
\* Dropping, filing and counting a frame.

\* The buffers are the unit's own again.  (Mutant: only the offset is.)
RewindOffset == UNCHANGED bd /\ buf_off' = 0
Rewind == bd' = frame_bd /\ buf_off' = 0

Drop ==
  /\ state = "RU_DROP" /\ ~rx_empty /\ rx_data.end
  /\ err' = rx_data.err \cup (err \cap {"short"})
  /\ in_frame' = FALSE
  /\ count_then_file' = FALSE
  /\ Rewind
  /\ Goto("RU_COUNT_ERR")
  /\ Drain
  /\ UNCHANGED <<rfd, suspended, frame_bd, frame_len, rejected, cnt>>

Kept == ~rejected /\ (cfg.save_bad \/ FrameGood)

CloseRbd ==
  /\ state = "RU_FIN_CLOSE_RBD" /\ bus_ack
  /\ IF Kept
     THEN /\ count_then_file' = IF FrameGood THEN count_then_file ELSE TRUE
          /\ Goto(IF FrameGood THEN "RU_FIN_WR_RFD_RBD" ELSE "RU_COUNT_ERR")
          /\ UNCHANGED <<bd, buf_off>>
     ELSE Rewind /\ count_then_file' = FALSE /\ Goto("RU_COUNT_ERR")
  /\ Drain
  /\ UNCHANGED <<rfd, suspended, frame_bd, frameVars, cnt>>

CountErr ==
  /\ state = "RU_COUNT_ERR" /\ bus_ack
  /\ cnt' = [cnt EXCEPT ![WhichErr] = ErrValue]
  /\ count_then_file' = FALSE
  /\ Goto(IF count_then_file THEN "RU_FIN_WR_RFD_RBD" ELSE "RU_READY")
  /\ Drain
  /\ UNCHANGED <<rfd, suspended, bufVars, frameVars>>

\* The descriptor is given its buffers; its EL is kept where the frame's
\* first buffer had its own.
LinkBuffers ==
  /\ bus_ack
  /\ \/ state = "RU_FIN_WR_RFD_RBD" /\ Goto("RU_FIN_RD_CMD") /\ UNCHANGED frame_bd
     \/ state = "RU_FIN_RD_CMD" /\ Goto("RU_FIN_WR_STATUS")
        /\ frame_bd' = [frame_bd EXCEPT !.el = rdata]
  /\ Drain
  /\ UNCHANGED <<rfd, suspended, bd, buf_off, frameVars, count_then_file, cnt>>

Dispose ==
  /\ Drop \/ CloseRbd \/ CountErr \/ LinkBuffers
  /\ Latch /\ ru_ev' = {}
  /\ UNCHANGED <<flush_to_end, acc>>

\* (Mutant: the event does not wait for the write.)
FiledUnwritten == state = "RU_FIN_WR_STATUS"
Filed == state = "RU_FIN_WR_STATUS" /\ bus_ack

WriteStatus ==
  /\ Filed
  /\ ru_ev' = {"FR"}
  /\ Goto("RU_FIN_RD_LINK")
  /\ Latch /\ Drain
  /\ UNCHANGED <<rfd, suspended, bufVars, frameVars, pathVars, acc, cnt>>

\* On to the next descriptor, unless a list has ended or the unit suspends.
\* (Mutant: the end of the buffer list is forgotten.)
ListEndsRfdOnly == frame_bd.el
ListEnds == frame_bd.el \/ bd.el

NextRfd ==
  /\ state = "RU_FIN_RD_LINK" /\ bus_ack
  /\ rfd' = rdata
  /\ \/ /\ ListEnds
        /\ ru_ev' = {"RNR"} /\ Goto("RU_NO_RESOURCE")
        /\ Latch /\ UNCHANGED suspended
     \/ /\ ~ListEnds /\ suspend_pending
        /\ suspend_pending' = FALSE /\ suspended' = TRUE
        /\ ru_ev' = {"RNR"} /\ Goto("RU_IDLE")
     \/ /\ ~ListEnds /\ ~suspend_pending
        /\ ru_ev' = {} /\ Goto("RU_RD_NEXT_RBD")
        /\ Latch /\ UNCHANGED suspended
  /\ Drain
  /\ UNCHANGED <<bufVars, frameVars, pathVars, acc, cnt>>

-----------------------------------------------------------------------------
\* Every other state waits: for its access, for data, for the posted write.
AckStates == ArmStates \cup FileStates
               \cup {"RU_RD_NEXT_RBD", "RU_CLOSE_FULL", "RU_COUNT_ERR"}

Wait ==
  /\ \/ state \in AckStates /\ ~bus_ack
     \/ state = "RU_POP" /\ ~PopNow
     \/ state \in {"RU_READY", "RU_FULL_PEEK"} /\ rx_empty
     \/ state = "RU_FLUSH" /\ wp_valid
     \/ state = "RU_DROP" /\ ~(~rx_empty /\ rx_data.end)
  /\ Latch /\ ru_ev' = {} /\ Drain
  /\ UNCHANGED <<state, rfd, suspended, bufVars, frameVars, pathVars, acc, cnt>>

\* From anywhere to RU_IDLE; everything about the frame stays as it is.
\* (Mutant: a unit without resources has nothing to abort.)
AbortingArmed == ru_ctl = "ABORT" /\ state # "RU_NO_RESOURCE"
Aborting == ru_ctl = "ABORT"

Abort ==
  /\ Aborting
  /\ suspended' = FALSE /\ suspend_pending' = FALSE
  /\ ru_ev' = IF state = "RU_IDLE" THEN {} ELSE {"RNR"}
  /\ Goto("RU_IDLE")
  /\ Drain
  /\ UNCHANGED <<rfd, bufVars, frameVars, pathVars, acc, cnt>>

RuReset ==
  /\ core_rst
  /\ state' = "RU_IDLE" /\ rfd' = Null /\ suspended' = FALSE
  /\ suspend_pending' = FALSE /\ ru_ev' = {}
  /\ bd' = NoBd /\ buf_off' = 0 /\ frame_bd' = NoBd
  /\ frame_len' = 0 /\ in_frame' = FALSE /\ rejected' = FALSE /\ err' = {}
  /\ count_then_file' = FALSE /\ flush_to_end' = FALSE
  /\ acc' = NoAcc /\ wp' = NoRequest
  /\ cnt' = [k \in Counters |-> 0]

RuEdge ==
  \/ RuReset
  \/ ~core_rst /\ Abort
  \/ /\ ~core_rst /\ ~Aborting
     /\ \/ Idle \/ NoResource \/ Arm \/ Ready \/ Take \/ Dispose
        \/ WriteStatus \/ NextRfd \/ Wait
=============================================================================
