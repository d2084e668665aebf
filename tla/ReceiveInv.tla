----------------------------- MODULE ReceiveInv -----------------------------
(***************************************************************************)
(* The inductive invariants behind the receive unit's theorems, each going *)
(* on from the one before: when a frame is in hand and what the FIFO holds *)
(* next, what becomes of the frame, where the unit may write, and what of  *)
(* the frame is in memory.                                                 *)
(***************************************************************************)
EXTENDS ReceiveSystem, FiniteSets

\* The unit's count of a frame's bytes is 16 bits wide.
ASSUME FramesAssumption ==
  \A f \in Frames :
    /\ Fr[f] \in [len : Nat, dst : STRING, err : SUBSET {"bad", "dribble", "overrun"}]
    /\ Fr[f].len < 65536

\* What the driver builds: descriptors are places of their own, links lead to
\* descriptors, a buffer holds something, and every list of buffers ends.
ASSUME ListsAssumption ==
  /\ Rfds \cap (Rbds \cup {"SCB", "BUF"}) = {} /\ Null \notin Rbds
  /\ \A r \in Rfds : Rf[r].link \in Rfds /\ Rf[r].rbd \in Rbds \cup {Null}
  /\ \A b \in Rbds : /\ Bd[b].size \in Nat \ {0} /\ Bd[b].el \in BOOLEAN
                     /\ ~Bd[b].el => Bd[b].next \in Rbds
  /\ IsFiniteSet(Rbds)
  /\ \A S \in SUBSET Rbds :
       (\A b \in S : ~Bd[b].el /\ Bd[b].next \in S) => S = {}

\* A word of the FIFO.
Words == [byte : [of : Frames, n : Nat], end : BOOLEAN,
          err : SUBSET {"bad", "dribble", "overrun"}, dst : STRING]
Fates == Ru!Counters \cup {"FILED"}

\* The registers that steer the unit, the FIFO and the history keep their types.
ReceiveTypeOK ==
  /\ state \in Ru!States
  /\ {suspended, in_frame, count_then_file, flush_to_end, cut} \subseteq BOOLEAN
  /\ ru_ctl \in Controls
  /\ fifo \in Seq(Words) /\ coming \in [of : Frames, n : Nat]
  /\ outcome \in Seq(Fates)

\* The states that are always, and never, in the middle of a frame.
Amid  == {"RU_POP", "RU_FULL_PEEK", "RU_CLOSE_FULL", "RU_DROP"}
Apart == Resting \cup Ru!FileStates \cup {"RU_RD_RFD_RBD", "RU_COUNT_ERR"}
FrameInv ==
  ~cut => /\ state \in Amid => in_frame
          /\ state = "RU_FLUSH" => in_frame = ~flush_to_end
          /\ state \in Apart => ~in_frame

\* The FIFO holds frames word by word, each as the receiver put it there, and
\* what arrives next continues them.
Follows(w) == NextComing(w.byte.of, w.byte.n)
FifoInv ==
  /\ \A i \in 1..Len(fifo) : fifo[i].end = (fifo[i].byte.n = Fr[fifo[i].byte.of].len)
  /\ \A i \in 1..Len(fifo) : i < Len(fifo) => fifo[i + 1].byte \in Follows(fifo[i])
  /\ fifo # <<>> => coming \in Follows(fifo[Len(fifo)])

\* A unit that has no frame in hand has a frame's first word before it.
Upcoming == IF fifo = <<>> THEN coming ELSE fifo[1].byte
BoundaryInv == ~cut /\ ~in_frame => Upcoming.n = 0

\* Nothing gathered is left over once a frame has been taken, and a frame that
\* is counted and not filed has given its buffers back.
GatherInv ==
  state \in {"RU_FULL_PEEK", "RU_CLOSE_FULL", "RU_DROP", "RU_COUNT_ERR"} \cup Ru!FileStates
    => ~Ru!AccDirty
RewindInv == state = "RU_COUNT_ERR" /\ ~count_then_file => bd = frame_bd /\ buf_off = 0

\* The unit only moves to another descriptor or buffer list from a frame that
\* was filed, or from none.
Done == outcome = <<>> \/ outcome[Len(outcome)] = "FILED"
Between == {"RU_RD_NEXT_RBD", "RU_RD_BUF_LO", "RU_RD_BUF_HI", "RU_RD_SIZE"}
DoneInv ==
  /\ cut => outcome = <<>>
  /\ state \in {"RU_IDLE", "RU_NO_RESOURCE", "RU_RD_RFD_RBD", "RU_FIN_RD_LINK"} => Done
  /\ state \in Between /\ ~in_frame => Done

ReceiveIInv ==
  /\ ReceiveTypeOK /\ FrameInv /\ FifoInv /\ BoundaryInv
  /\ GatherInv /\ RewindInv /\ DoneInv /\ Rewound

-----------------------------------------------------------------------------
\* What becomes of a frame.

\* A pulse comes as an access of the SCB handler ends, with another to follow.
PulseInv ==
  /\ ru_ctl # "NOP" => port = "IDLE" /\ core = "PULSED"
  /\ ru_ctl = "START" => rfa \in Heads

\* A posted write is pending while a frame is taken or dropped.  Only an abort
\* leaves one to an idle unit, and it is made before the next pulse comes.
PostInv ==
  Ru!wp_valid =>
    /\ wp.size # "NONE" /\ (wp.of = "BUF" \/ (wp.n \in Nat /\ wp.n >= 8))
    /\ \/ core_rst
       \/ state \in {"RU_POP", "RU_FLUSH", "RU_DROP"}
       \/ state = "RU_COUNT_ERR" /\ ~count_then_file
       \/ /\ state = "RU_IDLE" /\ ru_ctl = "NOP"
          /\ \/ core = "PULSED" /\ port \in {"IDLE", "OTHER"}
             \/ core = "QUIET" /\ port = "IDLE"
             \/ port \in {"ACTIVE", "ACK"}

\* An access that a state waits for is the one it asked for.
Reads == Ru!ArmStates \cup {"RU_RD_NEXT_RBD", "RU_FIN_RD_CMD", "RU_FIN_RD_LINK"}
ReadInv ==
  state \in Reads => /\ (port = "ACTIVE" => access = Ru!StateRequest)
                    /\ (port = "ACK" => rdata = Memory(Ru!StateRequest))

\* Frame descriptors only ever name buffers.
LinkInv ==
  /\ rfd_rbd \in [Rfds -> Rbds \cup {Null}]
  /\ port = "ACTIVE" /\ access.we /\ access.of \in Rfds /\ access.n = 6
       => access.data \in Rbds

\* The descriptor and the buffer in hand, and the buffer a frame began in, are
\* the driver's, with what it says of them.
Held(d) == d.rbd \in Rbds /\ d.size = Bd[d.rbd].size /\ d.el = Bd[d.rbd].el
Opening == {"RU_RD_BUF_LO", "RU_RD_BUF_HI", "RU_RD_SIZE"}
Keeping == {"RU_FLUSH", "RU_FIN_CLOSE_RBD", "RU_COUNT_ERR", "RU_FIN_WR_RFD_RBD",
            "RU_FIN_RD_CMD"}
HoldInv ==
  /\ DOMAIN bd = DOMAIN Ru!NoBd /\ DOMAIN frame_bd = DOMAIN Ru!NoBd
  /\ state # "RU_IDLE" \/ suspended => rfd \in Rfds
  /\ state \in Opening => bd.rbd \in Rbds
  /\ state \notin Ru!ArmStates \cup {"RU_IDLE", "RU_NO_RESOURCE"} => Held(bd)
  /\ state = "RU_RD_NEXT_RBD" => ~bd.el
  /\ state \in Amid => in_frame
  /\ state = "RU_FLUSH" => in_frame = ~flush_to_end
  /\ state \in Ru!FileStates \cup {"RU_COUNT_ERR"} => ~in_frame
  /\ in_frame \/ state \in Keeping => Held(frame_bd)

\* The FIFO holds no word beyond a frame's end.
WordsInv ==
  /\ \A i \in 1..Len(fifo) : LET w == fifo[i]
                            IN  /\ w = Word(w.byte.of, w.byte.n)
                                /\ w.byte.n <= Fr[w.byte.of].len
  /\ coming.n <= Fr[coming.of].len

\* A frame in hand.  What has been taken of it fills the buffers closed so far
\* and the part of this one that is used; what comes next is its next word.
Taken(n) == IF cfg.al_loc THEN n ELSE IF n < 14 THEN 0 ELSE n - 14
Filling ==
  /\ ~rejected /\ Upcoming.n = frame_len
  /\ frame_len >= 6 => Ours(frame)
  /\ buf_off \in Nat /\ Taken(frame_len) + Room[bd.rbd] = Room[frame_bd.rbd] + buf_off
  /\ state \in Opening => buf_off = 0
  /\ state = "RU_POP" => buf_off < bd.size
  /\ state \in {"RU_FLUSH", "RU_FULL_PEEK", "RU_CLOSE_FULL", "RU_RD_NEXT_RBD"}
       => buf_off = bd.size
  /\ state = "RU_CLOSE_FULL" => frame_len < Fr[frame].len
InHandInv ==
  ~cut /\ in_frame =>
    /\ frame \in Frames /\ outcome = <<>> /\ err = {} /\ Upcoming.of = frame
    /\ IF state = "RU_DROP" THEN ~Ours(frame) \/ ~Fits(frame) ELSE Filling

\* A frame taken whole: it is ours, it fits, and what is wrong with it is known.
TakenInv ==
  ~cut /\ (state = "RU_FIN_CLOSE_RBD" \/ (state = "RU_FLUSH" /\ flush_to_end)) =>
    /\ frame \in Frames /\ outcome = <<>> /\ ~rejected
    /\ Ours(frame) /\ Fits(frame) /\ err = Faults(frame)

\* Its fate, step by step.
Past == Resting \cup Between \cup {"RU_RD_RFD_RBD", "RU_FIN_RD_LINK"}
FateInv ==
  ~cut =>
    /\ state = "RU_COUNT_ERR" =>
         /\ outcome = <<>>
         /\ Expected(frame) = IF count_then_file THEN <<Ru!WhichErr, "FILED">>
                                                ELSE <<Ru!WhichErr>>
    /\ state \in {"RU_FIN_WR_RFD_RBD", "RU_FIN_RD_CMD", "RU_FIN_WR_STATUS"} =>
         Expected(frame) = Append(outcome, "FILED")
    /\ state \in Past /\ ~in_frame => frame = Null \/ outcome = Expected(frame)

VerdictIInv ==
  /\ ReceiveIInv /\ frame_len \in Nat
  /\ PulseInv /\ PostInv /\ ReadInv /\ LinkInv /\ HoldInv
  /\ WordsInv /\ InHandInv /\ TakenInv /\ FateInv
-----------------------------------------------------------------------------
\* Where the unit may write.

\* What the driver builds: an area's descriptors and buffers link to its own, only
\* the first descriptor names a buffer, every list of descriptors ends, and
\* buffers do not overlap and have addresses of 24 bits.
Space == 16777216
ASSUME AreasAssumption ==
  /\ \A r \in Heads : Rf[r].list = r
  /\ \A r \in Rfds : /\ Rf[Rf[r].link].list = Rf[r].list
                     /\ ~Rf[r].el => Rf[Rf[r].link].rbd = Null
                     /\ Rf[r].rbd # Null => Bd[Rf[r].rbd].list = Rf[r].list
  /\ IsFiniteSet(Rfds)
  /\ \A S \in SUBSET Rfds :
       (\A r \in S : ~Rf[r].el /\ Rf[r].link \in S) => S = {}
  /\ {"SCB", "BUF"} \cap Rbds = {} /\ Null \notin Rfds
  /\ \A b \in Rbds : /\ Bd[b].buf \in Nat /\ Bd[b].buf < Space
                     /\ ~Bd[b].el => Bd[Bd[b].next].list = Bd[b].list
  /\ \A b, c \in Rbds : \/ b = c
                        \/ Bd[b].buf + Bd[b].size <= Bd[c].buf
                        \/ Bd[c].buf + Bd[c].size <= Bd[b].buf

\* The descriptors from here to the end of the list.
Behind[r \in Rfds] == 1 + (IF Rf[r].el THEN 0 ELSE Behind[Rf[r].link])

\* An access is the one the unit asks for, as long as it works.
Live == ~cut /\ (state # "RU_IDLE" \/ suspended)
AccessInv ==
  port \in {"ACTIVE", "ACK"} => access.size # "NONE" /\ (Live => access = Ru!Request)

\* The address of the buffer in hand, as its halves are read.
BufInv ==
  /\ bd.buf \in Nat /\ frame_bd.buf \in Nat
  /\ state = "RU_RD_BUF_HI" => LowHalf(bd.buf) = LowHalf(Bd[bd.rbd].buf)
  /\ state \notin (Ru!ArmStates \ {"RU_RD_SIZE"}) \cup {"RU_IDLE", "RU_NO_RESOURCE"}
       => bd.buf = Bd[bd.rbd].buf
  /\ in_frame \/ state \in Keeping => frame_bd.buf = Bd[frame_bd.rbd].buf

\* The states with a frame's first buffer in hand, and with one to begin in.
Begun == Keeping \cup {"RU_FIN_WR_STATUS"}
Open  == Opening \cup {"RU_READY"}

\* Descriptors and buffers in hand are of the area last started on.
AreaInv ==
  Live =>
    /\ home # Null /\ Rf[rfd].list = home
    /\ \A r \in Rfds : rfd_rbd[r] # Null => Bd[rfd_rbd[r]].list = Rf[r].list
    /\ state \notin {"RU_RD_RFD_RBD", "RU_IDLE", "RU_NO_RESOURCE"} => Bd[bd.rbd].list = home
    /\ in_frame \/ state \in Begun =>
         /\ frame_bd.rbd \in Rbds /\ Bd[frame_bd.rbd].list = home
         /\ Room[bd.rbd] <= Room[frame_bd.rbd]

\* The buffers closed for the frame in hand.
Closed == {b \in Rbds : <<b, 0>> \in DOMAIN written}
ClosedInv ==
  Live /\ (in_frame \/ state \in Begun)
      /\ ~(state = "RU_COUNT_ERR" /\ ~count_then_file) =>
    \A b \in Closed : Room[bd.rbd] <= Room[b]

\* What has been handed over is behind the unit.
EndsSeen == state \in {"RU_FIN_WR_STATUS", "RU_FIN_RD_LINK"} => frame_bd.el = Rf[rfd].el
Filing == {"RU_FIN_WR_RFD_RBD", "RU_FIN_RD_CMD", "RU_FIN_WR_STATUS"}
Ahead(b, n) == \A g \in given \cap Rbds : Room[b] + n <= Room[g]
GivenInv ==
  /\ given \subseteq Rfds \cup Rbds
  /\ Live => EndsSeen
  /\ Live /\ state # "RU_NO_RESOURCE" =>
       /\ \A r \in given \cap Rfds :
            Behind[rfd] + (IF state = "RU_FIN_RD_LINK" THEN 0 ELSE 1) <= Behind[r]
       /\ state \in {"RU_IDLE", "RU_RD_RFD_RBD"} => given = {} \/ rfd_rbd[rfd] = Null
       /\ in_frame \/ state \in Begun => Ahead(frame_bd.rbd, 1)
       /\ ~in_frame /\ state \in Open => Ahead(bd.rbd, 1)
       /\ ~in_frame /\ state \in {"RU_FIN_RD_LINK", "RU_RD_NEXT_RBD"} => Ahead(bd.rbd, 0)
       /\ \A r \in Rfds \ given : rfd_rbd[r] = Rf[r].rbd \/ (r = rfd /\ state \in Filing)

\* The bytes gathered are of the buffer in hand, and so is what has been posted.
OwnPlace(p) == ~HostsOwn(p) /\ (home # Null => InArea(p))
AccInv ==
  ~cut /\ Ru!AccDirty =>
    /\ in_frame => state \in {"RU_POP", "RU_FLUSH"}
    /\ state \in {"RU_POP", "RU_FLUSH"} =>
         /\ DOMAIN acc.lanes \subseteq 0..3 /\ acc.at = Ru!WordAddr
         /\ \A l \in DOMAIN acc.lanes :
              acc.at + l \in Bd[bd.rbd].buf..(Bd[bd.rbd].buf + Bd[bd.rbd].size - 1)
WpInv ==
  ~cut /\ Ru!wp_valid => /\ wp.size = "WORD" => wp.of = "BUF"
                         /\ \A p \in Places(wp) : OwnPlace(p)

OwnIInv ==
  /\ VerdictIInv /\ AccessInv /\ BufInv /\ AreaInv /\ ClosedInv /\ GivenInv
  /\ AccInv /\ WpInv /\ WritesItsOwn
-----------------------------------------------------------------------------
\* What is in memory of the frame in hand.

\* A frame that has been taken, on its way to being filed, and one of which all
\* that has been taken is kept.
Whole ==
  \/ state \in {"RU_FIN_CLOSE_RBD"} \cup Filing
  \/ state = "RU_FLUSH" /\ flush_to_end
  \/ state = "RU_COUNT_ERR" /\ count_then_file
Storing == ~cut /\ ((in_frame /\ state # "RU_DROP") \/ Whole)

\* The frame's bytes, by place: a header in the descriptor, the rest in buffers
\* one after the other.
Nth(i)     == [of |-> frame, n |-> i]
HdrMax     == IF cfg.al_loc THEN 0 ELSE 14
Start(b)   == Room[frame_bd.rbd] - Room[b]
Extent(b)  == Bd[b].buf..(Bd[b].buf + Bd[b].size - 1)
Right(p, v) ==
  /\ p[1] \in Rfds /\ p[2] >= 8 => v = Nth(p[2] - 8)
  /\ p[1] = "BUF" => \A b \in Rbds : p[2] \in Extent(b) =>
                       v = Nth(HdrMax + Start(b) + (p[2] - Bd[b].buf))

\* An access that has been acknowledged has been made.
LandedInv ==
  Storing /\ port = "ACK" /\ access.we => \A p \in Places(access) : Wrote(p, Value(access, p))

\* All that is written, posted or gathered is the right byte for its place.
RightInv ==
  Storing =>
    /\ \A p \in DOMAIN written : Right(p, written[p])
    /\ Ru!wp_valid => \A p \in Places(wp) : Right(p, Value(wp, p))
    /\ \A l \in DOMAIN acc.lanes : Right(<<"BUF", acc.at + l>>, acc.lanes[l])

\* And every byte taken is: in the descriptor, in the buffers closed, and in the
\* part of this one that is used.
Covered ==
  DOMAIN written \cup (IF Ru!wp_valid THEN Places(wp) ELSE {})
    \cup {<<"BUF", acc.at + l>> : l \in DOMAIN acc.lanes}
CoverInv ==
  Storing =>
    /\ \A i \in 0..(HdrMax - 1) : i < frame_len => <<rfd, 8 + i>> \in Covered
    /\ \A k \in 0..(buf_off - 1) : <<"BUF", Bd[bd.rbd].buf + k>> \in Covered
    /\ \A b \in Closed \ {bd.rbd} : \A k \in 0..(Bd[b].size - 1) :
         <<"BUF", Bd[b].buf + k>> \in Covered

\* The buffers closed lead from the first to the one in hand, and all but the
\* last say that they are full.
Full(b) == [count |-> Bd[b].size, eof |-> FALSE]
ChainedInv ==
  Storing =>
    /\ frame_bd.rbd \in Closed \cup {bd.rbd}
    /\ \A b \in Closed \ {bd.rbd} : /\ ~Bd[b].el /\ Bd[b].next \in Closed \cup {bd.rbd}
                                   /\ Wrote(<<b, 0>>, Full(b))
    /\ state = "RU_RD_NEXT_RBD" => Wrote(<<bd.rbd, 0>>, Full(bd.rbd))

\* A frame taken whole, as it is filed.
WholeInv ==
  ~cut /\ Whole =>
    /\ frame \in Frames /\ frame_len = Fr[frame].len /\ err = Faults(frame)
    /\ buf_off \in Nat /\ buf_off <= Bd[bd.rbd].size
    /\ Taken(frame_len) + Room[bd.rbd] = Room[frame_bd.rbd] + buf_off
    /\ state \in {"RU_COUNT_ERR"} \cup Filing =>
         Wrote(<<bd.rbd, 0>>, [count |-> buf_off, eof |-> TRUE])
    /\ state \in {"RU_FIN_RD_CMD", "RU_FIN_WR_STATUS"} => Wrote(<<rfd, 6>>, frame_bd.rbd)

\* A frame in memory, with its buffers closed and its descriptor written.
InMemory ==
  /\ frame \in Frames /\ rfd \in Rfds
  /\ bd.rbd \in Closed /\ frame_bd.rbd \in Closed
  /\ buf_off \in Nat /\ buf_off <= Bd[bd.rbd].size
  /\ Taken(Fr[frame].len) + Room[bd.rbd] = Room[frame_bd.rbd] + buf_off
  /\ \A p \in DOMAIN written : Right(p, written[p])
  /\ \A i \in 0..(HdrMax - 1) : i < Fr[frame].len => <<rfd, 8 + i>> \in DOMAIN written
  /\ \A k \in 0..(buf_off - 1) : <<"BUF", Bd[bd.rbd].buf + k>> \in DOMAIN written
  /\ \A b \in Closed \ {bd.rbd} :
       /\ ~Bd[b].el /\ Bd[b].next \in Closed /\ Wrote(<<b, 0>>, Full(b))
       /\ \A k \in 0..(Bd[b].size - 1) : <<"BUF", Bd[b].buf + k>> \in DOMAIN written
  /\ Wrote(<<bd.rbd, 0>>, [count |-> buf_off, eof |-> TRUE])
  /\ Wrote(<<rfd, 6>>, frame_bd.rbd) /\ Wrote(<<rfd, 0>>, Faults(frame))

\* When FR is reported it is there.
MemoryInv == "FR" \in ru_ev /\ ~cut => InMemory

FiledIInv ==
  /\ OwnIInv /\ LandedInv /\ RightInv /\ CoverInv /\ ChainedInv /\ WholeInv /\ MemoryInv
=============================================================================
