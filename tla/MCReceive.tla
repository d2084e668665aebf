------------------------------ MODULE MCReceive ------------------------------
(***************************************************************************)
(* Receive frame areas and traffic for ReceiveSystem.                      *)
(***************************************************************************)
EXTENDS ReceiveInv

\* Two areas.  The first has two frame descriptors and three buffers: unaligned,
\* of one word, and of an odd length.  The second has a buffer for the first of
\* its two descriptors only.
AreaRfds  == {"r1", "r2", "r8", "r9"}
AreaHeads == {"r1", "r9"}
AreaRf ==
  [r \in AreaRfds |->
     CASE r = "r1" -> [list |-> "r1", link |-> "r2", rbd |-> "b1", el |-> FALSE]
       [] r = "r2" -> [list |-> "r1", link |-> "r1", rbd |-> Null, el |-> TRUE]
       [] r = "r9" -> [list |-> "r9", link |-> "r8", rbd |-> "b9", el |-> FALSE]
       [] r = "r8" -> [list |-> "r9", link |-> "r9", rbd |-> Null, el |-> TRUE]]

AreaRbds == {"b1", "b2", "b3", "b9"}
AreaBd ==
  [b \in AreaRbds |->
     CASE b = "b1" -> [list |-> "r1", next |-> "b2", buf |-> 2, size |-> 3, el |-> FALSE]
       [] b = "b2" -> [list |-> "r1", next |-> "b3", buf |-> 8, size |-> 4, el |-> FALSE]
       [] b = "b3" -> [list |-> "r1", next |-> "b1", buf |-> 13, size |-> 5, el |-> TRUE]
       [] b = "b9" -> [list |-> "r9", next |-> "b9", buf |-> 20, size |-> 8, el |-> TRUE]]

\* Frames.  With the whole frame in the buffers one fills two buffers of the
\* first area exactly, one is for a group that is not listened to, one is bad
\* and one too long for either area.  With headers in the descriptors the first
\* is too short, the second is all header, and the long one fills a buffer
\* exactly.  Of a runt only the end word is seen.
Frame(len, dst, err0) == [len |-> len, dst |-> dst, err |-> err0]
AreaFrames == {"fits", "group", "bad", "long", "runt"}
AreaFr ==
  [f \in AreaFrames |->
     CASE f = "fits"  -> Frame(7, "OURS", {})
       [] f = "runt"  -> Frame(0, "OURS", {"bad", "overrun"})
       [] f = "group" -> Frame(14, "GROUP", {})
       [] f = "bad"   -> Frame(6, "LISTED", {"bad", "dribble"})
       [] f = "long"  -> Frame(17, "BROADCAST", {})]

\* Whole frames in the buffers and bad ones dropped; headers in the descriptor
\* and bad ones saved.
PlainConfig == [al_loc |-> TRUE, promisc |-> FALSE, no_bcast |-> FALSE,
                mc_all |-> FALSE, save_bad |-> FALSE, min_len |-> 0]
HdrConfig == [al_loc |-> FALSE, promisc |-> FALSE, no_bcast |-> FALSE,
              mc_all |-> TRUE, save_bad |-> TRUE, min_len |-> 12]
AreaConfigs == {PlainConfig, HdrConfig}
PlainOnly   == {PlainConfig}

\* One frame that is kept, one that may not fit and one that is bad.
SomeFrames == {"fits", "long", "bad"}

AnyPulse  == {"START", "RESUME", "SUSPEND", "ABORT"}
NoAbort   == {"START", "RESUME", "SUSPEND"}
NoResets  == {}
ResetInFrame == {"RU_POP"}
=============================================================================
