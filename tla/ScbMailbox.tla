----------------------------- MODULE ScbMailbox -----------------------------
(***************************************************************************)
(* What the SCB command word promises the driver, as an abstract mailbox:  *)
(* a command is taken once, is cleared only after it was taken, and a box  *)
(* that is not torn down by a reset is always emptied in the end.          *)
(***************************************************************************)
VARIABLE box

BoxStates == {"EMPTY", "POSTED", "TAKEN", "DOWN"}

Init == box = "DOWN"

Post  == box = "EMPTY"  /\ box' = "POSTED"   \* the driver writes the word
Take  == box = "POSTED" /\ box' = "TAKEN"    \* the chip reads it
Clear == box = "TAKEN"  /\ box' = "EMPTY"    \* the chip writes it to zero
Down  == box' = "DOWN"                       \* the driver resets the chip
Up    == box = "DOWN"   /\ box' = "EMPTY"    \* and builds the SCB again

Next == Post \/ Take \/ Clear \/ Down \/ Up

Spec == Init /\ [][Next]_box

FairSpec == Spec /\ WF_box(Take) /\ WF_box(Clear)
=============================================================================
