------------------------------ MODULE ScbTypes ------------------------------
(***************************************************************************)
(* The vocabulary of the System Control Block: the words the driver and    *)
(* the chip exchange through shared memory, by their fields.  Bit          *)
(* positions are left out; what is kept is what the chip's decisions and   *)
(* the properties tell apart.                                              *)
(***************************************************************************)

\* The four event flags of the SCB status word, bits 15 to 12.
Flags == {"CX", "FR", "CNA", "RNR"}

\* What a command word can ask of a unit.  The three encodings the package
\* does not name do nothing, exactly like NOP.
Controls == {"NOP", "START", "RESUME", "SUSPEND", "ABORT"}

CuStates == {"IDLE", "SUSPENDED", "ACTIVE"}
RuStates == {"IDLE", "SUSPENDED", "NO_RESOURCE", "READY"}

\* The SCB command word: acknowledge bits, unit controls, software reset.
Commands == [ack : SUBSET Flags, cuc : Controls, ruc : Controls, reset : BOOLEAN]

\* The all-zero command word: what the chip writes to say "taken".
NoCommand == [ack |-> {}, cuc |-> "NOP", ruc |-> "NOP", reset |-> FALSE]

\* The SCB status word.
Statuses == [flags : SUBSET Flags, cus : CuStates, rus : RuStates]

\* The all-zero status word.
ZeroStatus == [flags |-> {}, cus |-> "IDLE", rus |-> "IDLE"]
=============================================================================
