-------------------------------- MODULE MiiTx --------------------------------
(***************************************************************************)
(* mii_tx: the transmitter, in the clock domain of the PHY, at the width   *)
(* that sends a byte per symbol (GMII).  One edge of tx_clk.               *)
(*                                                                         *)
(* Counters that only measure time - the interframe gap, the preamble, the *)
(* jam, the backoff, the four symbols of the FCS - are left open: such a   *)
(* state lasts for some number of symbols.                                 *)
(***************************************************************************)
EXTENDS Naturals

CONSTANTS
  DeferLimit,  \* symbols of continuous carrier before giving up; 0 is never
  RetryLimit   \* collisions retried before giving up

VARIABLES
  state, go_s1, go_s2,
  idx,         \* byte being sent
  attempt, deferred, defer_ctr,
  done, ok,
  report,      \* collisions counted, gave up, had to wait
  txd,         \* output register: enable, and what the symbol is
  \* input wires
  rst, go, len, min_len, no_crc, ram_q

txVars == <<state, go_s1, go_s2, idx, attempt, deferred, defer_ctr, done, ok,
            report, txd>>

States == {"T_IDLE", "T_DEFER", "T_PREAMBLE", "T_DATA", "T_FCS", "T_END",
           "T_JAM", "T_BACKOFF", "T_DONE"}

Quiet == [en |-> FALSE, sym |-> "NONE"]
Symbol(s) == [en |-> TRUE, sym |-> s]
NoReport == [xcoll |-> FALSE, defer |-> FALSE, ncoll |-> 0]

TxInit ==
  /\ state = "T_IDLE" /\ go_s1 = FALSE /\ go_s2 = FALSE /\ idx = 0
  /\ attempt = 0 /\ deferred = FALSE /\ defer_ctr = 0
  /\ done = FALSE /\ ok = FALSE /\ report = NoReport
  /\ txd = Quiet

\* The frame goes out at least min_len bytes long, FCS included.
PadLen  == IF min_len > 4 THEN min_len - 4 ELSE 0
SendLen == IF len > PadLen THEN len ELSE PadLen
Pad == [of |-> "PAD", n |-> 0]
CurByte == IF idx >= len THEN Pad ELSE ram_q

\* The byte after the one being sent, so that the registered read has landed
\* by the time it is needed.  (Mutant: the byte being sent.)
RamAddrLate == idx
RamAddr == IF state = "T_DATA" THEN idx + 1 ELSE idx

Goto(s) == state' = s
Attempt == <<attempt, deferred, defer_ctr, report>>
Outcome == <<done, ok>>

Idle ==
  /\ state = "T_IDLE"
  /\ txd' = Quiet
  /\ IF go_s2 /\ ~done
     THEN /\ attempt' = 0 /\ deferred' = FALSE /\ defer_ctr' = 0
          /\ report' = [report EXCEPT !.ncoll = 0, !.xcoll = FALSE]
          /\ Goto("T_DEFER")
     ELSE UNCHANGED <<state, Attempt>>
  /\ UNCHANGED <<idx, Outcome>>

\* Wait for the medium to go quiet, then let the gap pass.  Carrier that never
\* goes away is reported as excessive collisions.
DeferBusy ==
  /\ deferred' = TRUE
  /\ IF DeferLimit # 0 /\ defer_ctr = DeferLimit
     THEN /\ report' = [report EXCEPT !.xcoll = TRUE]
          /\ defer_ctr' = 0
          /\ Goto("T_DONE")
     ELSE /\ defer_ctr' = IF DeferLimit = 0 THEN 0 ELSE defer_ctr + 1
          /\ UNCHANGED <<state, report>>
  /\ UNCHANGED <<attempt, idx>>

DeferQuiet ==
  /\ defer_ctr' = 0
  /\ \/ UNCHANGED <<state, idx>>
     \/ Goto("T_PREAMBLE") /\ idx' = 0
  /\ UNCHANGED <<attempt, deferred, report>>

Defer(crs) ==
  /\ state = "T_DEFER"
  /\ IF crs THEN DeferBusy ELSE DeferQuiet
  /\ UNCHANGED <<txd, Outcome>>

Preamble(col) ==
  /\ state = "T_PREAMBLE"
  /\ txd' = Symbol("PREAMBLE")
  /\ IF col THEN Goto("T_JAM") ELSE Goto("T_DATA") \/ UNCHANGED state
  /\ UNCHANGED <<idx, Attempt, Outcome>>

Data(col) ==
  /\ state = "T_DATA"
  /\ txd' = Symbol(CurByte)
  /\ IF col THEN Goto("T_JAM") /\ UNCHANGED idx
     ELSE IF idx + 1 >= SendLen
          THEN Goto(IF no_crc THEN "T_END" ELSE "T_FCS") /\ UNCHANGED idx
     ELSE idx' = idx + 1 /\ UNCHANGED state
  /\ UNCHANGED <<Attempt, Outcome>>

Fcs(col) ==
  /\ state = "T_FCS"
  /\ txd' = Symbol("FCS")
  /\ IF col THEN Goto("T_JAM") ELSE Goto("T_END") \/ UNCHANGED state
  /\ UNCHANGED <<idx, Attempt, Outcome>>

\* The last symbol is on the wire during this cycle.
End ==
  /\ state = "T_END"
  /\ txd' = Quiet
  /\ Goto("T_DONE")
  /\ UNCHANGED <<idx, Attempt, Outcome>>

Collided == [report EXCEPT !.ncoll = IF @ = 15 THEN 15 ELSE @ + 1]

\* (Mutant: giving up is not recorded.)
GiveUpQuietly == report' = Collided
GiveUp == report' = [Collided EXCEPT !.xcoll = TRUE]

\* Keep transmitting so that everyone sees the collision, then try again.
Jam ==
  /\ state = "T_JAM"
  /\ \/ txd' = Symbol("JAM") /\ UNCHANGED <<state, attempt, report>>
     \/ /\ txd' = Quiet
        /\ IF attempt >= RetryLimit
           THEN GiveUp /\ Goto("T_DONE") /\ UNCHANGED attempt
           ELSE /\ report' = Collided
                /\ attempt' = attempt + 1
                /\ Goto("T_BACKOFF")
  /\ UNCHANGED <<idx, deferred, defer_ctr, Outcome>>

Backoff ==
  /\ state = "T_BACKOFF"
  /\ txd' = Quiet
  /\ Goto("T_DEFER") \/ UNCHANGED state
  /\ UNCHANGED <<idx, Attempt, Outcome>>

\* Done is up until go has come down.
DoneHolds ==
  IF ~go_s2 THEN done' = FALSE /\ Goto("T_IDLE") /\ UNCHANGED ok
            ELSE done' = TRUE /\ ok' = ~report.xcoll /\ UNCHANGED state

Done ==
  /\ state = "T_DONE"
  /\ txd' = Quiet
  /\ report' = [report EXCEPT !.defer = deferred]
  /\ DoneHolds
  /\ UNCHANGED <<idx, attempt, deferred, defer_ctr>>

Sync == go_s1' = go /\ go_s2' = go_s1

TxReset ==
  /\ rst
  /\ state' = "T_IDLE" /\ go_s1' = FALSE /\ go_s2' = FALSE /\ idx' = 0
  /\ attempt' = 0 /\ deferred' = FALSE /\ defer_ctr' = 0
  /\ done' = FALSE /\ ok' = FALSE /\ report' = NoReport
  /\ txd' = Quiet

TxEdge(crs, col) ==
  \/ TxReset
  \/ /\ ~rst
     /\ Sync
     /\ \/ Idle \/ Defer(crs) \/ Preamble(col) \/ Data(col) \/ Fcs(col) \/ End
        \/ Jam \/ Backoff \/ Done
=============================================================================
