----------------------------- MODULE ReceiveUnit -----------------------------
(***************************************************************************)
(* What ie_ru promises the SCB handler: the state it reports, the events   *)
(* it pulses, and how the control pulses move it.                          *)
(***************************************************************************)
EXTENDS ScbTypes

VARIABLES
  core_rst,  \* input: reset
  ru_ctl,    \* input: control pulse from the SCB handler
  rus,       \* output: state, as RUS in the status word
  ru_ev      \* output: events pulsed this cycle, FR and RNR

RuTypeOK == rus \in RuStates /\ ru_ev \in SUBSET {"FR", "RNR"}

RuInit == rus = "IDLE" /\ ru_ev = {}

RuReset == core_rst /\ rus' = "IDLE" /\ ru_ev' = {}

\* An abort takes the unit to IDLE from anywhere.  It reports RNR unless the
\* sequencer was in RU_IDLE, which is where a suspended unit waits too.
RuAbort ==
  /\ ru_ctl = "ABORT"
  /\ rus' = "IDLE"
  /\ ru_ev' = IF rus \in {"READY", "NO_RESOURCE"} THEN {"RNR"} ELSE {}

\* Not receiving: START, or RESUME after a suspension or for lack of
\* resources, sets the unit going.
RuControl ==
  /\ ru_ctl # "ABORT"
  /\ rus # "READY"
  /\ rus' = CASE ru_ctl = "START" -> "READY"
              [] ru_ctl = "RESUME" /\ rus # "IDLE" -> "READY"
              [] OTHER -> rus
  /\ ru_ev' = {}

\* Receiving: a frame may be filed and reported with FR.
RuReceive ==
  /\ ru_ctl # "ABORT"
  /\ rus = "READY"
  /\ rus' = "READY"
  /\ ru_ev' \in {{}, {"FR"}}

\* Receiving stops: a list ended or the unit suspends, both with RNR.
RuStop ==
  /\ ru_ctl # "ABORT"
  /\ rus = "READY"
  /\ rus' \in {"NO_RESOURCE", "SUSPENDED"}
  /\ ru_ev' = {"RNR"}

\* A descriptor without a buffer descriptor stops it without an event.
RuStarve ==
  /\ ru_ctl # "ABORT"
  /\ rus = "READY"
  /\ rus' = "NO_RESOURCE"
  /\ ru_ev' = {}

RuEdge ==
  \/ RuReset
  \/ ~core_rst /\ (RuAbort \/ RuControl \/ RuReceive \/ RuStop \/ RuStarve)
=============================================================================
