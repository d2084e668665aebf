----------------------------- MODULE CommandUnit -----------------------------
(***************************************************************************)
(* What ie_cu promises the SCB handler: the state it reports, the events   *)
(* it pulses, and how the control pulses move it.  Which block it is       *)
(* working on, and for how long, is left open.                             *)
(***************************************************************************)
EXTENDS ScbTypes

VARIABLES
  core_rst,  \* input: reset
  cu_ctl,    \* input: control pulse from the SCB handler
  cus,       \* output: state, as CUS in the status word
  cu_ev      \* output: events pulsed this cycle, CX and CNA

CuTypeOK == cus \in CuStates /\ cu_ev \in SUBSET {"CX", "CNA"}

CuInit == cus = "IDLE" /\ cu_ev = {}

CuReset == core_rst /\ cus' = "IDLE" /\ cu_ev' = {}

\* Not active: only START and RESUME set the unit going, and only ABORT
\* makes it forget where it was suspended.
CuControl ==
  /\ cus # "ACTIVE"
  /\ cus' = CASE cu_ctl = "START" -> "ACTIVE"
              [] cu_ctl = "RESUME" /\ cus = "SUSPENDED" -> "ACTIVE"
              [] cu_ctl = "ABORT" -> "IDLE"
              [] OTHER -> cus
  /\ cu_ev' = {}

\* Active: work goes on, with CX pulsed as a block that asked for it is done.
CuWork ==
  /\ cus = "ACTIVE"
  /\ cus' = "ACTIVE"
  /\ cu_ev' \in {{}, {"CX"}}

\* Active: the list ended, was aborted, or suspends here.
CuStop ==
  /\ cus = "ACTIVE"
  /\ cus' \in {"IDLE", "SUSPENDED"}
  /\ cu_ev' = {"CNA"}

CuEdge == CuReset \/ (~core_rst /\ (CuControl \/ CuWork \/ CuStop))
=============================================================================
