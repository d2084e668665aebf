------------------------------ MODULE MdioProg ------------------------------
(***************************************************************************)
(* mdio_prog: after reset it writes the PHY's reset, waits for it to be    *)
(* over, or gives up waiting, writes what to advertise and starts the      *)
(* negotiation, all through wb_mdio's registers.  Each of its states is    *)
(* one bus access, and the bus answers before the next.                    *)
(***************************************************************************)
EXTENDS WbMdio

CONSTANTS PHY_ADDR, ResetPolls, ADV_VALUE, GIG_VALUE, ANEG_VALUE

ASSUME ProgAssumption ==
  /\ PHY_ADDR \in Registers /\ ResetPolls \in Nat \ {0}
  /\ {ADV_VALUE, GIG_VALUE, ANEG_VALUE} \subseteq Values
  /\ ~(BMCR_RESET \subseteq ANEG_VALUE)
  /\ MII_BMCR \notin {MII_ADVERTISE, MII_CTRL1000}

VARIABLE prog

NewProg == [state |-> "WR_DATA", step |-> 0, polls |-> 0, after_reset |-> FALSE,
            ready |-> FALSE, failed |-> FALSE]

step_reg == <<MII_BMCR, MII_ADVERTISE, MII_CTRL1000, MII_BMCR>>
step_val == <<BMCR_RESET, ADV_VALUE, GIG_VALUE, ANEG_VALUE>>
NSTEPS == 4

To(st) == [prog EXCEPT !.state = st]
NextStep == [To("WR_DATA") EXCEPT !.step = @ + 1, !.after_reset = FALSE]

\* A pulse of start_i; it is not looked at while the sequence runs.
StartAgain ==
  /\ prog.state = "IDLE"
  /\ prog' = NewProg /\ wb' = wb

WR_DATA ==
  /\ prog.state = "WR_DATA"
  /\ wb' = WriteWdata(step_val[prog.step + 1])
  /\ prog' = To("WR_CTRL")

WR_CTRL ==
  /\ prog.state = "WR_CTRL"
  /\ wb' = WriteCtrl(PHY_ADDR, step_reg[prog.step + 1], FALSE)
  /\ prog' = [To("WAIT_BUSY") EXCEPT !.after_reset = prog.step = 0]

AfterWrite ==
  IF prog.after_reset THEN To("RESET_WAIT")
  ELSE IF prog.step = NSTEPS - 1 THEN To("DONE") ELSE NextStep

WAIT_BUSY ==
  /\ prog.state = "WAIT_BUSY"
  /\ prog' = IF busy THEN prog ELSE AfterWrite
  /\ wb' = wb

RESET_WAIT == prog.state = "RESET_WAIT" /\ prog' = To("RD_CTRL") /\ wb' = wb

RD_CTRL ==
  /\ prog.state = "RD_CTRL"
  /\ wb' = WriteCtrl(PHY_ADDR, MII_BMCR, TRUE)
  /\ prog' = To("RD_WAIT")

RD_WAIT ==
  /\ prog.state = "RD_WAIT"
  /\ prog' = IF busy THEN prog ELSE To("RD_DATA")
  /\ wb' = wb

\* (Mutant: the reset is waited for without end.)
RD_DATAForEver ==
  /\ prog.state = "RD_DATA"
  /\ prog' = IF ~(BMCR_RESET \subseteq wb.rdata) THEN NextStep ELSE To("RESET_WAIT")
  /\ wb' = wb

\* Out of reset, or asked often enough: the rest of the sequence either way.
RD_DATA ==
  /\ prog.state = "RD_DATA"
  /\ prog' = IF ~(BMCR_RESET \subseteq wb.rdata) THEN NextStep
             ELSE IF prog.polls = ResetPolls - 1
             THEN [NextStep EXCEPT !.failed = TRUE]
             ELSE [To("RESET_WAIT") EXCEPT !.polls = @ + 1]
  /\ wb' = wb

DONE ==
  /\ prog.state = "DONE"
  /\ prog' = [To("IDLE") EXCEPT !.ready = TRUE] /\ wb' = wb

ProgStep == \/ WR_DATA \/ WR_CTRL \/ WAIT_BUSY \/ RESET_WAIT \/ RD_CTRL
            \/ RD_WAIT \/ RD_DATA \/ DONE
=============================================================================
