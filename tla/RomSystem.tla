------------------------------ MODULE RomSystem ------------------------------
(***************************************************************************)
(* A boot PROM driver, its chip, the network, and the program that boots:  *)
(* it opens the interface, sends, polls again and again, resets, closes.   *)
(***************************************************************************)
EXTENDS RomPort

Sun2 == INSTANCE Sun2Rom
Sun3 == INSTANCE Sun3Rom

CONSTANTS
  SlowFrames,  \* received, and sent, at most, where the handler may be slow
  MaxFaults    \* resets that fail, lockups, early timeouts, openings

ASSUME SystemAssumption == SlowFrames \in Nat /\ MaxFaults \in Nat

vars == <<portVars, romVars>>

\* What the program finds: the boards come out of power-on in reset, off the
\* wire.
Init ==
  /\ scb = ZeroScb /\ busy = FALSE
  /\ rfds = [f \in Rfds |-> BlankRfd]
  /\ rbds = [b \in Rbds |-> BlankRbd]
  /\ cbs = [c \in Cbs |-> BlankCb]
  /\ ch = HeldChip
  /\ filed = <<>> /\ owed = <<>> /\ wire = 0
  /\ \E kind \in Kinds, prompt \in Speeds : es = Softc(kind, prompt)
  /\ th = AtRest /\ faults = MaxFaults

-----------------------------------------------------------------------------
\* The program.

Open ==
  /\ At("idle") /\ ~es.open /\ faults > 0
  /\ faults' = faults - 1
  /\ th' = Call([th EXCEPT !.tries = Tries], "open", "opened")
  /\ UNCHANGED <<portVars, es>>

\* The program's third entry point is iereset itself.
ResetAgain ==
  /\ At("idle") /\ es.open /\ faults > 0
  /\ faults' = faults - 1
  /\ th' = Call([th EXCEPT !.tries = Tries], "reset", "idle")
  /\ UNCHANGED <<portVars, es>>

Close ==
  /\ At("idle") /\ es.open
  /\ th' = Goto("close")
  /\ UNCHANGED <<portVars, es, faults>>

Send ==
  /\ At("idle") /\ es.open /\ es.sent < Sends
  /\ es.prompt \/ es.sent < SlowFrames
  /\ es' = [es EXCEPT !.sent = @ + 1]
  /\ th' = [Call(th, "xmit", "idle") EXCEPT !.frame = es.sent]
  /\ UNCHANGED <<portVars, faults>>

Poll ==
  /\ At("idle") /\ es.open
  /\ th' = Call(th, "poll", "idle")
  /\ UNCHANGED <<portVars, es, faults>>

Program == Open \/ ResetAgain \/ Close \/ Send \/ Poll

-----------------------------------------------------------------------------
Driver == \/ es.kind \in {"mb", "ob"} /\ Sun2!Driver
          \/ es.kind = "3280" /\ Sun3!Driver

Chip == ChipStep /\ UNCHANGED romVars

\* Frames come only off the wire.
Network ==
  /\ es.wire /\ (es.prompt \/ wire < SlowFrames)
  /\ \E len \in 1..MaxLen : Arrive(len)
  /\ UNCHANGED romVars

\* The chip hangs.
Lockup ==
  /\ ch.up /\ ~ch.deaf /\ faults > 0
  /\ faults' = faults - 1
  /\ ch' = [ch EXCEPT !.deaf = TRUE]
  /\ UNCHANGED <<mem, ghosts, es, th>>

Next == Driver \/ Program \/ Chip \/ Network \/ Lockup

\* The chip's units run by themselves, a call once made runs on, and the
\* program polls for as long as the interface is open.
Fairness ==
  /\ WF_vars(Handler /\ UNCHANGED romVars)
  /\ WF_vars(CommandUnit /\ UNCHANGED romVars)
  /\ WF_vars(Filing /\ UNCHANGED romVars)
  /\ WF_vars(Driver) /\ WF_vars(Poll)

Spec == Init /\ [][Next]_vars /\ Fairness

-----------------------------------------------------------------------------
\* Properties.

\* The two waits of the Sun-2/120 nothing ends: for a chip that has locked up,
\* and for a command whose word the handler cleared before reading it.
Stuck == es.kind # "3280" /\ (~es.prompt \/ (ch.up /\ ch.deaf))

\* What iepoll copies is one frame, whole, that it has not handed over before,
\* and nothing is being received into the buffer meanwhile.  (When the chip has
\* locked up the Sun-3 ignores that ierustart timed out and hands it over again.)
CopiesOneWhole ==
  At("poll.copy") =>
    /\ rbds[0].last /\ rbds[0].data.part = 1
    /\ ~ch.deaf => filed # <<>> /\ rbds[0].data.id = Head(filed).id
    /\ ~ch.deaf => rbds[0].data.id > es.handed
    /\ ~(ch.rx \in {"fill", "file"} /\ ch.first = 0)

\* Rewriting the descriptor throws no frame away that was filed and could have
\* been handed over.
ThrowsNoneAway == At("ru.frame") => \A k \in DOMAIN filed : filed[k].len > 1

\* With a prompt handler a poll hands over each frame it can, once and whole.
PolledWhole == es.prompt => CopiesOneWhole /\ ThrowsNoneAway

\* Until a reset chip has taken its first attention, its interface is in
\* loopback: "the chip does random things if its 'wire' is active between the
\* time it's reset and the first CA".
QuietWire == es.wire => ch.up \/ es.held

\* iexmit says a frame went out only when it did, unless it ever gave up too
\* early on another one.
SentAsReported ==
  At("xmit.end") /\ th.ok /\ ~es.early =>
    \A k \in DOMAIN owed : owed[k] # th.frame

\* The receiver's buffers are not touched while it may be using them.
BuffersOurs == At("ru.wait") \/ At("ru.frame") => ch.rus # "READY"

\* Every call of the driver's returns.
CallsReturn == ~At("idle") ~> (At("idle") \/ Stuck)
=============================================================================
