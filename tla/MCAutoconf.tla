----------------------------- MODULE MCAutoconf -----------------------------
(***************************************************************************)
(* Cards that share windows or overlap, one dead, one above 15 MB, and     *)
(* StarLAN boards of 64K and of less; lines that name a card, any card, or *)
(* none there is.  The table malloc gives ef may describe a StarLAN board.  *)
(***************************************************************************)
EXTENDS Autoconf

CONSTANT wild

Ef(slot, a, n, irq) == [kind |-> "3C507", io |-> slot, at |-> a, len |-> n,
                        irq |-> irq, alive |-> TRUE, high |-> FALSE]
Ai(slot, a, n) == [Ef(slot, a, n, 5) EXCEPT !.kind = "StarLAN"]

AllCards == {Ef(1, 0, 2, 3), Ef(3, 1, 4, 5), [Ef(5, 4, 4, 3) EXCEPT !.alive = FALSE],
            [Ef(6, 6, 1, 3) EXCEPT !.high = TRUE],
            Ai(7, 2, 4), Ai(9, 0, 2), [Ai(11, 4, 4) EXCEPT !.alive = FALSE]}

EfLine(slot, a, irq) == [drv |-> "ef", io |-> slot, at |-> a, irq |-> irq, len |-> 0]
AiLine(slot, a, n) == [drv |-> "ai", io |-> slot, at |-> a, irq |-> 5, len |-> n]
SunLine(drv) == [drv |-> drv, io |-> 0, at |-> 0, irq |-> 3, len |-> 0]

IsaLines == {EfLine(wild, wild, wild), EfLine(3, wild, 5), EfLine(wild, 4, wild),
            AiLine(7, 2, 0), AiLine(9, 0, 2), AiLine(11, 4, 0), AiLine(wild, 2, 0)}
MCLeftover == {[io |-> 7, at |-> 2, len |-> 4, irq |-> 5],
               [io |-> 3, at |-> 4, len |-> 3, irq |-> 5]}
MCMachines == {m \in SUBSET AllCards : Cardinality(m) >= 6}
MCConfs == [1..3 -> IsaLines]
             \cup {<<SunLine("sun2"), SunLine("sun3"), SunLine("vme"), SunLine("sun2")>>}
=============================================================================
