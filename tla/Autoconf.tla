------------------------------ MODULE Autoconf ------------------------------
(***************************************************************************)
(* Autoconfiguration of the NetBSD front-ends: ef (3C507) and ai (StarLAN) *)
(* on an ISA bus, ie on a Sun-2's and Sun-3's own bus and on a VME bus.    *)
(* The configuration's lines are tried in turn; a line that matches is     *)
(* attached at once.  What a line holds of the machine is what makes the   *)
(* next one fail.  I/O space is counted in slots of EF_IOSIZE ports from   *)
(* EF_IOBASE_LOW, card memory in steps of EF_MSIZE_STEP bytes.             *)
(***************************************************************************)
EXTENDS IeLayout, FiniteSetsExt

CONSTANTS
  Machines,  \* the sets of cards the ISA bus may have plugged in
  Confs,     \* the sequences of lines the configuration may be
  MaxCards,  \* MAXCARDS_PER_ISABUS
  Leftover,  \* cards that memory fresh from malloc may look like
  Wild       \* a wildcard in a line

\* Lines are numbered from one; no two cards share a port, and a card has up to
\* four steps of memory.
ASSUME AutoconfAssumption ==
  /\ MaxCards \in Nat
  /\ \A q \in Confs : DOMAIN q \subseteq Nat
  /\ \A m \in Machines : \A c, d \in m : /\ c # d => c.io # d.io
                                         /\ c.len \in 1..4

VARIABLES
  cards,  \* the cards plugged in
  conf,   \* the configuration
  at,     \* the line tried, and the card or size its match found
  bus,    \* ef's record of the bus: whether seen, its state, the cards to be had
  mode,   \* what the ID sequences have left the 3C507s in
  io,     \* I/O slots mapped, and by which line
  mem,    \* memory windows mapped, and by which line
  dma,    \* what a Sun line holds
  told,   \* the lines whose chip has been pointed at memory
  dev,    \* what became of each line
  sc      \* the geometry an attached line works with

vars == <<cards, conf, at, bus, mode, io, mem, dma, told, dev, sc>>

Nobody == -1   \* mapped, and the handle lost
STEP == 16384  \* EF_MSIZE_STEP
NoGeometry == [msize |-> 0]

Init ==
  /\ cards \in Machines /\ conf \in Confs
  /\ at = [line |-> 1, found |-> 0]
  /\ bus = [seen |-> FALSE, state |-> 0, listed |-> {}] /\ mode = "power"
  /\ io = {} /\ mem = {}
  /\ dma = [l \in DOMAIN conf |-> {}] /\ told = {}
  /\ dev = [l \in DOMAIN conf |-> "new"]
  /\ sc = [l \in DOMAIN conf |-> NoGeometry]

Line == conf[at.line]
Trying(drv) == at.line \in DOMAIN conf /\ dev[at.line] = "new" /\ Line.drv = drv
Attaching(drv) == at.line \in DOMAIN conf /\ dev[at.line] = "matched" /\ Line.drv = drv
Outcome(o) == dev' = [dev EXCEPT ![at.line] = o]
NextLine == at' = [line |-> at.line + 1, found |-> 0]
Found(x) == Outcome("matched") /\ at' = [line |-> at.line, found |-> x]
-----------------------------------------------------------------------------
\* bus_space_map gives a range only if nobody holds any of it.
IoFree(slot) == \A m \in io : m.slot # slot
Overlap(a, m, b, n) == a < b + n /\ b < a + m
MemFree(a, n) == \A m \in mem : ~Overlap(a, n, m.at, m.len)

Fits(want, have) == want = Wild \/ want = have

\* The chip behind a slot answers when the SCP, put at the top of the window,
\* is at the top of its card's memory, and a 3C507 only in RUN state.
Answers(slot, a, n) ==
  \E c \in cards : /\ c.io = slot /\ c.at = a /\ c.len = n /\ c.alive
                   /\ c.kind = "3C507" => mode' = "run"

\* (Mutant: the busy byte is not read back.)
proberamBlind(slot, a, n) == TRUE

\* i82586_proberam: reset, attention, and the ISCP's busy byte cleared.
proberam(slot, a, n) == Answers(slot, a, n)
-----------------------------------------------------------------------------
\* ef.

\* What the scan of the bus makes of a card: the signature, the memory not
\* above 15 MB, and the window to be had at this moment.
ef_port_check(c) == c.kind = "3C507"
Usable(c) == ef_port_check(c) /\ ~c.high /\ IoFree(c.io) /\ MemFree(c.at, c.len)
\* The scan goes through the ports in order while the table has free entries.
ef_card_add(found, room) ==
  {c \in found : Cardinality({d \in found : d.io < c.io}) < room}
Listed(c, left) == [card |-> c, left |-> left]

\* What is met on a bus not seen before: the ID port to be had or not, and a
\* table that malloc has not cleared.  Some of its entries may look like cards,
\* some may be free, some neither.
FirstLooks == {p \in [idPort : BOOLEAN, left : SUBSET Leftover, room : 0..MaxCards] :
                 Cardinality(p.left) + p.room <= MaxCards}

\* The record made of it.  With the ID port the cards are put in CONFIG state
\* and scanned.
NewBus(p) ==
  [seen |-> TRUE, state |-> IF p.idPort THEN 1 ELSE 0,
   listed |-> {Listed(c, TRUE) : c \in p.left}
                \cup {Listed(c, FALSE) : c \in
                        IF p.idPort THEN ef_card_add({c \in cards : Usable(c)}, p.room)
                                    ELSE {}}]

FitsLine(c) == Fits(Line.io, c.io) /\ Fits(Line.at, c.at) /\ Fits(Line.irq, c.irq)

\* The first entry that fits: scanned cards lie in order, left ones anywhere.
FirstOf(fit) ==
  {e \in fit : e.left \/ \A f \in fit : f.left \/ e.card.io <= f.card.io}

\* The first line to be tried lists the cards, or fails for want of the ID port;
\* a bus seen is not looked at again.
ef_match ==
  /\ Trying("ef")
  /\ \E b \in IF bus.seen THEN {bus} ELSE {NewBus(p) : p \in FirstLooks} :
       LET fit == IF bus.seen \/ b.state = 1
                  THEN {e \in b.listed : FitsLine(e.card)} ELSE {}
       IN  /\ mode' = IF ~bus.seen /\ b.state = 1 THEN "config" ELSE mode
           /\ \/ /\ fit = {} /\ bus' = b
                 /\ Outcome("unmatched") /\ NextLine
              \/ \E e \in FirstOf(fit) :
                   bus' = [b EXCEPT !.listed = @ \ {e}] /\ Found(e)
  /\ UNCHANGED <<cards, conf, io, mem, dma, told, sc>>

\* The windows are given back when the chip does not answer.
ProbeFailed(slot, a, n) == UNCHANGED <<io, mem>>

\* Both windows, the pointers and the chip's answer: what ef_attach and
\* ai_attach do alike.
IsaAttach(slot, a, n) ==
  \/ ~IoFree(slot) /\ Outcome("failed") /\ UNCHANGED <<io, mem, sc>>
  \/ /\ IoFree(slot) /\ ~MemFree(a, n)
     /\ Outcome("failed") /\ UNCHANGED <<io, mem, sc>>
  \/ /\ IoFree(slot) /\ MemFree(a, n) /\ ~proberam(slot, a, n)
     /\ ProbeFailed(slot, a, n)
     /\ Outcome("failed") /\ UNCHANGED sc
  \/ /\ IoFree(slot) /\ MemFree(a, n) /\ proberam(slot, a, n)
     /\ io' = io \cup {[slot |-> slot, by |-> at.line]}
     /\ mem' = mem \cup {[at |-> a, len |-> n, by |-> at.line]}
     /\ sc' = [sc EXCEPT ![at.line] = IsaGeometry(n * STEP)]
     /\ Outcome("attached")

\* The first to attach moves the cards to RUN state; without the ID port the
\* line comes to nothing, and its card stays claimed.
ef_attach ==
  /\ Attaching("ef")
  /\ LET c == at.found.card
     IN  \E idPort \in BOOLEAN :
           \/ /\ bus.state = 1 /\ ~idPort
              /\ Outcome("failed") /\ UNCHANGED <<bus, mode, io, mem, sc>>
           \/ /\ bus.state = 1 => idPort
              /\ bus' = [seen |-> TRUE, listed |-> bus.listed,
                         state |-> IF bus.state = 1 THEN 2 ELSE bus.state]
              /\ mode' = IF bus.state = 1 THEN "run" ELSE mode
              /\ IsaAttach(c.io, c.at, c.len)
  /\ NextLine
  /\ UNCHANGED <<cards, conf, dma, told>>
-----------------------------------------------------------------------------
\* ai.

\* ai_find_mem_size tries the windows from 64K down until one can be mapped,
\* and none after it: what the chip makes of that one overwrites the size
\* the loop counts with.
WindowTried(slot, a) ==
  LET can == {n \in 1..4 : MemFree(a, n)}
  IN  IF can = {} THEN 0 ELSE Max(can)

check_ie_present(slot, a, n) == proberam(slot, a, n)

\* A board code at the port, and a chip that answers in the window tried.  A
\* window whose chip does not answer is unmapped with the size 0: it stays.
ai_match ==
  /\ Trying("ai") /\ mode' = mode
  /\ LET known == /\ Wild \notin {Line.io, Line.at, Line.irq} /\ IoFree(Line.io)
                  /\ \E c \in cards : c.io = Line.io /\ c.kind = "StarLAN"
         n == WindowTried(Line.io, Line.at)
         there == known /\ n > 0 /\ check_ie_present(Line.io, Line.at, n)
     IN  /\ mem' = IF known /\ n > 0 /\ ~there
                   THEN mem \cup {[at |-> Line.at, len |-> n, by |-> Nobody]}
                   ELSE mem
         /\ IF there /\ Line.len \in {0, n}
            THEN Found(n)
            ELSE Outcome("unmatched") /\ NextLine
  /\ UNCHANGED <<cards, conf, bus, io, dma, told, sc>>

ai_attach ==
  /\ Attaching("ai") /\ mode' = mode
  /\ IsaAttach(Line.io, Line.at, at.found)
  /\ NextLine
  /\ UNCHANGED <<cards, conf, bus, dma, told>>
-----------------------------------------------------------------------------
\* The Suns' own interface.

\* Something answers at the address, or not; what was mapped to look is
\* unmapped.
Looked ==
  /\ \/ Found(0)
     \/ Outcome("unmatched") /\ NextLine
  /\ UNCHANGED <<cards, conf, bus, mode, io, mem, dma, told, sc>>

obio2_match == Trying("sun2") /\ Looked
obio3_match == Trying("sun3") /\ Looked
vme_match == Trying("vme") /\ Looked

\* (Mutant: the memory is freed when the chip does not answer.)
LeftByFreed(stage) ==
  IF stage = "create" THEN {"regs"} ELSE {"regs", "dmamap"}

\* What the stage that fails leaves held: memory and mapping are given back
\* until the chip has been pointed at them, the registers and the DMA map
\* never.
LeftBy(stage) ==
  CASE stage = "create"                -> {"regs"}
    [] stage \in {"alloc", "map", "load"} -> {"regs", "dmamap"}
    [] OTHER                           -> {"regs", "dmamap", "memory", "kva"}

\* Where the memory may lie in the chip's space.
IEBASES == {0, 1048576}

sun2_attach ==
  /\ Attaching("sun2")
  /\ \E stage \in {"create", "alloc", "map", "load", "probe"} :
       /\ dma' = [dma EXCEPT ![at.line] = LeftBy(stage)]
       /\ told' = IF stage = "probe" THEN told \cup {at.line} ELSE told
       /\ \/ Outcome("failed") /\ UNCHANGED sc
          \/ /\ stage = "probe" /\ Outcome("attached")
             /\ \E iebase \in IEBASES :
                  sc' = [sc EXCEPT ![at.line] = ObioGeometry(2048, iebase)]
  /\ NextLine
  /\ UNCHANGED <<cards, conf, bus, mode, io, mem>>

\* A Sun-3 takes memory from the DVMA space, or panics; on the VME board the
\* 64K lie where its status word says.  Neither can fail afterwards.
Sun3Holds ==
  /\ dma' = [dma EXCEPT ![at.line] = {"regs", "memory"}]
  /\ told' = told \cup {at.line}
  /\ Outcome("attached") /\ NextLine
  /\ UNCHANGED <<cards, conf, bus, mode, io, mem, sc>>

obio3_attach == Attaching("sun3") /\ Sun3Holds
vme_attach == Attaching("vme") /\ Sun3Holds

Done == at.line \notin DOMAIN conf /\ UNCHANGED vars

Next == \/ ef_match \/ ef_attach \/ ai_match \/ ai_attach
        \/ obio2_match \/ obio3_match \/ vme_match
        \/ sun2_attach \/ obio3_attach \/ vme_attach \/ Done

Spec == Init /\ [][Next]_vars
-----------------------------------------------------------------------------
Attached(drv) == {l \in DOMAIN conf : dev[l] = "attached" /\ conf[l].drv = drv}
OnIsa == Attached("ef") \cup Attached("ai")

\* Each line attached on the ISA bus has a card of its own, alive, whose slot
\* and whole memory it holds, and that memory is laid out soundly: the chip finds
\* the buffers where the driver put them (if_ef.c's list of cards, the probes,
\* i82586_setup_bufs, ef_write_24).  It is a card of the driver's kind, unless
\* ef's table was found to describe it.
LikeLeftover(c) == \E d \in Leftover : d.io = c.io /\ d.at = c.at /\ d.len = c.len
CardOfItsOwn ==
  \A l \in OnIsa : \E c \in cards :
    /\ c.alive
    /\ IF conf[l].drv = "ef" THEN c.kind = "3C507" \/ LikeLeftover(c)
                             ELSE c.kind = "StarLAN"
    /\ {m \in io : m.by = l} = {[slot |-> c.io, by |-> l]}
    /\ {m \in mem : m.by = l} = {[at |-> c.at, len |-> c.len, by |-> l]}
    /\ sc[l].msize = c.len * STEP /\ LayoutSound(sc[l]) /\ BuffersReached(sc[l])

\* On the ISA bus only an attached line holds anything, but for the windows
\* ai_find_mem_size loses; a Sun-2's memory is kept exactly as long as its
\* chip has been pointed at it (the attach routines' error paths).
HoldingsBalanced ==
  /\ {m.by : m \in io} = OnIsa
  /\ {m.by : m \in mem} \ {Nobody} = OnIsa
  /\ \A l \in DOMAIN conf : l \in told <=> "memory" \in dma[l]
-----------------------------------------------------------------------------
\* The inductive invariant behind both.  Lines still to come hold nothing; what
\* is listed is a 3C507 plugged in or was left in the table; the line being
\* attached has matched one of these, or a StarLAN board at its port.
LinesInv ==
  /\ cards \in Machines /\ conf \in Confs
  /\ at.line \in Nat
  /\ DOMAIN dev = DOMAIN conf /\ DOMAIN sc = DOMAIN conf /\ DOMAIN dma = DOMAIN conf
  /\ \A l \in DOMAIN conf :
       /\ l > at.line => dev[l] = "new"
       /\ l >= at.line => dev[l] # "attached" /\ l \notin told /\ dma[l] = {}
Known(e) == IF e.left THEN e.card \in Leftover
                      ELSE e.card \in cards /\ e.card.kind = "3C507"
MatchInv ==
  /\ \A e \in bus.listed : Known(e)
  /\ Attaching("ef") => Known(at.found)
  /\ Attaching("ai") => \E c \in cards : c.io = Line.io /\ c.kind = "StarLAN"
AutoconfIInv == LinesInv /\ MatchInv /\ CardOfItsOwn /\ HoldingsBalanced
=============================================================================
