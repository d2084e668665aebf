------------------------------ MODULE RomProof ------------------------------
(***************************************************************************)
(* The PROM drivers' theorems, for any number of attempts, frames, faults  *)
(* and any length of a frame, on all three boards.  First what is left of  *)
(* a sequence; then the calls; then iexmit; then, with a prompt handler,   *)
(* iepoll and ierustart; then the wire after a reset.                      *)
(***************************************************************************)
EXTENDS RomSystem, SequenceTheorems, FiniteSetTheorems, WellFoundedInduction, TLAPS

\* Any set of natural numbers that is not empty has a least member: the initial
\* segments up to its members have one under inclusion.
LEMMA LeastNatural ==
  ASSUME NEW S \in SUBSET Nat, S # {}
  PROVE  \E m \in S : \A k \in S : m <= k
<1> DEFINE T == {0..n : n \in S}
           R == StrictSubsetOrdering(Nat)
<1>1. T \subseteq FiniteSubsetsOf(Nat)
  <2> SUFFICES ASSUME NEW n \in S PROVE 0..n \in FiniteSubsetsOf(Nat)
    OBVIOUS
  <2>1. IsFiniteSet(0..n) BY FS_Interval
  <2> QED BY <2>1 DEF FiniteSubsetsOf
<1>2. T # {}
  OBVIOUS
<1>3. IsWellFoundedOn(R, FiniteSubsetsOf(Nat))
  BY FS_StrictSubsetOrderingWellFounded
<1>4. PICK x \in T : \A y \in T : ~(<<y, x>> \in R)
  <2> HIDE DEF T, R
  <2> QED BY <1>1, <1>2, <1>3, WFMin
<1>5. PICK m \in S : x = 0..m
  OBVIOUS
<1>6. ASSUME NEW k \in S, k < m PROVE FALSE
  <2>1. m \in 0..m /\ m \notin 0..k BY <1>6
  <2>2. 0..k \subseteq 0..m BY <1>6
  <2>3. 0..k \in SUBSET Nat /\ 0..m \in SUBSET Nat OBVIOUS
  <2>4. <<0..k, 0..m>> \in R
    BY <2>1, <2>2, <2>3 DEF StrictSubsetOrdering
  <2> QED BY <1>4, <1>5, <2>4
<1> QED BY <1>6

\* Induction: a set with zero and the successor of each of its members is Nat.
LEMMA Induction ==
  ASSUME NEW S \in SUBSET Nat, 0 \in S, \A n \in S : n + 1 \in S
  PROVE  S = Nat
<1> SUFFICES ASSUME Nat \ S # {} PROVE FALSE
  OBVIOUS
<1>1. PICK m \in Nat \ S : \A k \in Nat \ S : m <= k
  BY LeastNatural
<1>2. m - 1 \in Nat /\ ~(m <= m - 1)
  OBVIOUS
<1> QED BY <1>1, <1>2

\* One more element of s is looked at.
More(s, gone, n, t) == IF s[n] \in gone THEN t ELSE Append(t, s[n])
IsKept(f, s, gone, n) ==
  f = [k \in 0..n |-> IF k = 0 THEN <<>> ELSE More(s, gone, k, f[k - 1])]

LEMMA KeptExists ==
  ASSUME NEW S, NEW s \in Seq(S), NEW gone, NEW m \in 0..Len(s)
  PROVE  \E f : IsKept(f, s, gone, m)
<1> DEFINE Good == {n \in Nat : n <= Len(s) => \E f : IsKept(f, s, gone, n)}
<1>1. 0 \in Good
  <2>1. IsKept([k \in 0..0 |-> <<>>], s, gone, 0)
    BY DEF IsKept
  <2> QED BY <2>1
<1>2. ASSUME NEW n \in Good PROVE n + 1 \in Good
  <2> SUFFICES ASSUME n + 1 <= Len(s) PROVE \E f : IsKept(f, s, gone, n + 1)
    OBVIOUS
  <2>1. PICK f : IsKept(f, s, gone, n)
    OBVIOUS
  <2> DEFINE g == [k \in 0..(n + 1) |-> IF k = n + 1 THEN More(s, gone, k, f[n]) ELSE f[k]]
  <2>2. f = [k \in 0..n |-> IF k = 0 THEN <<>> ELSE More(s, gone, k, f[k - 1])]
    BY <2>1 DEF IsKept
  <2>3. ASSUME NEW k \in 0..(n + 1)
        PROVE  g[k] = IF k = 0 THEN <<>> ELSE More(s, gone, k, g[k - 1])
    <3>1. CASE k = n + 1
      <4>1. k - 1 = n /\ n \in 0..(n + 1) /\ n # n + 1 /\ k # 0
        BY <3>1
      <4> QED BY <3>1, <4>1
    <3>2. CASE k = 0
      BY <2>2, <3>2
    <3>3. CASE k \in 1..n
      <4>1. k - 1 \in 0..n /\ k - 1 # n + 1 /\ k # n + 1 /\ k \in 0..n /\ k # 0
        BY <3>3
      <4>2. f[k] = More(s, gone, k, f[k - 1])
        BY <2>2, <4>1
      <4>3. k - 1 \in 0..(n + 1)
        BY <4>1
      <4> QED BY <4>1, <4>2, <4>3
    <3> QED BY <3>1, <3>2, <3>3
  <2>4. IsKept(g, s, gone, n + 1)
    BY <2>3, Zenon DEF IsKept
  <2> QED BY <2>4
<1>3. Good = Nat
  BY <1>1, <1>2, Induction
<1> QED BY <1>3

LEMMA WithoutIs ==
  ASSUME NEW S, NEW s \in Seq(S), NEW gone
  PROVE  \E f : Without(s, gone) = f[Len(s)] /\ IsKept(f, s, gone, Len(s))
<1> DEFINE K == CHOOSE f : IsKept(f, s, gone, Len(s))
<1>1. \E f : IsKept(f, s, gone, Len(s))
  <2>1. Len(s) \in 0..Len(s)
    OBVIOUS
  <2> QED BY <2>1, KeptExists
<1>2. IsKept(K, s, gone, Len(s))
  BY <1>1
<1>3. Without(s, gone) = K[Len(s)]
  BY DEF Without, IsKept, More
<1> QED BY <1>2, <1>3

\* Without keeps nothing that is gone, and adds nothing.
LEMMA WithoutKeeps ==
  ASSUME NEW S, NEW s \in Seq(S), NEW gone
  PROVE  /\ Without(s, gone) \in Seq(S)
         /\ \A k \in DOMAIN Without(s, gone) : Without(s, gone)[k] \notin gone
<1>1. PICK f : Without(s, gone) = f[Len(s)] /\ IsKept(f, s, gone, Len(s))
  BY WithoutIs
<1> DEFINE Rest == {x \in S : x \notin gone}
           Good == {n \in Nat : n <= Len(s) => f[n] \in Seq(Rest)}
<1>2. f = [k \in 0..Len(s) |-> IF k = 0 THEN <<>> ELSE More(s, gone, k, f[k - 1])]
  BY <1>1 DEF IsKept
<1>3. 0 \in Good
  <2>1. f[0] = <<>>
    BY <1>2
  <2>2. <<>> \in Seq(Rest)
    OBVIOUS
  <2> QED BY <2>1, <2>2
<1>4. ASSUME NEW n \in Good PROVE n + 1 \in Good
  <2> SUFFICES ASSUME n + 1 <= Len(s) PROVE f[n + 1] \in Seq(Rest)
    OBVIOUS
  <2>1. n + 1 \in 0..Len(s) /\ n + 1 # 0 /\ (n + 1) - 1 = n /\ n + 1 \in 1..Len(s)
    OBVIOUS
  <2>2. f[n + 1] = More(s, gone, n + 1, f[n])
    BY <1>2, <2>1
  <2>3. f[n] \in Seq(Rest) /\ s[n + 1] \in S
    BY <2>1
  <2> QED BY <2>2, <2>3 DEF More
<1>5. Good = Nat
  BY <1>3, <1>4, Induction
<1>6. f[Len(s)] \in Seq(Rest)
  BY <1>5
<1> QED BY <1>1, <1>6

\* What is not in a sequence is not in what is left of it.
LEMMA WithoutAdds ==
  ASSUME NEW S, NEW s \in Seq(S), NEW gone, NEW x, \A k \in DOMAIN s : s[k] # x
  PROVE  \A k \in DOMAIN Without(s, gone) : Without(s, gone)[k] # x
<1>1. s \in Seq(S \ {x})
  OBVIOUS
<1>2. Without(s, gone) \in Seq(S \ {x})
  BY <1>1, WithoutKeeps
<1> QED BY <1>2
-----------------------------------------------------------------------------
\* The calls: where each returns to, and what it is for.

ThFields == {"pc", "ret", "ok", "op", "tries", "frame"}
Backs == {"idle", "opened"}
ResetPcs == {"open", "reset", "zap", "busy", "again", "reset.iaddr", "reset.conf", "reset.end"}
RuPcs == {"ru", "ru.abort", "ru.wait", "ru.frame"}
SimplePcs == {"simple", "simple.start", "simple.done", "simple.ack"}
PollPcs == {"poll", "poll.copy", "poll.ack"}

OfXmit(t) == t.op = "XMIT" /\ t.ret = <<"xmit.end", "idle">>
OfReset(t) ==
  \E r \in Backs : \/ t.op = "IASETUP" /\ t.ret = <<"reset.iaddr", r>>
                   \/ t.op = "CONFIG" /\ t.ret = <<"reset.conf", r>>
CallOK(t) ==
  /\ DOMAIN t = ThFields /\ t.ok \in BOOLEAN
  /\ \/ t.pc \in {"idle", "opened", "close"} /\ t.ret = <<>>
     \/ t.pc \in ResetPcs /\ \E r \in Backs : t.ret = <<r>>
     \/ t.pc \in {"xmit", "xmit.end"} \cup PollPcs /\ t.ret = <<"idle">>
     \/ t.pc \in RuPcs /\ \E r \in Backs : t.ret \in {<<r>>, <<"reset.end", r>>}
     \/ t.pc \in SimplePcs /\ (OfXmit(t) \/ OfReset(t))

LEMMA Stacks ==
  ASSUME NEW a, NEW b
  PROVE  /\ <<a>> \o <<>> = <<a>> /\ <<a>> \o <<b>> = <<a, b>>
         /\ Head(<<a>>) = a /\ Tail(<<a>>) = <<>>
         /\ Head(<<a, b>>) = a /\ Tail(<<a, b>>) = <<b>>
<1> DEFINE S == {a, b}
<1>1. <<a>> \in Seq(S) /\ <<b>> \in Seq(S) /\ <<>> \in Seq(S) /\ <<a, b>> \in Seq(S)
  OBVIOUS
<1>2. <<a>> \o <<>> = <<a>>
  BY <1>1
<1>3. <<a>> \o <<b>> = <<a, b>>
  <2>1. <<a>> \o <<b>> \in Seq(S) /\ Len(<<a>> \o <<b>>) = 2
    BY <1>1
  <2>2. \A i \in 1..2 : (<<a>> \o <<b>>)[i] = <<a, b>>[i]
    BY <1>1
  <2>3. Len(<<a, b>>) = 2
    OBVIOUS
  <2> QED BY <1>1, <2>1, <2>2, <2>3, SeqEqual
<1>4. Head(<<a>>) = a /\ Head(<<a, b>>) = a
  OBVIOUS
<1>5. Tail(<<a>>) = <<>>
  BY <1>1
<1>6. Tail(<<a, b>>) = <<b>>
  <2>1. Tail(<<a, b>>) \in Seq(S) /\ Len(Tail(<<a, b>>)) = 1 /\ Tail(<<a, b>>)[1] = b
    BY <1>1
  <2> QED BY <2>1
<1> QED BY <1>2, <1>3, <1>4, <1>5, <1>6

LEMMA CallIs ==
  ASSUME NEW t, NEW l, NEW back, DOMAIN t = ThFields
  PROVE  /\ DOMAIN Call(t, l, back) = ThFields
         /\ Call(t, l, back).pc = l /\ Call(t, l, back).ret = <<back>> \o t.ret
         /\ \A n \in ThFields \ {"pc", "ret"} : Call(t, l, back)[n] = t[n]
         /\ Sun2!Call(t, l, back) = Call(t, l, back)
         /\ Sun3!Call(t, l, back) = Call(t, l, back)
BY DEF Call, Sun2!Call, Sun3!Call, ThFields

LEMMA ReturnIs ==
  ASSUME NEW ok, DOMAIN th = ThFields
  PROVE  /\ Head(th.ret) = "idle" => Return(ok) = AtRest
         /\ Head(th.ret) # "idle" =>
              /\ DOMAIN Return(ok) = ThFields /\ Return(ok).ok = ok
              /\ Return(ok).pc = Head(th.ret) /\ Return(ok).ret = Tail(th.ret)
              /\ \A n \in ThFields \ {"pc", "ret", "ok"} : Return(ok)[n] = th[n]
         /\ Sun2!Return(ok) = Return(ok) /\ Sun3!Return(ok) = Return(ok)
BY DEF Return, Sun2!Return, Sun3!Return, AtRest, Sun2!AtRest, Sun3!AtRest, ThFields

LEMMA GotoIs ==
  ASSUME NEW l, DOMAIN th = ThFields
  PROVE  /\ DOMAIN Goto(l) = ThFields /\ Goto(l).pc = l
         /\ \A n \in ThFields \ {"pc"} : Goto(l)[n] = th[n]
         /\ Sun2!Goto(l) = Goto(l) /\ Sun3!Goto(l) = Goto(l)
BY DEF Goto, Sun2!Goto, Sun3!Goto, ThFields

LEMMA RestOK == CallOK(AtRest)
BY DEF CallOK, AtRest, ThFields
-----------------------------------------------------------------------------
\* The two drivers' steps as one driver's, by what they do to the chip.

\* What the driver asks of the units, with an attention.
Asks(cuc, ruc) ==
  /\ Accepted /\ Settled /\ Attention
  /\ scb'.cmd.cuc = cuc /\ scb'.cmd.ruc = ruc
  /\ \A n \in DOMAIN scb \ {"cmd", "cbl", "rfa"} : scb'[n] = scb[n]
  /\ DOMAIN scb' = DOMAIN scb
  /\ UNCHANGED <<busy, cbs, owed, wire>>
Listless == scb'.rfa = scb.rfa /\ scb'.cbl = scb.cbl
Late == ~HandlerOwes /\ ~(ch.cuStep # "none" /\ ch.cb = Block(th.op))
Resets(deaf) ==
  /\ scb' = ZeroScb /\ busy' = TRUE /\ ch' = ResetChip(deaf)
  /\ filed' = <<>> /\ owed' = <<>> /\ UNCHANGED <<rfds, rbds, cbs, wire>>
Only(n) == es' = es \/ \E v : es' = [es EXCEPT ![n] = v]

ClearBlock ==
  /\ At("simple") /\ cbs' = [cbs EXCEPT ![Block(th.op)] = Fresh]
  /\ th' = Goto("simple.start") /\ UNCHANGED <<scb, busy, rfds, rbds, ch, ghosts, es>>
StartBlock ==
  /\ At("simple.start") /\ Asks("START", "NOP") /\ scb'.cbl = Block(th.op)
  /\ scb'.rfa = scb.rfa /\ th' = Goto("simple.done") /\ UNCHANGED <<rfds, rbds, filed, es>>
BlockDone ==
  At("simple.done") /\ DoneBlock /\ th' = Goto("simple.ack") /\ UNCHANGED <<portVars, es>>
AckBlock ==
  /\ At("simple.ack") /\ Asks("NOP", "NOP") /\ Listless
  /\ th' = Return(TRUE) /\ UNCHANGED <<rfds, rbds, filed, es>>
SimpleTimeout ==
  /\ \/ (At("simple.start") \/ At("simple.ack")) /\ ~Accepted
     \/ At("simple.done") /\ ~DoneBlock
  /\ Late /\ th' = Return(FALSE) /\ UNCHANGED <<portVars, es>>
XmitTooLate ==
  /\ At("simple.done") /\ th.op = "XMIT" /\ th' = Return(FALSE)
  /\ Only("early") /\ UNCHANGED portVars
iesimple == \/ ClearBlock \/ StartBlock \/ BlockDone \/ AckBlock
            \/ SimpleTimeout \/ XmitTooLate

RuLook ==
  /\ At("ru") /\ UNCHANGED <<portVars, es>>
  /\ th' = Goto(IF scb.status.rus = "READY" THEN "ru.abort" ELSE "ru.wait")
RuStop ==
  /\ At("ru.abort") /\ Asks("NOP", "ABORT") /\ Listless
  /\ th' = Goto("ru") /\ UNCHANGED <<rfds, rbds, filed, es>>
RuTimeout ==
  /\ (At("ru.abort") \/ At("ru.wait")) /\ ~Accepted /\ Late
  /\ th' = Return(FALSE) /\ UNCHANGED <<portVars, es>>
RuBuffers ==
  /\ At("ru.wait")
  /\ rbds' = [b \in Rbds |-> [rbds[b] EXCEPT !.used = FALSE, !.last = FALSE,
                                !.el = b = 1, !.next = IF b = 0 THEN 1 ELSE Null]]
  /\ th' = Goto("ru.frame") /\ UNCHANGED <<scb, busy, rfds, cbs, ch, ghosts, es>>
RuFrame ==
  /\ At("ru.frame") /\ Settled /\ Attention
  /\ rfds' = [rfds EXCEPT ![0] = [done |-> FALSE, el |-> TRUE, next |-> Null, rbd |-> 0]]
  /\ scb' = [scb EXCEPT !.rfa = 0, !.cmd = [NoCommand EXCEPT !.ruc = "START"]]
  /\ filed' = <<>> /\ th' = Return(TRUE) /\ UNCHANGED <<busy, rbds, cbs, owed, wire, es>>
ierustart == RuLook \/ RuStop \/ RuTimeout \/ RuBuffers \/ RuFrame

XmitStart ==
  /\ At("xmit") /\ owed' = Append(owed, th.frame)
  /\ th' = Call([th EXCEPT !.op = "XMIT"], "simple", "xmit.end")
  /\ UNCHANGED <<scb, busy, rfds, rbds, cbs, ch, filed, wire, es>>
XmitEnd == At("xmit.end") /\ th' = AtRest /\ UNCHANGED <<portVars, es>>
iexmit == XmitStart \/ XmitEnd

PollLook ==
  /\ At("poll") /\ Settled /\ UNCHANGED <<portVars, es>>
  /\ \/ scb.status.rus = "READY" /\ th' = Return(TRUE)
     \/ scb.status.rus # "READY" /\ ~Got /\ th' = Goto("ru")
     \/ scb.status.rus # "READY" /\ Got /\ th' = Goto("poll.copy")
PollCopy ==
  /\ At("poll.copy") /\ th' = [Goto("poll.ack") EXCEPT !.frame = rbds[0].data.id]
  /\ UNCHANGED <<portVars, es>>
PollTimeout ==
  /\ At("poll.ack") /\ ~Accepted /\ Late
  /\ th' = Return(FALSE) /\ UNCHANGED <<portVars, es>>
PollAck ==
  /\ At("poll.ack") /\ Asks("NOP", "NOP") /\ Listless
  /\ filed' = Without(filed, [id : {th.frame}, len : 1..MaxLen])
  /\ es' = [es EXCEPT !.handed = th.frame]
  /\ th' = Goto("ru") /\ UNCHANGED <<rfds, rbds>>
iepoll == PollLook \/ PollCopy \/ PollTimeout \/ PollAck

ieinit == At("open") /\ th' = Goto("reset") /\ Only("wire") /\ UNCHANGED portVars
ResetChips ==
  /\ At("reset") /\ th' = Goto("zap") /\ \E deaf \in BOOLEAN : Resets(deaf)
  /\ \E w : es' = [es EXCEPT !.wire = w, !.held = FALSE]
Zap == At("zap") /\ Attention /\ th' = Goto("busy") /\ UNCHANGED <<mem, ghosts, es>>
Busy ==
  /\ At("busy") /\ (~busy \/ ~HandlerOwes) /\ Only("held")
  /\ \/ /\ ~busy /\ ch' = ch
        /\ th' = Call([th EXCEPT !.op = "IASETUP"], "simple", "reset.iaddr")
     \/ /\ busy /\ ch' \in {ch, HeldChip}
        /\ th' \in {Return(FALSE), [Goto("reset") EXCEPT !.tries = @ - 1]}
     \/ busy /\ ch' = HeldChip /\ th' = Goto("again")
  /\ UNCHANGED <<mem, ghosts>>
Again ==
  /\ At("again") /\ UNCHANGED <<portVars, es>>
  /\ th' \in {Return(FALSE), [Goto("reset") EXCEPT !.tries = @ - 1]}
ResetConf ==
  /\ At("reset.iaddr") /\ UNCHANGED <<portVars, es>>
  /\ \/ th' = Call([th EXCEPT !.op = "CONFIG"], "simple", "reset.conf")
     \/ ~th.ok /\ th' = Goto("again")
OnTheWire ==
  /\ At("reset.conf") /\ Only("wire") /\ UNCHANGED portVars
  /\ \/ th.ok /\ th' = Call(th, "ru", "reset.end")
     \/ th' = Goto("ru")
     \/ ~th.ok /\ th' = Goto("again")
ResetEnd ==
  /\ At("reset.end") /\ UNCHANGED <<portVars, es>>
  /\ th' = IF th.ok THEN Return(TRUE) ELSE Goto("again")
iereset == \/ ResetChips \/ Zap \/ Busy \/ Again
           \/ ResetConf \/ OnTheWire \/ ResetEnd

ieopen ==
  /\ At("opened") /\ es' = [es EXCEPT !.open = th.ok] /\ UNCHANGED portVars
  /\ th' = IF th.ok THEN AtRest ELSE Goto("close")
ieclose ==
  /\ At("close") /\ ch' \in {ch, HeldChip} /\ th' = AtRest
  /\ \E h, w : es' = [es EXCEPT !.open = FALSE, !.held = h, !.wire = w]
  /\ UNCHANGED <<mem, ghosts>>

ScbFields == {"status", "cmd", "cbl", "rfa"}
ScbOK == DOMAIN scb = ScbFields

\* The words the two drivers share mean the same in both.
LEMMA SameWords ==
  /\ \A l : Sun2!At(l) = At(l) /\ Sun3!At(l) = At(l)
  /\ Sun2!Accepted = Accepted /\ Sun3!Accepted = Accepted
  /\ Sun2!Settled = Settled /\ Sun3!Settled = Settled
  /\ Sun2!Attention = Attention /\ Sun3!Attention = Attention
  /\ \A f : Sun2!Shown(f) = Shown(f) /\ Sun3!Shown(f) = Shown(f)
  /\ \A op : Sun2!Block(op) = Block(op) /\ Sun3!Block(op) = Block(op)
  /\ Sun2!Got = Got /\ Sun3!Got = Got
  /\ Sun2!HandlerOwes = HandlerOwes /\ Sun3!HandlerOwes = HandlerOwes
<1>1. \A l : Sun2!At(l) = At(l) /\ Sun3!At(l) = At(l)
  BY DEF Sun2!At, Sun3!At, At
<1>2. Sun2!Accepted = Accepted /\ Sun3!Accepted = Accepted
  BY DEF Sun2!Accepted, Sun3!Accepted, Accepted, Sun2!NoCommand, Sun3!NoCommand, NoCommand
<1>3. Sun2!Settled = Settled /\ Sun3!Settled = Settled
  BY DEF Sun2!Settled, Sun3!Settled, Settled, Sun2!HandlerOwes, Sun3!HandlerOwes,
     HandlerOwes, Sun2!ShownStatus, Sun3!ShownStatus, ShownStatus
<1>4. Sun2!Attention = Attention /\ Sun3!Attention = Attention
  BY DEF Sun2!Attention, Sun3!Attention, Attention
<1>5. \A f : Sun2!Shown(f) = Shown(f) /\ Sun3!Shown(f) = Shown(f)
  BY DEF Sun2!Shown, Sun3!Shown, Shown, Sun2!NoCommand, Sun3!NoCommand, NoCommand
<1>6. \A op : Sun2!Block(op) = Block(op) /\ Sun3!Block(op) = Block(op)
  BY DEF Sun2!Block, Sun3!Block, Block
<1>7. Sun2!Got = Got /\ Sun3!Got = Got
  BY DEF Sun2!Got, Sun3!Got, Got
<1>8. Sun2!HandlerOwes = HandlerOwes /\ Sun3!HandlerOwes = HandlerOwes
  BY DEF Sun2!HandlerOwes, Sun3!HandlerOwes, HandlerOwes
<1> QED BY <1>1, <1>2, <1>3, <1>4, <1>5, <1>6, <1>7, <1>8

LEMMA CommandWords ==
  /\ [NoCommand EXCEPT !.cuc = "START"].cuc = "START"
  /\ [NoCommand EXCEPT !.cuc = "START"].ruc = "NOP"
  /\ [NoCommand EXCEPT !.ruc = "ABORT"].cuc = "NOP"
  /\ [NoCommand EXCEPT !.ruc = "ABORT"].ruc = "ABORT"
  /\ \A f : /\ Shown(f).cuc = "NOP" /\ Shown(f).ruc = "NOP"
            /\ [Shown(f) EXCEPT !.cuc = "START"].cuc = "START"
            /\ [Shown(f) EXCEPT !.cuc = "START"].ruc = "NOP"
  /\ Sun2!NoCommand = NoCommand /\ Sun3!NoCommand = NoCommand
BY DEF Shown, NoCommand, Sun2!NoCommand, Sun3!NoCommand

LEMMA SimpleIs ==
  ASSUME CallOK(th), ScbOK, Sun2!iesimple \/ Sun3!iesimple
  PROVE  iesimple
<1>1. DOMAIN th = ThFields
  BY DEF CallOK
<1> USE SameWords, <1>1 DEF iesimple
<1>2. CASE Sun2!ClearBlock \/ Sun3!ClearBlock
  <2>1. Sun2!Fresh = Fresh /\ Sun3!Fresh = Fresh
    BY DEF Sun2!Fresh, Sun3!Fresh, Fresh
  <2> QED BY <1>2, <2>1, GotoIs DEF Sun2!ClearBlock, Sun3!ClearBlock, ClearBlock, Sun2!ghosts, Sun3!ghosts, ghosts
<1>3. CASE Sun2!StartBlock \/ Sun3!StartBlock
  <2>1. \E c : /\ c.cuc = "START" /\ c.ruc = "NOP"
              /\ scb' = [scb EXCEPT !.cmd = c, !.cbl = Block(th.op)]
    BY <1>3, CommandWords DEF Sun2!StartBlock, Sun3!StartBlock
  <2>2. /\ At("simple.start") /\ Accepted /\ Settled /\ Attention /\ th' = Goto("simple.done")
        /\ UNCHANGED <<busy, rfds, rbds, cbs, filed, owed, wire, es>>
    BY <1>3, GotoIs DEF Sun2!StartBlock, Sun3!StartBlock, Sun2!ghosts, Sun3!ghosts
  <2>3. StartBlock
    BY <2>1, <2>2 DEF StartBlock, Asks, ScbOK, ScbFields
  <2> QED BY <2>3
<1>4. CASE Sun2!BlockDone \/ Sun3!BlockDone
  BY <1>4, GotoIs DEF Sun2!BlockDone, Sun3!BlockDone, BlockDone, Sun2!DoneBlock, Sun3!DoneBlock,
     DoneBlock, Sun2!portVars, Sun3!portVars, portVars
<1>5. CASE Sun2!AckBlock \/ Sun3!AckBlock
  <2>1. \E c : c.cuc = "NOP" /\ c.ruc = "NOP" /\ scb' = [scb EXCEPT !.cmd = c]
    BY <1>5, CommandWords DEF Sun2!AckBlock, Sun3!AckBlock, Sun2!ieca, Sun3!ieca
  <2>2. /\ At("simple.ack") /\ Accepted /\ Settled /\ Attention /\ th' = Return(TRUE)
        /\ UNCHANGED <<busy, rfds, rbds, cbs, filed, owed, wire, es>>
    BY <1>5, ReturnIs DEF Sun2!AckBlock, Sun3!AckBlock, Sun2!ieca, Sun3!ieca, Sun2!ghosts, Sun3!ghosts
  <2>3. AckBlock
    BY <2>1, <2>2 DEF AckBlock, Asks, Listless, ScbOK, ScbFields
  <2> QED BY <2>3
<1>6. CASE Sun3!SimpleTimeout
  BY <1>6, ReturnIs DEF Sun3!SimpleTimeout, SimpleTimeout, Sun3!Timebomb, Late, Sun3!DoneBlock, DoneBlock,
     Sun3!portVars, portVars
<1>7. CASE Sun3!XmitTooLate
  BY <1>7, ReturnIs DEF Sun3!XmitTooLate, XmitTooLate, Only, Sun3!portVars, portVars
<1> QED BY <1>2, <1>3, <1>4, <1>5, <1>6, <1>7 DEF Sun2!iesimple, Sun3!iesimple

LEMMA RuIs ==
  ASSUME CallOK(th), ScbOK, Sun2!ierustart \/ Sun3!ierustart
  PROVE  ierustart
<1>1. DOMAIN th = ThFields
  BY DEF CallOK
<1> USE SameWords, <1>1 DEF ierustart
<1>2. CASE Sun2!RuLook \/ Sun3!RuLook
  BY <1>2, GotoIs DEF Sun2!RuLook, Sun3!RuLook, RuLook, Sun2!portVars, Sun3!portVars, portVars
<1>3. CASE Sun2!RuStop \/ Sun3!RuStop
  <2>1. \E c : c.cuc = "NOP" /\ c.ruc = "ABORT" /\ scb' = [scb EXCEPT !.cmd = c]
    BY <1>3, CommandWords DEF Sun2!RuStop, Sun3!RuStop, Sun2!ieca, Sun3!ieca
  <2>2. /\ At("ru.abort") /\ Accepted /\ Settled /\ Attention /\ th' = Goto("ru")
        /\ UNCHANGED <<busy, rfds, rbds, cbs, filed, owed, wire, es>>
    BY <1>3, GotoIs DEF Sun2!RuStop, Sun3!RuStop, Sun2!ieca, Sun3!ieca, Sun2!ghosts, Sun3!ghosts
  <2>3. RuStop
    BY <2>1, <2>2 DEF RuStop, Asks, Listless, ScbOK, ScbFields
  <2> QED BY <2>3
<1>4. CASE Sun3!RuTimeout
  BY <1>4, ReturnIs DEF Sun3!RuTimeout, RuTimeout, Sun3!Timebomb, Late, Sun3!portVars, portVars
<1>5. CASE Sun2!RuBuffers \/ Sun3!RuBuffers
  BY <1>5, GotoIs DEF Sun2!RuBuffers, Sun3!RuBuffers, RuBuffers, Sun2!ghosts, Sun3!ghosts, ghosts
<1>6. CASE Sun2!RuFrame \/ Sun3!RuFrame
  BY <1>6, ReturnIs DEF Sun2!RuFrame, Sun3!RuFrame, RuFrame, Sun2!NoCommand, Sun3!NoCommand, NoCommand
<1> QED BY <1>2, <1>3, <1>4, <1>5, <1>6 DEF Sun2!ierustart, Sun3!ierustart

LEMMA XmitIs ==
  ASSUME CallOK(th), ScbOK, Sun2!iexmit \/ Sun3!iexmit
  PROVE  iexmit
<1>1. DOMAIN th = ThFields /\ DOMAIN [th EXCEPT !.op = "XMIT"] = ThFields
  BY DEF CallOK
<1> USE SameWords, <1>1 DEF iexmit
<1>2. CASE Sun2!XmitStart \/ Sun3!XmitStart
  <2>1. th' = Call([th EXCEPT !.op = "XMIT"], "simple", "xmit.end")
    <3> DEFINE t == [th EXCEPT !.op = "XMIT"]
    <3>1. /\ Sun2!Call(t, "simple", "xmit.end") = Call(t, "simple", "xmit.end")
          /\ Sun3!Call(t, "simple", "xmit.end") = Call(t, "simple", "xmit.end")
      BY <1>1, CallIs
    <3> QED BY <1>2, <3>1 DEF Sun2!XmitStart, Sun3!XmitStart
  <2>2. /\ At("xmit") /\ owed' = Append(owed, th.frame)
        /\ UNCHANGED <<scb, busy, rfds, rbds, cbs, ch, filed, wire, es>>
    BY <1>2 DEF Sun2!XmitStart, Sun3!XmitStart, Sun2!mem, Sun3!mem
  <2>3. XmitStart
    BY <2>1, <2>2 DEF XmitStart
  <2> QED BY <2>3
<1>3. CASE Sun2!XmitEnd \/ Sun3!XmitEnd
  BY <1>3 DEF Sun2!XmitEnd, Sun3!XmitEnd, XmitEnd, Sun2!AtRest, Sun3!AtRest, AtRest,
     Sun2!portVars, Sun3!portVars, portVars
<1> QED BY <1>2, <1>3 DEF Sun2!iexmit, Sun3!iexmit

LEMMA PollIs ==
  ASSUME CallOK(th), ScbOK, Sun2!iepoll \/ Sun3!iepoll
  PROVE  iepoll
<1>1. DOMAIN th = ThFields
  BY DEF CallOK
<1> USE SameWords, <1>1 DEF iepoll
<1>2. CASE Sun2!PollLook \/ Sun3!PollLook
  BY <1>2, GotoIs, ReturnIs DEF Sun2!PollLook, Sun3!PollLook, PollLook, Sun2!portVars,
     Sun3!portVars, portVars
<1>3. CASE Sun2!PollCopy \/ Sun3!PollCopy
  BY <1>3, GotoIs DEF Sun2!PollCopy, Sun3!PollCopy, PollCopy, Sun2!portVars, Sun3!portVars, portVars
<1>4. CASE Sun3!PollTimeout
  BY <1>4, ReturnIs DEF Sun3!PollTimeout, PollTimeout, Sun3!Timebomb, Late, Sun3!portVars, portVars
<1>5. CASE Sun2!PollAck \/ Sun3!PollAck
  <2>1. \E c : c.cuc = "NOP" /\ c.ruc = "NOP" /\ scb' = [scb EXCEPT !.cmd = c]
    BY <1>5, CommandWords DEF Sun2!PollAck, Sun3!PollAck, Sun2!ieca, Sun3!ieca
  <2>2. /\ At("poll.ack") /\ Accepted /\ Settled /\ Attention /\ th' = Goto("ru")
        /\ UNCHANGED <<busy, rfds, rbds, cbs, owed, wire>>
        /\ filed' = Without(filed, [id : {th.frame}, len : 1..MaxLen])
        /\ es' = [es EXCEPT !.handed = th.frame]
    <3>1. \A s, g : Sun2!Without(s, g) = Without(s, g) /\ Sun3!Without(s, g) = Without(s, g)
      BY DEF Sun2!Without, Sun3!Without, Without
    <3> QED BY <1>5, <3>1, GotoIs DEF Sun2!PollAck, Sun3!PollAck, Sun2!ieca, Sun3!ieca
  <2>3. PollAck
    BY <2>1, <2>2 DEF PollAck, Asks, Listless, ScbOK, ScbFields
  <2> QED BY <2>3
<1> QED BY <1>2, <1>3, <1>4, <1>5 DEF Sun2!iepoll, Sun3!iepoll

LEMMA ResetIs ==
  ASSUME CallOK(th), ScbOK, Sun2!iereset \/ Sun3!iereset
  PROVE  iereset
<1>1. DOMAIN th = ThFields
  BY DEF CallOK
<1>11. DOMAIN [th EXCEPT !.op = "IASETUP"] = ThFields /\ DOMAIN [th EXCEPT !.op = "CONFIG"] = ThFields
  BY <1>1
<1>2. /\ UNCHANGED <<Sun2!mem, Sun2!ghosts>> => UNCHANGED <<mem, ghosts>>
      /\ UNCHANGED <<Sun3!mem, Sun3!ghosts>> => UNCHANGED <<mem, ghosts>>
  BY DEF Sun2!portVars, Sun3!portVars, portVars, Sun2!mem, Sun3!mem, mem, Sun2!ghosts,
     Sun3!ghosts, ghosts
<1>3. \A deaf : /\ Sun2!ResetChip(deaf) = ResetChip(deaf) /\ Sun3!ResetChip(deaf) = ResetChip(deaf)
               /\ Sun2!HeldChip = HeldChip /\ Sun3!HeldChip = HeldChip
               /\ Sun2!ZeroScb = ZeroScb /\ Sun3!ZeroScb = ZeroScb
  BY DEF Sun2!ResetChip, Sun3!ResetChip, ResetChip, Sun2!HeldChip, Sun3!HeldChip, HeldChip,
     Sun2!ZeroScb, Sun3!ZeroScb, ZeroScb, Sun2!NoCommand, Sun3!NoCommand, NoCommand,
     Sun2!ZeroStatus, Sun3!ZeroStatus, ZeroStatus, Sun2!Nobody, Sun3!Nobody, Nobody
<1> USE SameWords, <1>1 DEF iereset
<1>4. CASE Sun2!ResetChips \/ Sun3!ResetChips
  <2>1. \E deaf \in BOOLEAN : Resets(deaf)
    BY <1>4, <1>3 DEF Sun2!ResetChips, Sun3!ResetChips, Resets
  <2>2. /\ At("reset") /\ th' = Goto("zap")
        /\ \E w : es' = [es EXCEPT !.wire = w, !.held = FALSE]
    BY <1>4, GotoIs DEF Sun2!ResetChips, Sun3!ResetChips
  <2> QED BY <2>1, <2>2 DEF ResetChips
<1>5. CASE Sun2!Zap \/ Sun3!Zap
  BY <1>5, <1>2, GotoIs DEF Sun2!Zap, Sun3!Zap, Zap
<1>6. CASE Sun2!Busy \/ Sun3!Busy
  <2>1. At("busy") /\ (~busy \/ ~HandlerOwes) /\ UNCHANGED <<mem, ghosts>>
    BY <1>6, <1>2 DEF Sun2!Busy, Sun3!Busy
  <2>2. Only("held")
    BY <1>6 DEF Sun2!Busy, Sun3!Busy, Only
  <2> DEFINE t == [th EXCEPT !.op = "IASETUP"]
  <2>3. /\ Sun2!Call(t, "simple", "reset.iaddr") = Call(t, "simple", "reset.iaddr")
        /\ Sun3!Call(t, "simple", "reset.iaddr") = Call(t, "simple", "reset.iaddr")
    BY <1>11, CallIs
  <2>4. Sun2!Goto("reset") = Goto("reset") /\ Sun3!Goto("again") = Goto("again")
    BY <1>1, GotoIs
  <2>5. Sun2!Return(FALSE) = Return(FALSE)
    BY <1>1, ReturnIs
  <2>6. CASE ~busy
    <3>1. ch' = ch /\ th' = Call(t, "simple", "reset.iaddr")
      BY <1>6, <2>3, <2>6 DEF Sun2!Busy, Sun3!Busy
    <3> QED BY <2>1, <2>2, <2>6, <3>1 DEF Busy
  <2>7. CASE busy
    <3>1. CASE Sun2!Busy
      <4>1. /\ ch' \in {ch, HeldChip}
            /\ th' \in {Return(FALSE), [Goto("reset") EXCEPT !.tries = @ - 1]}
        BY <3>1, <1>3, <2>4, <2>5, <2>7 DEF Sun2!Busy
      <4> QED BY <2>1, <2>2, <2>7, <4>1 DEF Busy
    <3>2. CASE Sun3!Busy
      <4>1. ch' = HeldChip /\ th' = Goto("again")
        BY <3>2, <1>3, <2>4, <2>7 DEF Sun3!Busy
      <4> QED BY <2>1, <2>2, <2>7, <4>1 DEF Busy
    <3> QED BY <1>6, <3>1, <3>2
  <2> QED BY <2>6, <2>7
<1>7. CASE Sun3!Again
  <2>1. UNCHANGED <<portVars, es>> /\ At("again")
    BY <1>7 DEF Sun3!Again, Sun3!portVars, portVars
  <2>2. th' \in {Return(FALSE), [Goto("reset") EXCEPT !.tries = @ - 1]}
    BY <1>7, GotoIs, ReturnIs DEF Sun3!Again
  <2> QED BY <2>1, <2>2 DEF Again
<1>8. CASE Sun2!ResetConf \/ Sun3!ResetConf
  <2> DEFINE t == [th EXCEPT !.op = "CONFIG"]
  <2>1. /\ Sun2!Call(t, "simple", "reset.conf") = Call(t, "simple", "reset.conf")
        /\ Sun3!Call(t, "simple", "reset.conf") = Call(t, "simple", "reset.conf")
    BY <1>11, CallIs
  <2>2. UNCHANGED <<portVars, es>> /\ At("reset.iaddr")
    BY <1>8 DEF Sun2!ResetConf, Sun3!ResetConf, Sun2!portVars, Sun3!portVars, portVars
  <2>3. Sun3!Goto("again") = Goto("again")
    BY GotoIs
  <2>4. CASE Sun2!ResetConf
    BY <2>4, <2>1, <2>2 DEF Sun2!ResetConf, ResetConf
  <2>5. CASE Sun3!ResetConf
    BY <2>5, <2>1, <2>2, <2>3 DEF Sun3!ResetConf, ResetConf
  <2> QED BY <1>8, <2>4, <2>5
<1>9. CASE Sun2!OnTheWire \/ Sun3!OnTheWire
  <2>1. Sun3!Call(th, "ru", "reset.end") = Call(th, "ru", "reset.end")
    BY <1>1, CallIs
  <2>2. Only("wire") /\ UNCHANGED portVars /\ At("reset.conf")
    BY <1>9 DEF Sun2!OnTheWire, Sun3!OnTheWire, Only, Sun2!portVars, Sun3!portVars, portVars
  <2>3. Sun2!Goto("ru") = Goto("ru") /\ Sun3!Goto("again") = Goto("again")
    BY GotoIs
  <2>4. CASE Sun2!OnTheWire
    BY <2>4, <2>2, <2>3 DEF Sun2!OnTheWire, OnTheWire
  <2>5. CASE Sun3!OnTheWire
    BY <2>5, <2>1, <2>2, <2>3 DEF Sun3!OnTheWire, OnTheWire
  <2> QED BY <1>9, <2>4, <2>5
<1>10. CASE Sun3!ResetEnd
  BY <1>10, GotoIs, ReturnIs DEF Sun3!ResetEnd, ResetEnd, Sun3!portVars, portVars
<1> QED BY <1>4, <1>5, <1>6, <1>7, <1>8, <1>9, <1>10 DEF Sun2!iereset, Sun3!iereset

LEMMA OpenIs ==
  ASSUME CallOK(th), ScbOK,
         Sun2!Init120 \/ Sun3!ieinit \/ Sun2!ieopen \/ Sun3!ieopen \/ Sun2!ieclose \/ Sun3!ieclose
  PROVE  ieinit \/ ieopen \/ ieclose
<1>1. DOMAIN th = ThFields
  BY DEF CallOK
<1>2. /\ Sun2!AtRest = AtRest /\ Sun3!AtRest = AtRest
      /\ Sun2!HeldChip = HeldChip /\ Sun3!HeldChip = HeldChip
  BY DEF Sun2!AtRest, Sun3!AtRest, AtRest, Sun2!HeldChip, Sun3!HeldChip, HeldChip,
     Sun2!ResetChip, Sun3!ResetChip, ResetChip, Sun2!Nobody, Sun3!Nobody, Nobody
<1>3. CASE Sun2!Init120
  BY <1>1, <1>3, SameWords, GotoIs DEF Sun2!Init120, ieinit, Only, Sun2!portVars, portVars
<1>4. CASE Sun3!ieinit
  <2>1. es' = es
    BY <1>4 DEF Sun3!ieinit
  <2> QED BY <1>1, <1>4, <2>1, SameWords, GotoIs DEF Sun3!ieinit, ieinit, Only, Sun3!portVars, portVars
<1>5. CASE Sun2!ieopen \/ Sun3!ieopen
  BY <1>1, <1>2, <1>5, SameWords, GotoIs
     DEF Sun2!ieopen, Sun3!ieopen, ieopen, Sun2!portVars, Sun3!portVars, portVars
<1>6. CASE Sun2!ieclose \/ Sun3!ieclose
  <2>1. \E h, w : es' = [es EXCEPT !.open = FALSE, !.held = h, !.wire = w]
    BY <1>6 DEF Sun2!ieclose, Sun3!ieclose
  <2>2. /\ At("close") /\ ch' \in {ch, HeldChip} /\ th' = AtRest
        /\ UNCHANGED <<mem, ghosts>>
    BY <1>2, <1>6, SameWords DEF Sun2!ieclose, Sun3!ieclose, Sun2!mem, Sun3!mem, mem,
       Sun2!ghosts, Sun3!ghosts, ghosts
  <2> QED BY <2>1, <2>2 DEF ieclose
<1> QED BY <1>3, <1>4, <1>5, <1>6

\* A step of either driver is a step of the one.
Step == \/ iesimple \/ ierustart \/ iexmit \/ iepoll
        \/ ieinit \/ iereset \/ ieopen \/ ieclose
LEMMA DriverIs ==
  ASSUME CallOK(th), ScbOK, Driver
  PROVE  Step
BY SimpleIs, RuIs, XmitIs, PollIs, ResetIs, OpenIs DEF Driver, Sun2!Driver, Sun3!Driver, Step

\* The calls return where they were made from.
LEMMA GotoOK ==
  ASSUME CallOK(th), NEW l, th' = Goto(l),
         \/ th.pc \in ResetPcs /\ l \in ResetPcs \cup RuPcs
         \/ th.pc \in RuPcs /\ l \in RuPcs
         \/ th.pc \in PollPcs /\ l \in PollPcs \cup RuPcs
         \/ th.pc \in SimplePcs /\ l \in SimplePcs
         \/ th.pc \in {"opened", "idle"} /\ l = "close"
  PROVE  CallOK(th')
<1>1. /\ DOMAIN th' = ThFields /\ th'.ok = th.ok /\ th'.ret = th.ret /\ th'.op = th.op
      /\ th'.pc = l
  BY GotoIs DEF CallOK, ThFields
<1>2. CASE th.pc \in ResetPcs
  <2>1. \E r \in Backs : th.ret = <<r>>
    BY <1>2 DEF CallOK, ResetPcs, PollPcs, RuPcs, SimplePcs
  <2>2. l \in ResetPcs \cup RuPcs
    BY <1>2 DEF ResetPcs, PollPcs, RuPcs, SimplePcs
  <2> QED BY <1>1, <2>1, <2>2 DEF CallOK
<1>3. CASE th.pc \in RuPcs
  <2>1. \E r \in Backs : th.ret \in {<<r>>, <<"reset.end", r>>}
    BY <1>3 DEF CallOK, ResetPcs, PollPcs, RuPcs, SimplePcs
  <2>2. l \in RuPcs
    BY <1>3 DEF ResetPcs, PollPcs, RuPcs, SimplePcs
  <2> QED BY <1>1, <2>1, <2>2 DEF CallOK
<1>4. CASE th.pc \in PollPcs
  <2>1. th.ret = <<"idle">>
    BY <1>4 DEF CallOK, ResetPcs, PollPcs, RuPcs, SimplePcs
  <2>2. l \in PollPcs \cup RuPcs
    BY <1>4 DEF ResetPcs, PollPcs, RuPcs, SimplePcs
  <2> QED BY <1>1, <2>1, <2>2 DEF CallOK, Backs
<1>5. CASE th.pc \in SimplePcs
  <2>1. OfXmit(th) \/ OfReset(th)
    BY <1>5 DEF CallOK, ResetPcs, PollPcs, RuPcs, SimplePcs
  <2>2. l \in SimplePcs
    BY <1>5 DEF ResetPcs, PollPcs, RuPcs, SimplePcs
  <2> QED BY <1>1, <2>1, <2>2 DEF CallOK, OfXmit, OfReset
<1>6. CASE th.pc \in {"opened", "idle"}
  <2>1. th.ret = <<>> /\ l = "close"
    BY <1>6 DEF CallOK, ResetPcs, PollPcs, RuPcs, SimplePcs
  <2> QED BY <1>1, <2>1 DEF CallOK
<1> QED BY <1>2, <1>3, <1>4, <1>5, <1>6

LEMMA ReturnOK ==
  ASSUME CallOK(th), NEW ok \in BOOLEAN, th' = Return(ok),
         \/ th.pc \in ResetPcs \cup RuPcs \cup PollPcs
         \/ th.pc \in SimplePcs
  PROVE  CallOK(th')
<1>1. DOMAIN th = ThFields
  BY DEF CallOK
<1>2. \E r \in Backs : th.ret \in {<<r>>, <<"reset.end", r>>, <<"reset.iaddr", r>>,
                                   <<"reset.conf", r>>, <<"xmit.end", "idle">>}
  BY DEF CallOK, ResetPcs, PollPcs, RuPcs, SimplePcs, OfXmit, OfReset, Backs
<1>3. CASE th.ret = <<"idle">>
  BY <1>1, <1>3, ReturnIs, RestOK, Stacks
<1>4. ASSUME NEW a, NEW r \in Backs, th.ret = <<a, r>>, a \in {"reset.end", "reset.iaddr", "reset.conf"}
      PROVE  CallOK(th')
  <2>1. DOMAIN th' = ThFields /\ th'.ok = ok /\ th'.pc = a /\ th'.ret = <<r>>
    BY <1>1, <1>4, ReturnIs, Stacks
  <2> QED BY <1>4, <2>1 DEF CallOK, ResetPcs
<1>5. CASE th.ret = <<"opened">>
  <2>1. DOMAIN th' = ThFields /\ th'.ok = ok /\ th'.pc = "opened" /\ th'.ret = <<>>
    BY <1>1, <1>5, ReturnIs, Stacks
  <2> QED BY <2>1 DEF CallOK
<1>6. CASE th.ret = <<"xmit.end", "idle">>
  <2>1. DOMAIN th' = ThFields /\ th'.ok = ok /\ th'.pc = "xmit.end" /\ th'.ret = <<"idle">>
    BY <1>1, <1>6, ReturnIs, Stacks
  <2> QED BY <2>1 DEF CallOK
<1> QED BY <1>2, <1>3, <1>4, <1>5, <1>6 DEF Backs

LEMMA CallMade ==
  ASSUME CallOK(th), NEW t, DOMAIN t = ThFields, t.ret = th.ret, t.ok = th.ok, NEW l, NEW back,
         th' = Call(t, l, back),
         \/ th.pc = "idle" /\ l = "open" /\ back = "opened"
         \/ th.pc = "idle" /\ l \in {"reset", "xmit", "poll"} /\ back = "idle"
         \/ th.pc = "xmit" /\ l = "simple" /\ back = "xmit.end" /\ t.op = "XMIT"
         \/ th.pc \in ResetPcs /\ l = "simple" /\ back = "reset.iaddr" /\ t.op = "IASETUP"
         \/ th.pc \in ResetPcs /\ l = "simple" /\ back = "reset.conf" /\ t.op = "CONFIG"
         \/ th.pc \in ResetPcs /\ l = "ru" /\ back = "reset.end"
  PROVE  CallOK(th')
<1>1. /\ DOMAIN th' = ThFields /\ th'.ok = th.ok /\ th'.pc = l /\ th'.op = t.op
      /\ th'.ret = <<back>> \o th.ret
  BY CallIs DEF ThFields
<1>2. CASE th.pc = "idle"
  <2>1. th.ret = <<>> /\ l # "simple" /\ l # "ru"
    BY <1>2 DEF CallOK, ResetPcs, PollPcs, RuPcs, SimplePcs
  <2>2. th'.ret = <<back>>
    BY <1>1, <2>1, Stacks
  <2> QED BY <1>1, <1>2, <2>1, <2>2 DEF CallOK, Backs, ResetPcs, PollPcs
<1>3. CASE th.pc = "xmit"
  <2>1. th.ret = <<"idle">> /\ l = "simple" /\ back = "xmit.end" /\ t.op = "XMIT"
    BY <1>3 DEF CallOK, ResetPcs, PollPcs, RuPcs, SimplePcs
  <2>2. th'.ret = <<"xmit.end", "idle">>
    BY <1>1, <2>1, Stacks
  <2> QED BY <1>1, <2>1, <2>2 DEF CallOK, OfXmit, SimplePcs
<1>4. CASE th.pc \in ResetPcs
  <2>1. PICK r \in Backs : th.ret = <<r>>
    BY <1>4 DEF CallOK, ResetPcs, PollPcs, RuPcs, SimplePcs
  <2>2. th'.ret = <<back, r>>
    BY <1>1, <2>1, Stacks
  <2>3. \/ l = "simple" /\ back = "reset.iaddr" /\ t.op = "IASETUP"
        \/ l = "simple" /\ back = "reset.conf" /\ t.op = "CONFIG"
        \/ l = "ru" /\ back = "reset.end"
    BY <1>4 DEF ResetPcs
  <2> QED BY <1>1, <2>1, <2>2, <2>3 DEF CallOK, OfReset, SimplePcs, RuPcs
<1> QED BY <1>2, <1>3, <1>4 DEF CallOK, ResetPcs

LEMMA StepOK ==
  ASSUME CallOK(th), Step
  PROVE  CallOK(th')
<1>1. DOMAIN th = ThFields /\ th.ok \in BOOLEAN
  BY DEF CallOK
<1>2. CASE iesimple
  <2>1. CASE ClearBlock \/ StartBlock \/ BlockDone
    <3>1. th.pc \in SimplePcs /\ \E l \in SimplePcs : th' = Goto(l)
      BY <2>1 DEF ClearBlock, StartBlock, BlockDone, At, SimplePcs
    <3> QED BY <3>1, GotoOK
  <2>2. CASE AckBlock \/ SimpleTimeout \/ XmitTooLate
    <3>1. th.pc \in SimplePcs /\ \E ok \in BOOLEAN : th' = Return(ok)
      BY <2>2 DEF AckBlock, SimpleTimeout, XmitTooLate, At, SimplePcs
    <3> QED BY <3>1, ReturnOK
  <2> QED BY <1>2, <2>1, <2>2 DEF iesimple
<1>3. CASE ierustart
  <2>1. CASE RuLook \/ RuStop \/ RuBuffers
    <3>1. th.pc \in RuPcs /\ \E l \in RuPcs : th' = Goto(l)
      BY <2>1 DEF RuLook, RuStop, RuBuffers, At, RuPcs
    <3> QED BY <3>1, GotoOK
  <2>2. CASE RuTimeout \/ RuFrame
    <3>1. th.pc \in RuPcs /\ \E ok \in BOOLEAN : th' = Return(ok)
      BY <2>2 DEF RuTimeout, RuFrame, At, RuPcs
    <3> QED BY <3>1, ReturnOK
  <2> QED BY <1>3, <2>1, <2>2 DEF ierustart
<1>4. CASE iexmit
  <2>1. CASE XmitStart
    <3> DEFINE t == [th EXCEPT !.op = "XMIT"]
    <3>1. DOMAIN t = ThFields /\ t.ret = th.ret /\ t.ok = th.ok /\ t.op = "XMIT"
      BY <1>1 DEF ThFields
    <3>2. th.pc = "xmit" /\ th' = Call(t, "simple", "xmit.end")
      BY <2>1 DEF XmitStart, At
    <3> QED BY <3>1, <3>2, CallMade
  <2>2. CASE XmitEnd
    BY <2>2, RestOK DEF XmitEnd
  <2> QED BY <1>4, <2>1, <2>2 DEF iexmit
<1>5. CASE iepoll
  <2>1. CASE PollLook
    <3>1. th.pc \in PollPcs
          /\ \/ th' = Return(TRUE)
             \/ \E l \in PollPcs \cup RuPcs : th' = Goto(l)
      BY <2>1 DEF PollLook, At, RuPcs, PollPcs
    <3> QED BY <3>1, GotoOK, ReturnOK
  <2>2. CASE PollCopy
    <3>1. th.pc = "poll.copy" /\ th' = [Goto("poll.ack") EXCEPT !.frame = rbds[0].data.id]
      BY <2>2 DEF PollCopy, At
    <3>2. th.ret = <<"idle">>
      BY <3>1 DEF CallOK, ResetPcs, PollPcs, RuPcs, SimplePcs
    <3>3. DOMAIN th' = ThFields /\ th'.pc = "poll.ack" /\ th'.ret = th.ret /\ th'.ok = th.ok
      BY <1>1, <3>1, GotoIs DEF ThFields
    <3> QED BY <1>1, <3>2, <3>3 DEF CallOK, PollPcs
  <2>3. CASE PollTimeout
    BY <2>3, ReturnOK DEF PollTimeout, At, PollPcs
  <2>4. CASE PollAck
    <3>1. th.pc \in PollPcs /\ "ru" \in RuPcs /\ th' = Goto("ru")
      BY <2>4 DEF PollAck, At, PollPcs, RuPcs
    <3> QED BY <3>1, GotoOK
  <2> QED BY <1>5, <2>1, <2>2, <2>3, <2>4 DEF iepoll
<1>6. CASE iereset
  <2>1. ASSUME th' = [Goto("reset") EXCEPT !.tries = @ - 1], th.pc \in ResetPcs PROVE CallOK(th')
    <3>1. \E r \in Backs : th.ret = <<r>>
      BY <2>1 DEF CallOK, ResetPcs, PollPcs, RuPcs, SimplePcs
    <3>2. DOMAIN th' = ThFields /\ th'.pc = "reset" /\ th'.ret = th.ret /\ th'.ok = th.ok
      BY <1>1, <2>1, GotoIs DEF ThFields
    <3> QED BY <1>1, <3>1, <3>2 DEF CallOK, ResetPcs
  <2>2. ASSUME NEW o, NEW l, NEW back, th.pc \in ResetPcs, th' = Call([th EXCEPT !.op = o], l, back),
               <<o, l, back>> \in {<<"IASETUP", "simple", "reset.iaddr">>,
                                   <<"CONFIG", "simple", "reset.conf">>}
        PROVE  CallOK(th')
    <3> DEFINE t == [th EXCEPT !.op = o]
    <3>1. DOMAIN t = ThFields /\ t.ret = th.ret /\ t.ok = th.ok /\ t.op = o
      BY <1>1 DEF ThFields
    <3>2. \/ o = "IASETUP" /\ l = "simple" /\ back = "reset.iaddr"
          \/ o = "CONFIG" /\ l = "simple" /\ back = "reset.conf"
      BY <2>2
    <3>3. th' = Call(t, l, back)
      BY <2>2
    <3> HIDE DEF t
    <3> QED BY <2>2, <3>1, <3>2, <3>3, CallMade
  <2>3. CASE ResetChips \/ Zap
    <3>1. th.pc \in ResetPcs /\ \E l \in ResetPcs : th' = Goto(l)
      BY <2>3 DEF ResetChips, Zap, At, ResetPcs
    <3> QED BY <3>1, GotoOK
  <2>4. CASE Busy
    <3>1. /\ th.pc \in ResetPcs /\ "again" \in ResetPcs
          /\ \/ th' = Call([th EXCEPT !.op = "IASETUP"], "simple", "reset.iaddr")
             \/ th' \in {Return(FALSE), Goto("again"), [Goto("reset") EXCEPT !.tries = @ - 1]}
      BY <2>4 DEF Busy, At, ResetPcs
    <3> QED BY <2>1, <2>2, <3>1, GotoOK, ReturnOK
  <2>5. CASE Again
    BY <2>1, <2>5, ReturnOK DEF Again, At, ResetPcs
  <2>6. CASE ResetConf
    <3>1. /\ th.pc \in ResetPcs /\ "again" \in ResetPcs
          /\ \/ th' = Call([th EXCEPT !.op = "CONFIG"], "simple", "reset.conf")
             \/ th' = Goto("again")
      BY <2>6 DEF ResetConf, At, ResetPcs
    <3> QED BY <2>2, <3>1, GotoOK
  <2>7. CASE OnTheWire
    <3>1. /\ th.pc \in ResetPcs /\ "again" \in ResetPcs /\ "ru" \in RuPcs
          /\ \/ th' = Call(th, "ru", "reset.end")
             \/ th' = Goto("again")
             \/ th' = Goto("ru")
      BY <2>7 DEF OnTheWire, At, ResetPcs, RuPcs
    <3> QED BY <1>1, <3>1, GotoOK, CallMade
  <2>8. CASE ResetEnd
    <3>1. /\ th.pc \in ResetPcs /\ "again" \in ResetPcs
          /\ \/ th' = Return(TRUE)
             \/ th' = Goto("again")
      BY <2>8 DEF ResetEnd, At, ResetPcs, RuPcs
    <3> QED BY <3>1, GotoOK, ReturnOK
  <2> QED BY <1>6, <2>3, <2>4, <2>5, <2>6, <2>7, <2>8 DEF iereset
<1>7. CASE ieinit
  <2>1. th.pc \in ResetPcs /\ "reset" \in ResetPcs /\ th' = Goto("reset")
    BY <1>7 DEF ieinit, At, ResetPcs
  <2> QED BY <2>1, GotoOK
<1>8. CASE ieopen \/ ieclose
  BY <1>8, GotoOK, RestOK DEF ieopen, ieclose, At
<1> QED BY <1>2, <1>3, <1>4, <1>5, <1>6, <1>7, <1>8 DEF Step

-----------------------------------------------------------------------------
\* The shapes of the state.

ChFields == {"up", "deaf", "ca", "core", "flags", "cus", "cb", "cuStep", "abort",
             "rus", "rfd", "rbd", "el", "rx", "frame", "part", "first", "firstEl",
             "last", "suspend"}
EsFields == {"kind", "prompt", "open", "wire", "held", "sent", "handed", "early"}
RfdFields == {"done", "el", "next", "rbd"}
RbdFields == {"used", "last", "el", "next", "data"}
CbFields == {"op", "i", "done", "data"}

Shapes ==
  /\ ScbOK /\ DOMAIN ch = ChFields
  /\ DOMAIN rfds = {0} /\ DOMAIN rfds[0] = RfdFields
  /\ DOMAIN rbds = {0, 1} /\ \A b \in {0, 1} : DOMAIN rbds[b] = RbdFields
  /\ DOMAIN cbs = 0..2 /\ \A c \in 0..2 : DOMAIN cbs[c] = CbFields
  /\ owed \in Seq(Nat)
EsOK == DOMAIN es = EsFields /\ es.sent \in Nat
SendOK == At("xmit") => th.frame \in Nat
Types == CallOK(th) /\ Shapes /\ EsOK /\ SendOK

\* What an attention makes of the registers.
LEMMA TakenIs ==
  ASSUME DOMAIN ch = ChFields, TakeCommand
  PROVE  /\ DOMAIN ch' = ChFields /\ ch'.core = "answer" /\ ch'.ca = FALSE
         /\ ch'.up = ch.up /\ ch'.deaf = ch.deaf
         /\ IF scb.cmd.cuc = "START" /\ ch.cus # "ACTIVE"
            THEN ch'.cus = "ACTIVE" /\ ch'.cb = scb.cbl /\ ch'.cuStep = "run"
            ELSE ch'.cus = ch.cus /\ ch'.cb = ch.cb /\ ch'.cuStep = ch.cuStep
         /\ scb.cmd.ruc = "START" /\ ch.rus # "READY" =>
              ch'.rus = "READY" /\ ch'.rfd = scb.rfa /\ ch'.rx = "arm"
         /\ scb.cmd.ruc = "NOP" \/ (scb.cmd.ruc = "START" /\ ch.rus = "READY") =>
              ch'.rus = ch.rus /\ ch'.rfd = ch.rfd /\ ch'.rx = ch.rx
         /\ scb.cmd.ruc \in {"NOP", "START"} =>
              \A n \in {"rbd", "el", "frame", "part", "first", "firstEl", "last"} : ch'[n] = ch[n]
<1> DEFINE c == scb.cmd
           a == CuTold(c)
           b == RuTold(c, a)
<1>1. /\ DOMAIN a = ChFields
      /\ \A n \in ChFields \ {"cus", "cb", "cuStep", "abort"} : a[n] = ch[n]
      /\ IF c.cuc = "START" /\ ch.cus # "ACTIVE"
         THEN a.cus = "ACTIVE" /\ a.cb = scb.cbl /\ a.cuStep = "run"
         ELSE a.cus = ch.cus /\ a.cb = ch.cb /\ a.cuStep = ch.cuStep
  BY DEF CuTold, ChFields
<1>2. /\ DOMAIN b = ChFields
      /\ \A n \in {"up", "deaf", "cus", "cb", "cuStep"} : b[n] = a[n]
      /\ c.ruc = "START" /\ a.rus # "READY" =>
           b.rus = "READY" /\ b.rfd = scb.rfa /\ b.rx = "arm"
      /\ c.ruc = "NOP" \/ (c.ruc = "START" /\ a.rus = "READY") =>
           b.rus = a.rus /\ b.rfd = a.rfd /\ b.rx = a.rx
      /\ c.ruc \in {"NOP", "START"} =>
           \A n \in {"rbd", "el", "frame", "part", "first", "firstEl", "last"} : b[n] = a[n]
  <2>1. DOMAIN a = ChFields
    BY <1>1
  <2> HIDE DEF a
  <2> QED BY <2>1 DEF RuTold, Cleared, ChFields
<1>3. ch' = [b EXCEPT !.ca = FALSE, !.core = "answer", !.flags = (@ \ c.ack) \cup Stopped(c)]
  BY DEF TakeCommand
<1>4. /\ DOMAIN ch' = ChFields /\ ch'.core = "answer" /\ ch'.ca = FALSE
      /\ \A n \in ChFields \ {"ca", "core", "flags"} : ch'[n] = b[n]
  <2>1. DOMAIN b = ChFields
    BY <1>2
  <2> HIDE DEF b
  <2> QED BY <1>3, <2>1 DEF ChFields
<1> HIDE DEF a, b
<1>5. /\ ch'.up = ch.up /\ ch'.deaf = ch.deaf /\ a.rus = ch.rus
      /\ ch'.cus = a.cus /\ ch'.cb = a.cb /\ ch'.cuStep = a.cuStep
  BY <1>1, <1>2, <1>4 DEF ChFields
<1>6. /\ ch'.rus = b.rus /\ ch'.rfd = b.rfd /\ ch'.rx = b.rx
      /\ a.rus = ch.rus /\ a.rfd = ch.rfd /\ a.rx = ch.rx
  BY <1>1, <1>4 DEF ChFields
<1>7. \A n \in {"rbd", "el", "frame", "part", "first", "firstEl", "last"} : ch'[n] = b[n] /\ a[n] = ch[n]
  BY <1>1, <1>4 DEF ChFields
<1>8. c.ruc \in {"NOP", "START"} =>
              \A n \in {"rbd", "el", "frame", "part", "first", "firstEl", "last"} : ch'[n] = ch[n]
  BY <1>2, <1>7
<1>9. /\ c.ruc = "START" /\ ch.rus # "READY" =>
              ch'.rus = "READY" /\ ch'.rfd = scb.rfa /\ ch'.rx = "arm"
      /\ c.ruc = "NOP" \/ (c.ruc = "START" /\ ch.rus = "READY") =>
              ch'.rus = ch.rus /\ ch'.rfd = ch.rfd /\ ch'.rx = ch.rx
  BY <1>2, <1>6
<1> QED BY <1>1, <1>4, <1>5, <1>8, <1>9

\* The chip keeps the shapes.
LEMMA ChipShapes ==
  ASSUME Shapes, ChipStep
  PROVE  Shapes'
<1> USE DEF Shapes, ScbOK, ScbFields
<1>1. CASE Wake
  BY <1>1 DEF Wake, ChFields
<1>2. CASE Announce
  BY <1>2 DEF Announce, ChFields
<1>3. CASE TakeCommand
  <2>1. DOMAIN ch' = ChFields
    BY <1>3, TakenIs
  <2> QED BY <1>3, <2>1 DEF TakeCommand
<1>4. CASE Answer
  BY <1>4 DEF Answer, ChFields
<1>5. CASE Publish
  BY <1>5 DEF Publish
<1>6. CASE CuComplete
  <2>1. owed' \in Seq(Nat)
    BY <1>6, WithoutKeeps DEF CuComplete
  <2>2. DOMAIN cbs' = 0..2 /\ \A c \in 0..2 : DOMAIN cbs'[c] = CbFields
    BY <1>6 DEF CuComplete, CbFields
  <2>3. DOMAIN ch' = ChFields
    BY <1>6 DEF CuComplete, ChFields
  <2> QED BY <1>6, <2>1, <2>2, <2>3 DEF CuComplete
<1>7. CASE CuEnd
  BY <1>7 DEF CuEnd, ChFields
<1>8. CASE ArmFirst
  <2>1. DOMAIN ch' = ChFields
    BY <1>8 DEF ArmFirst, ChFields
  <2> QED BY <1>8, <2>1 DEF ArmFirst
<1>9. ASSUME NEW last, Filled(last)
      PROVE  DOMAIN rbds' = {0, 1} /\ \A b \in {0, 1} : DOMAIN rbds'[b] = RbdFields
  BY <1>9 DEF Filled, RbdFields
<1>10. CASE FillOn
  <2>1. DOMAIN ch' = ChFields
    <3> DEFINE c == Cleared(ch)
    <3>1. DOMAIN c = ChFields
      BY DEF Cleared, ChFields
    <3>2. \/ ch' = [c EXCEPT !.rx = "ready", !.rbd = ch.first, !.el = ch.firstEl]
          \/ \E b, e, p : ch' = [ch EXCEPT !.rbd = b, !.el = e, !.part = p]
      BY <1>10 DEF FillOn
    <3> HIDE DEF c
    <3> QED BY <3>1, <3>2 DEF ChFields
  <2> QED BY <1>10, <1>9, <2>1 DEF FillOn
<1>11. CASE FillEnd
  <2>1. DOMAIN rfds' = {0} /\ DOMAIN rfds'[0] = RfdFields
    BY <1>11 DEF FillEnd, RfdFields
  <2>2. DOMAIN ch' = ChFields
    BY <1>11 DEF FillEnd, ChFields
  <2> QED BY <1>11, <1>9, <2>1, <2>2 DEF FillEnd
<1>12. CASE File
  <2>1. DOMAIN rfds' = {0} /\ DOMAIN rfds'[0] = RfdFields
    BY <1>12 DEF File, RfdFields
  <2>2. DOMAIN ch' = ChFields
    BY <1>12 DEF File, ChFields
  <2> QED BY <1>12, <2>1, <2>2 DEF File
<1>13. CASE Advance
  <2>1. DOMAIN ch' = ChFields
    <3> DEFINE c == [Cleared(ch) EXCEPT !.rfd = rfds[ch.rfd].next]
    <3>1. DOMAIN c = ChFields
      BY DEF Cleared, ChFields
    <3>2. \E x, s, e, u, f, b : \/ ch' = [c EXCEPT !.rx = x, !.rus = s, !.el = e, !.flags = f]
                                \/ ch' = [c EXCEPT !.rx = x, !.rus = s, !.suspend = u, !.flags = f]
                                \/ ch' = [c EXCEPT !.rx = x, !.rbd = b, !.el = e]
      BY <1>13 DEF Advance
    <3> HIDE DEF c
    <3> QED BY <3>1, <3>2 DEF ChFields
  <2> QED BY <1>13, <2>1 DEF Advance
<1> QED BY <1>1, <1>2, <1>3, <1>4, <1>5, <1>6, <1>7, <1>8, <1>10, <1>11, <1>12, <1>13
        DEF ChipStep, Handler, CommandUnit, Filing

\* Only the program calls iexmit.
LEMMA ToSend ==
  ASSUME CallOK(th), Step
  PROVE  th'.pc # "xmit"
<1>1. DOMAIN th = ThFields
  BY DEF CallOK
<1>2. CASE \E l : l # "xmit" /\ (th' = Goto(l) \/ (\E n : th' = [Goto(l) EXCEPT !.tries = n])
                                              \/ \E f : th' = [Goto(l) EXCEPT !.frame = f])
  <2>1. PICK l : l # "xmit" /\ (th' = Goto(l) \/ (\E n : th' = [Goto(l) EXCEPT !.tries = n])
                                              \/ \E f : th' = [Goto(l) EXCEPT !.frame = f])
    BY <1>2
  <2>2. Goto(l).pc = l /\ DOMAIN Goto(l) = ThFields
    BY <1>1, GotoIs
  <2> QED BY <2>1, <2>2 DEF ThFields
<1>3. CASE th' = AtRest
  BY <1>3 DEF AtRest
<1>4. CASE th.ret # <<>> /\ \E ok : th' = Return(ok)
  <2>1. Head(th.ret) # "xmit"
    <3>1. \E r \in Backs : th.ret \in {<<r>>, <<"reset.end", r>>, <<"reset.iaddr", r>>,
                                     <<"reset.conf", r>>, <<"xmit.end", "idle">>}
      BY <1>4 DEF CallOK, OfXmit, OfReset, Backs
    <3> QED BY <3>1, Stacks DEF Backs
  <2> QED BY <1>1, <1>4, <2>1, ReturnIs DEF AtRest
<1>5. CASE \E o, l, back : l # "xmit" /\ (th' = Call(th, l, back) \/ th' = Call([th EXCEPT !.op = o], l, back))
  <2>1. PICK o, l, back : l # "xmit" /\ (th' = Call(th, l, back) \/ th' = Call([th EXCEPT !.op = o], l, back))
    BY <1>5
  <2>2. DOMAIN [th EXCEPT !.op = o] = ThFields
    BY <1>1
  <2>3. Call(th, l, back).pc = l
    BY <1>1 DEF Call, ThFields
  <2>4. Call([th EXCEPT !.op = o], l, back).pc = l
    <3> DEFINE t == [th EXCEPT !.op = o]
    <3> HIDE DEF t
    <3>1. Call(t, l, back).pc = l
      BY <2>2 DEF Call, ThFields, t
    <3> QED BY <3>1 DEF t
  <2> QED BY <2>1, <2>3, <2>4
<1>6. th.pc \notin {"idle", "opened", "close"} => th.ret # <<>>
  <2>1. \A a, b : <<a>> # <<>> /\ <<a, b>> # <<>>
    OBVIOUS
  <2> QED BY <2>1 DEF CallOK, OfXmit, OfReset
<1>7. CASE iesimple
  BY <1>2, <1>4, <1>6, <1>7 DEF iesimple, ClearBlock, StartBlock, BlockDone, AckBlock, SimpleTimeout,
     XmitTooLate, At
<1>8. CASE ierustart
  BY <1>2, <1>4, <1>6, <1>8 DEF ierustart, RuLook, RuStop, RuTimeout, RuBuffers, RuFrame, At
<1>9. CASE iexmit
  BY <1>3, <1>5, <1>9 DEF iexmit, XmitStart, XmitEnd
<1>10. CASE iepoll
  BY <1>2, <1>4, <1>6, <1>10 DEF iepoll, PollLook, PollCopy, PollTimeout, PollAck, At
<1>11. CASE iereset
  BY <1>2, <1>4, <1>5, <1>6, <1>11 DEF iereset, ResetChips, Zap, Busy, Again, ResetConf, OnTheWire,
     ResetEnd, At
<1>12. CASE ieinit \/ ieopen \/ ieclose
  BY <1>2, <1>3, <1>12 DEF ieinit, ieopen, ieclose
<1> QED BY <1>7, <1>8, <1>9, <1>10, <1>11, <1>12 DEF Step

\* And so does the driver.
LEMMA StepShapes ==
  ASSUME Types, Step
  PROVE  Shapes' /\ EsOK' /\ SendOK' /\ es'.sent = es.sent /\ es'.prompt = es.prompt
         /\ es'.kind = es.kind
<1>1. ScbOK'
  <2>1. DOMAIN scb = ScbFields
    BY DEF Types, Shapes, ScbOK
  <2>2. CASE \E cuc, ruc : Asks(cuc, ruc)
    BY <2>1, <2>2 DEF Asks, ScbOK
  <2>3. CASE RuFrame
    BY <2>1, <2>3 DEF RuFrame, ScbOK, ScbFields
  <2>4. CASE ResetChips
    BY <2>4 DEF ResetChips, Resets, ZeroScb, ScbOK, ScbFields
  <2>5. CASE scb' = scb
    BY <2>1, <2>5 DEF ScbOK
  <2>6. \/ \E cuc, ruc : Asks(cuc, ruc)
        \/ RuFrame \/ ResetChips \/ scb' = scb
    BY DEF Step, iesimple, ierustart, iexmit, iepoll, iereset, ClearBlock, StartBlock, BlockDone,
       AckBlock, SimpleTimeout, XmitTooLate, RuLook, RuStop, RuTimeout, RuBuffers, XmitStart, XmitEnd,
       PollLook, PollCopy, PollTimeout, PollAck, ieinit, Zap, Busy, Again, ResetConf, OnTheWire,
       ResetEnd, ieopen, ieclose, portVars, mem
  <2> QED BY <2>2, <2>3, <2>4, <2>5, <2>6
<1>2. DOMAIN ch' = ChFields
  <2>1. DOMAIN ch = ChFields
    BY DEF Types, Shapes
  <2>2. CASE Attention
    BY <2>1, <2>2 DEF Attention, ChFields
  <2>3. CASE \E deaf \in BOOLEAN : ch' = ResetChip(deaf)
    BY <2>3 DEF ResetChip, ChFields
  <2>4. CASE ch' = ch
    BY <2>1, <2>4
  <2>5. Attention \/ (\E deaf \in BOOLEAN : ch' = ResetChip(deaf)) \/ ch' = ch
    BY DEF Step, iesimple, ierustart, iexmit, iepoll, iereset, ClearBlock, StartBlock, BlockDone,
       AckBlock, SimpleTimeout, XmitTooLate, RuLook, RuStop, RuTimeout, RuBuffers, RuFrame, XmitStart,
       XmitEnd, PollLook, PollCopy, PollTimeout, PollAck, ieinit, Zap, Busy, Again, ResetConf, OnTheWire,
       ResetEnd, ieopen, ieclose, portVars, mem, Asks, ResetChips, Resets, HeldChip
  <2> QED BY <2>2, <2>3, <2>4, <2>5
<1>3. DOMAIN rfds' = {0} /\ DOMAIN rfds'[0] = RfdFields
  <2>1. DOMAIN rfds = {0} /\ DOMAIN rfds[0] = RfdFields
    BY DEF Types, Shapes
  <2>2. CASE RuFrame
    BY <2>1, <2>2 DEF RuFrame, RfdFields
  <2>3. RuFrame \/ rfds' = rfds
    BY DEF Step, iesimple, ierustart, iexmit, iepoll, iereset, ClearBlock, StartBlock, BlockDone,
       AckBlock, SimpleTimeout, XmitTooLate, RuLook, RuStop, RuTimeout, RuBuffers, XmitStart,
       XmitEnd, PollLook, PollCopy, PollTimeout, PollAck, ieinit, Zap, Busy, Again, ResetConf, OnTheWire,
       ResetEnd, ieopen, ieclose, portVars, mem, ResetChips, Resets
  <2> QED BY <2>1, <2>2, <2>3
<1>4. DOMAIN rbds' = {0, 1} /\ \A b \in {0, 1} : DOMAIN rbds'[b] = RbdFields
  <2>1. DOMAIN rbds = {0, 1} /\ \A b \in {0, 1} : DOMAIN rbds[b] = RbdFields
    BY DEF Types, Shapes
  <2>2. CASE RuBuffers
    BY <2>1, <2>2, RomAssumption DEF RuBuffers, RbdFields
  <2>3. RuBuffers \/ rbds' = rbds
    BY DEF Step, iesimple, ierustart, iexmit, iepoll, iereset, ClearBlock, StartBlock, BlockDone,
       AckBlock, SimpleTimeout, XmitTooLate, RuLook, RuStop, RuTimeout, RuFrame, XmitStart,
       XmitEnd, PollLook, PollCopy, PollTimeout, PollAck, ieinit, Zap, Busy, Again, ResetConf, OnTheWire,
       ResetEnd, ieopen, ieclose, portVars, mem, ResetChips, Resets
  <2> QED BY <2>1, <2>2, <2>3
<1>5. DOMAIN cbs' = 0..2 /\ \A c \in 0..2 : DOMAIN cbs'[c] = CbFields
  <2>1. DOMAIN cbs = 0..2 /\ \A c \in 0..2 : DOMAIN cbs[c] = CbFields
    BY DEF Types, Shapes
  <2>2. CASE ClearBlock
    <3>1. DOMAIN Fresh = CbFields
      BY DEF Fresh, CbFields
    <3> QED BY <2>1, <2>2, <3>1 DEF ClearBlock
  <2>3. ClearBlock \/ cbs' = cbs
    BY DEF Step, iesimple, ierustart, iexmit, iepoll, iereset, StartBlock, BlockDone,
       AckBlock, SimpleTimeout, XmitTooLate, RuLook, RuStop, RuTimeout, RuBuffers, RuFrame, XmitStart,
       XmitEnd, PollLook, PollCopy, PollTimeout, PollAck, ieinit, Zap, Busy, Again, ResetConf, OnTheWire,
       ResetEnd, ieopen, ieclose, portVars, mem, ResetChips, Resets, Asks
  <2> QED BY <2>1, <2>2, <2>3
<1>6. owed' \in Seq(Nat)
  <2>1. owed \in Seq(Nat)
    BY DEF Types, Shapes
  <2>2. CASE XmitStart
    BY <2>1, <2>2 DEF XmitStart, Types, SendOK
  <2>3. CASE ResetChips
    BY <2>3 DEF ResetChips, Resets
  <2>4. XmitStart \/ ResetChips \/ owed' = owed
    BY DEF Step, iesimple, ierustart, iexmit, iepoll, iereset, ClearBlock, StartBlock, BlockDone,
       AckBlock, SimpleTimeout, XmitTooLate, RuLook, RuStop, RuTimeout, RuBuffers, RuFrame,
       XmitEnd, PollLook, PollCopy, PollTimeout, PollAck, ieinit, Zap, Busy, Again, ResetConf, OnTheWire,
       ResetEnd, ieopen, ieclose, portVars, mem, ghosts, Asks
  <2> QED BY <2>1, <2>2, <2>3, <2>4
<1>7. EsOK' /\ es'.sent = es.sent /\ es'.prompt = es.prompt /\ es'.kind = es.kind
  <2>1. DOMAIN es = EsFields /\ es.sent \in Nat
    BY DEF Types, EsOK
  <2>2. CASE \E n \in {"wire", "held", "early"} : Only(n)
    BY <2>1, <2>2 DEF Only, EsOK, EsFields
  <2>3. CASE PollAck \/ ResetChips \/ ieopen \/ ieclose
    BY <2>1, <2>3 DEF PollAck, ResetChips, ieopen, ieclose, EsOK, EsFields
  <2>4. CASE es' = es
    BY <2>1, <2>4 DEF EsOK
  <2>5. \/ \E n \in {"wire", "held", "early"} : Only(n)
        \/ PollAck \/ ResetChips \/ ieopen \/ ieclose \/ es' = es
    BY DEF Step, iesimple, ierustart, iexmit, iepoll, iereset, ClearBlock, StartBlock, BlockDone,
       AckBlock, SimpleTimeout, XmitTooLate, RuLook, RuStop, RuTimeout, RuBuffers, RuFrame,
       XmitStart, XmitEnd, PollLook, PollCopy, PollTimeout, ieinit, Zap, Busy, Again, ResetConf, OnTheWire,
       ResetEnd
  <2> QED BY <2>2, <2>3, <2>4, <2>5
<1>8. SendOK'
  BY ToSend DEF SendOK, At, Types
<1> QED BY <1>1, <1>2, <1>3, <1>4, <1>5, <1>6, <1>7, <1>8 DEF Shapes

\* The program calls; nothing else but the driver touches a call.
LEMMA ProgramIs ==
  ASSUME Types, Program
  PROVE  /\ UNCHANGED portVars /\ CallOK(th') /\ EsOK' /\ SendOK' /\ th.pc = "idle"
         /\ th'.pc \in {"open", "reset", "close", "xmit", "poll"}
         /\ th'.pc \in {"xmit", "poll"} => es.open
         /\ \A n \in EsFields \ {"sent"} : es'[n] = es[n]
<1>1. CallOK(th) /\ DOMAIN th = ThFields /\ DOMAIN es = EsFields /\ es.sent \in Nat
  BY DEF Types, CallOK, EsOK
<1>2. ASSUME NEW t, NEW l, NEW back, th.pc = "idle", DOMAIN t = ThFields, t.ret = th.ret, t.ok = th.ok,
             \/ l = "open" /\ back = "opened"
             \/ l \in {"reset", "xmit", "poll"} /\ back = "idle",
             th' = Call(t, l, back)
      PROVE  CallOK(th') /\ th'.pc = l
  <2>1. CallOK(th')
    BY <1>1, <1>2, CallMade
  <2> QED BY <1>2, <2>1 DEF Call, ThFields
<1> DEFINE t == [th EXCEPT !.tries = Tries]
<1>3. DOMAIN t = ThFields /\ t.ret = th.ret /\ t.ok = th.ok
  BY <1>1 DEF ThFields
<1> HIDE DEF t
<1>4. CASE Open
  <2>1. th.pc = "idle" /\ th' = Call(t, "open", "opened") /\ UNCHANGED <<portVars, es>> /\ ~es.open
    BY <1>4 DEF Open, At, t
  <2>2. CallOK(th') /\ th'.pc = "open"
    BY <1>2, <1>3, <2>1
  <2> QED BY <1>1, <2>1, <2>2 DEF EsOK, SendOK, At
<1>5. CASE ResetAgain
  <2>1. th.pc = "idle" /\ th' = Call(t, "reset", "idle") /\ UNCHANGED <<portVars, es>>
    BY <1>5 DEF ResetAgain, At, t
  <2>2. CallOK(th') /\ th'.pc = "reset"
    BY <1>2, <1>3, <2>1
  <2> QED BY <1>1, <2>1, <2>2 DEF EsOK, SendOK, At
<1>6. CASE Close
  <2>1. th.pc = "idle" /\ th' = Goto("close") /\ UNCHANGED <<portVars, es>>
    BY <1>6 DEF Close, At
  <2>2. CallOK(th')
    BY <1>1, <2>1, GotoOK
  <2>3. th'.pc = "close"
    BY <1>1, <2>1, GotoIs
  <2> QED BY <1>1, <2>1, <2>2, <2>3 DEF EsOK, SendOK, At
<1>7. CASE Send
  <2> DEFINE c == Call(th, "xmit", "idle")
  <2>1. /\ th.pc = "idle" /\ th' = [c EXCEPT !.frame = es.sent] /\ UNCHANGED portVars /\ es.open
        /\ es' = [es EXCEPT !.sent = @ + 1]
    BY <1>7 DEF Send, At
  <2>2. th.ret = <<>>
    BY <1>1, <2>1 DEF CallOK, ResetPcs, PollPcs, RuPcs, SimplePcs
  <2>3. DOMAIN c = ThFields /\ c.pc = "xmit" /\ c.ret = <<"idle">> /\ c.ok = th.ok
    BY <1>1, <2>2, Stacks DEF Call, ThFields
  <2> HIDE DEF c
  <2>4. DOMAIN th' = ThFields /\ th'.pc = "xmit" /\ th'.ret = <<"idle">> /\ th'.ok = th.ok
        /\ th'.frame = es.sent
    BY <2>1, <2>3 DEF ThFields
  <2>5. CallOK(th')
    BY <1>1, <2>4 DEF CallOK
  <2>6. EsOK' /\ \A n \in EsFields \ {"sent"} : es'[n] = es[n]
    BY <1>1, <2>1 DEF EsOK, EsFields
  <2> QED BY <1>1, <2>1, <2>4, <2>5, <2>6 DEF SendOK, At
<1>8. CASE Poll
  <2>1. th.pc = "idle" /\ th' = Call(th, "poll", "idle") /\ UNCHANGED <<portVars, es>> /\ es.open
    BY <1>8 DEF Poll, At
  <2>2. CallOK(th') /\ th'.pc = "poll"
    BY <1>1, <1>2, <2>1
  <2> QED BY <1>1, <2>1, <2>2 DEF EsOK, SendOK, At
<1> QED BY <1>4, <1>5, <1>6, <1>7, <1>8 DEF Program

LEMMA ArriveShapes ==
  ASSUME Shapes, NEW len, Arrive(len)
  PROVE  Shapes'
BY DEF Shapes, ScbOK, Arrive, ChFields

LEMMA TypesInit ==
  ASSUME Init PROVE Types
<1>1. Shapes
  BY RomAssumption DEF Init, Shapes, ScbOK, ScbFields, ZeroScb, HeldChip, ResetChip, ChFields, BlankRfd,
     RfdFields, BlankRbd, RbdFields, BlankCb, CbFields
<1>2. EsOK
  BY DEF Init, EsOK, Softc, EsFields
<1>3. CallOK(th) /\ SendOK
  BY RestOK DEF Init, SendOK, At, AtRest
<1> QED BY <1>1, <1>2, <1>3 DEF Types

LEMMA TypesNext ==
  ASSUME Types, [Next]_vars
  PROVE  Types'
<1>1. CASE Driver
  <2>1. Step
    BY <1>1, DriverIs DEF Types, Shapes
  <2>2. CallOK(th')
    BY <2>1, StepOK DEF Types
  <2> QED BY <2>1, <2>2, StepShapes DEF Types
<1>2. CASE Program
  <2>1. Shapes'
    BY <1>2, ProgramIs DEF Types, Shapes, ScbOK, portVars
  <2> QED BY <1>2, <2>1, ProgramIs DEF Types
<1>3. CASE UNCHANGED romVars /\ Shapes'
  BY <1>3 DEF Types, romVars, EsOK, SendOK, At
<1>4. CASE Chip
  BY <1>3, <1>4, ChipShapes DEF Chip, Types
<1>5. CASE Network
  BY <1>3, <1>5, ArriveShapes DEF Network, Types
<1>6. CASE Lockup
  <2>1. Shapes'
    BY <1>6 DEF Lockup, Types, Shapes, mem, ghosts, ScbOK, ChFields
  <2>2. UNCHANGED <<es, th>>
    BY <1>6 DEF Lockup
  <2> QED BY <2>1, <2>2 DEF Types, EsOK, SendOK, At
<1>7. CASE UNCHANGED vars
  BY <1>7 DEF Types, vars, portVars, romVars, Shapes, ScbOK, EsOK, SendOK, At
<1> QED BY <1>1, <1>2, <1>4, <1>5, <1>6, <1>7 DEF Next

-----------------------------------------------------------------------------
\* iexmit.  From the moment its block is laid out until it is acknowledged, the
\* block is of this frame; and once the chip has completed it, the frame is owed
\* no more.

NotOwed(f) == \A k \in DOMAIN owed : owed[k] # f
Sending == th.pc \in {"simple.start", "simple.done", "simple.ack"} /\ th.op = "XMIT"
SentInv ==
  /\ Sending => /\ cbs[2].op = "XMIT" /\ cbs[2].data = th.frame
                /\ cbs[2].done => NotOwed(th.frame)
  /\ Sending /\ th.pc = "simple.ack" => cbs[2].done
  /\ th.pc = "xmit.end" /\ th.ok => NotOwed(th.frame)

\* The chip completes blocks, and what it has sent it takes off what is owed.
LEMMA ChipSends ==
  ASSUME Types, ChipStep, NEW f
  PROVE  /\ NotOwed(f) => NotOwed(f)'
         /\ cbs'[2].op = cbs[2].op /\ cbs'[2].data = cbs[2].data
         /\ cbs[2].done => cbs'[2].done
         /\ cbs'[2].done => cbs[2].done \/ (cbs[2].op = "XMIT" /\ cbs[2].data = f => NotOwed(f)')
<1>1. /\ owed \in Seq(Nat) /\ DOMAIN cbs = 0..2 /\ DOMAIN cbs[2] = CbFields
  BY DEF Types, Shapes
<1>2. CASE CuComplete
  <2>1. cbs' = [cbs EXCEPT ![ch.cb].done = TRUE]
    BY <1>2 DEF CuComplete
  <2>2. owed' = IF cbs[ch.cb].op = "XMIT" THEN Without(owed, {cbs[ch.cb].data}) ELSE owed
    BY <1>2 DEF CuComplete
  <2>3. NotOwed(f) => NotOwed(f)'
    BY <1>1, <2>2, WithoutAdds DEF NotOwed
  <2>4. CASE ch.cb = 2
    <3>1. cbs'[2].op = cbs[2].op /\ cbs'[2].data = cbs[2].data /\ cbs'[2].done
      BY <1>1, <2>1, <2>4 DEF CbFields
    <3>2. cbs[2].op = "XMIT" /\ cbs[2].data = f => NotOwed(f)'
      BY <1>1, <2>2, <2>4, WithoutKeeps DEF NotOwed
    <3> QED BY <2>3, <3>1, <3>2
  <2>5. CASE ch.cb # 2
    <3>1. cbs'[2] = cbs[2]
      BY <1>1, <2>1, <2>5
    <3> QED BY <2>3, <3>1
  <2> QED BY <2>4, <2>5
<1>3. UNCHANGED <<owed, cbs>> \/ CuComplete
  BY DEF ChipStep, Handler, CommandUnit, Filing, Wake, Announce, TakeCommand, Answer, Publish, CuEnd,
     ArmFirst, FillOn, FillEnd, File, Advance
<1>4. CASE UNCHANGED <<owed, cbs>>
  BY <1>4 DEF NotOwed
<1> QED BY <1>2, <1>3, <1>4

LEMMA StepSends ==
  ASSUME Types, SentInv, Step
  PROVE  SentInv'
<1>1. CallOK(th) /\ DOMAIN th = ThFields /\ DOMAIN cbs = 0..2
  BY DEF Types, CallOK, Shapes
<1>2. ASSUME th'.pc \notin {"simple.start", "simple.done", "simple.ack", "xmit.end"}
      PROVE  SentInv'
  BY <1>2 DEF SentInv, Sending
<1>3. ASSUME NEW l, th' = Goto(l)
      PROVE  th'.pc = l /\ th'.op = th.op /\ th'.frame = th.frame /\ th'.ok = th.ok
  BY <1>1, <1>3, GotoIs DEF ThFields
<1>4. ASSUME NEW ok, th' = Return(ok), th.pc \notin {"idle", "opened", "close"}
      PROVE  \/ th'.pc \notin {"simple.start", "simple.done", "simple.ack", "xmit.end"}
             \/ /\ th'.pc = "xmit.end" /\ th'.ok = ok /\ th'.frame = th.frame
                /\ th.pc \in SimplePcs /\ th.op = "XMIT"
  <2>1. CASE OfXmit(th) /\ th.pc \in SimplePcs
    <3>1. th'.pc = "xmit.end" /\ th'.ok = ok /\ th'.frame = th.frame
      BY <1>1, <1>4, <2>1, ReturnIs, Stacks DEF OfXmit, ThFields
    <3> QED BY <2>1, <3>1 DEF OfXmit
  <2>2. CASE ~(OfXmit(th) /\ th.pc \in SimplePcs)
    <3>1. PICK a, b : /\ a \in {"idle", "opened", "reset.end", "reset.iaddr", "reset.conf"}
                      /\ th.ret \in {<<a>>, <<a, b>>}
      <4>1. CASE th.pc \in SimplePcs
        BY <1>1, <2>2, <4>1 DEF CallOK, OfReset, ResetPcs, PollPcs, RuPcs, SimplePcs
      <4>2. CASE th.pc \notin SimplePcs
        BY <1>1, <1>4, <4>2 DEF CallOK, Backs
      <4> QED BY <4>1, <4>2
    <3>2. Head(th.ret) = a
      BY <3>1, Stacks
    <3>3. th'.pc = a
      BY <1>1, <1>4, <3>1, <3>2, ReturnIs DEF AtRest
    <3> QED BY <3>1, <3>3
  <2> QED BY <2>1, <2>2
<1>5. CASE ClearBlock
  <2>1. th'.pc = "simple.start" /\ th'.op = th.op /\ th'.frame = th.frame
    BY <1>3, <1>5 DEF ClearBlock
  <2>2. th.op = "XMIT" => cbs'[2] = Fresh
    BY <1>1, <1>5 DEF ClearBlock, Block
  <2>3. Fresh.op = th.op /\ Fresh.data = th.frame /\ Fresh.done = FALSE
    BY DEF Fresh
  <2> QED BY <2>1, <2>2, <2>3 DEF SentInv, Sending
<1>6. CASE StartBlock \/ BlockDone
  <2>1. /\ UNCHANGED <<cbs, owed>> /\ th'.op = th.op /\ th'.frame = th.frame
        /\ \/ th.pc = "simple.start" /\ th'.pc = "simple.done"
           \/ th.pc = "simple.done" /\ th'.pc = "simple.ack" /\ DoneBlock
    BY <1>3, <1>6 DEF StartBlock, BlockDone, Asks, portVars, At
  <2>2. th.op = "XMIT" /\ DoneBlock => cbs[2].done
    BY DEF DoneBlock, Block
  <2>3. NotOwed(th.frame)' <=> NotOwed(th.frame)
    BY <2>1 DEF NotOwed
  <2> QED BY <2>1, <2>2, <2>3 DEF SentInv, Sending
<1>7. CASE AckBlock
  <2>1. UNCHANGED <<cbs, owed>> /\ th.pc = "simple.ack" /\ th' = Return(TRUE)
    BY <1>7 DEF AckBlock, Asks, At
  <2>2. CASE th'.pc = "xmit.end" /\ th'.frame = th.frame /\ th.op = "XMIT"
    <3>1. NotOwed(th.frame)
      BY <2>1, <2>2 DEF SentInv, Sending
    <3> QED BY <2>1, <2>2, <3>1 DEF SentInv, Sending, NotOwed
  <2> QED BY <1>2, <1>4, <2>1, <2>2
<1>8. CASE SimpleTimeout \/ XmitTooLate
  <2>1. th.pc \notin {"idle", "opened", "close"} /\ th' = Return(FALSE)
    BY <1>8 DEF SimpleTimeout, XmitTooLate, At
  <2>2. CASE th'.pc = "xmit.end" /\ th'.ok = FALSE
    BY <2>2 DEF SentInv, Sending
  <2> QED BY <1>2, <1>4, <2>1, <2>2
<1>9. ASSUME \/ th.pc \in ResetPcs \cup RuPcs \cup PollPcs /\ \E ok : th' = Return(ok)
             \/ \E l : /\ l \notin {"simple.start", "simple.done", "simple.ack", "xmit.end"}
                       /\ \/ th' = Goto(l)
                          \/ \E n : th' = [Goto(l) EXCEPT !.tries = n]
                          \/ \E n : th' = [Goto(l) EXCEPT !.frame = n]
             \/ \E o, b : th' = Call([th EXCEPT !.op = o], "simple", b)
             \/ \E b : th' = Call(th, "ru", b)
             \/ th' = AtRest
      PROVE  SentInv'
  <2>1. CASE th.pc \in ResetPcs \cup RuPcs \cup PollPcs /\ \E ok : th' = Return(ok)
    <3>1. th.pc \notin {"idle", "opened", "close"} /\ th.pc \notin SimplePcs
      BY <2>1 DEF ResetPcs, RuPcs, PollPcs, SimplePcs
    <3> QED BY <1>2, <1>4, <2>1, <3>1
  <2>2. CASE \E l : /\ l \notin {"simple.start", "simple.done", "simple.ack", "xmit.end"}
                    /\ \/ th' = Goto(l)
                       \/ \E n : th' = [Goto(l) EXCEPT !.tries = n]
                       \/ \E n : th' = [Goto(l) EXCEPT !.frame = n]
    <3>1. PICK l : /\ l \notin {"simple.start", "simple.done", "simple.ack", "xmit.end"}
                    /\ \/ th' = Goto(l)
                       \/ \E n : th' = [Goto(l) EXCEPT !.tries = n]
                       \/ \E n : th' = [Goto(l) EXCEPT !.frame = n]
      BY <2>2
    <3>2. DOMAIN Goto(l) = ThFields /\ Goto(l).pc = l
      BY <1>1, GotoIs
    <3> HIDE DEF Goto
    <3>3. th'.pc = l
      BY <3>1, <3>2 DEF ThFields
    <3> QED BY <1>2, <3>1, <3>3
  <2>3. CASE \E o, b : th' = Call([th EXCEPT !.op = o], "simple", b)
    <3>1. th'.pc = "simple"
      BY <1>1, <2>3 DEF Call, ThFields
    <3> QED BY <1>2, <3>1
  <2>4. CASE \E b : th' = Call(th, "ru", b)
    <3>1. th'.pc = "ru"
      BY <1>1, <2>4 DEF Call, ThFields
    <3> QED BY <1>2, <3>1
  <2>5. CASE th' = AtRest
    BY <1>2, <2>5 DEF AtRest
  <2> QED BY <1>9, <2>1, <2>2, <2>3, <2>4, <2>5
<1>10. CASE iesimple
  BY <1>5, <1>6, <1>7, <1>8, <1>10 DEF iesimple
<1>11. CASE ierustart
  BY <1>9, <1>11 DEF ierustart, RuLook, RuStop, RuTimeout, RuBuffers, RuFrame, At, RuPcs
<1>12. CASE iexmit
  BY <1>9, <1>12 DEF iexmit, XmitStart, XmitEnd
<1>13. CASE iepoll
  BY <1>9, <1>13 DEF iepoll, PollLook, PollCopy, PollTimeout, PollAck, At, PollPcs
<1>14. CASE iereset
  BY <1>9, <1>14 DEF iereset, ResetChips, Zap, Busy, Again, ResetConf, OnTheWire, ResetEnd, At, ResetPcs
<1>15. CASE ieinit \/ ieopen \/ ieclose
  BY <1>9, <1>15 DEF ieinit, ieopen, ieclose
<1> QED BY <1>10, <1>11, <1>12, <1>13, <1>14, <1>15 DEF Step

LEMMA SentNext ==
  ASSUME Types, SentInv, [Next]_vars
  PROVE  SentInv'
<1>1. CASE Driver
  <2>1. Step
    BY <1>1, DriverIs DEF Types, Shapes
  <2> QED BY <2>1, StepSends
<1>2. CASE Program
  BY <1>2, ProgramIs DEF SentInv, Sending
<1>3. CASE Chip
  <2>1. UNCHANGED th /\ ChipStep
    BY <1>3 DEF Chip, romVars
  <2>2. \A f : /\ NotOwed(f) => \A k \in DOMAIN owed' : owed'[k] # f
               /\ cbs'[2].op = cbs[2].op /\ cbs'[2].data = cbs[2].data
               /\ cbs[2].done => cbs'[2].done
               /\ cbs'[2].done => \/ cbs[2].done
                                  \/ cbs[2].op = "XMIT" /\ cbs[2].data = f =>
                                       \A k \in DOMAIN owed' : owed'[k] # f
    BY <2>1, ChipSends DEF NotOwed
  <2>3. NotOwed(th.frame)' <=> \A k \in DOMAIN owed' : owed'[k] # th.frame
    BY <2>1 DEF NotOwed
  <2> QED BY <2>1, <2>2, <2>3, Zenon DEF SentInv, Sending
<1>4. CASE UNCHANGED <<th, cbs, owed>>
  BY <1>4 DEF SentInv, Sending, NotOwed
<1>5. CASE Network \/ Lockup \/ UNCHANGED vars
  BY <1>4, <1>5 DEF Network, Arrive, Lockup, vars, portVars, romVars, mem, ghosts
<1> QED BY <1>1, <1>2, <1>3, <1>5 DEF Next

\* What the calls, the shapes and iexmit's block are, they stay.
LEMMA SentInvariant == Spec => [](Types /\ SentInv)
<1>1. ASSUME Init PROVE SentInv
  BY <1>1 DEF Init, SentInv, Sending, AtRest
<1> QED BY <1>1, TypesInit, TypesNext, SentNext, PTL DEF Spec

\* iexmit says a frame went out only when it did: between the clearing of the
\* block's status and the acknowledgement only the chip sets it, and whoever
\* gave up waiting says so.
THEOREM SentIsReported == Spec => []SentAsReported
<1>1. SentInv => SentAsReported
  BY DEF SentInv, SentAsReported, At, NotOwed
<1> QED BY <1>1, SentInvariant, PTL

-----------------------------------------------------------------------------
\* The chip's steps, register by register.

SameCore ==
  ch'.up = ch.up /\ ch'.deaf = ch.deaf /\ ch'.ca = ch.ca /\ ch'.core = ch.core
SameCu == ch'.cus = ch.cus /\ ch'.cb = ch.cb /\ ch'.cuStep = ch.cuStep
SameFrame ==
  /\ ch'.frame = ch.frame /\ ch'.part = ch.part /\ ch'.first = ch.first
  /\ ch'.firstEl = ch.firstEl /\ ch'.last = ch.last
SameRx ==
  /\ ch'.rus = ch.rus /\ ch'.rfd = ch.rfd /\ ch'.rbd = ch.rbd /\ ch'.el = ch.el
  /\ ch'.rx = ch.rx /\ SameFrame
SameFiles == UNCHANGED <<rfds, rbds, filed, wire>>
SameLists == scb'.cmd = scb.cmd /\ scb'.cbl = scb.cbl /\ scb'.rfa = scb.rfa

Woken ==
  /\ ch.ca /\ ~ch.deaf /\ ~ch.up /\ ch.core = "idle" /\ ~busy'
  /\ ch'.core = "waking" /\ ~ch'.ca /\ ch'.up = ch.up /\ ch'.deaf = ch.deaf
  /\ SameCu /\ SameRx /\ UNCHANGED <<scb, cbs>> /\ SameFiles
Announced ==
  /\ ch.core = "waking" /\ ch'.core = "idle" /\ ch'.up
  /\ ch'.deaf = ch.deaf /\ ch'.ca = ch.ca /\ SameCu /\ SameRx
  /\ scb'.status.rus = "IDLE" /\ SameLists /\ UNCHANGED <<busy, cbs>> /\ SameFiles
Taken ==
  /\ ch.up /\ ch.ca /\ ~ch.deaf /\ ch.core = "idle"
  /\ ch'.core = "answer" /\ ~ch'.ca /\ ch'.up = ch.up /\ ch'.deaf = ch.deaf
  /\ IF scb.cmd.cuc = "START" /\ ch.cus # "ACTIVE"
     THEN ch'.cus = "ACTIVE" /\ ch'.cb = scb.cbl /\ ch'.cuStep = "run" ELSE SameCu
  /\ scb.cmd.ruc = "START" /\ ch.rus # "READY" =>
       ch'.rus = "READY" /\ ch'.rfd = scb.rfa /\ ch'.rx = "arm"
  /\ scb.cmd.ruc = "NOP" \/ (scb.cmd.ruc = "START" /\ ch.rus = "READY") => SameRx
  /\ UNCHANGED <<scb, busy, cbs>> /\ SameFiles
Answered ==
  /\ ch.core = "answer" /\ ch'.core = "idle"
  /\ ch'.up = ch.up /\ ch'.deaf = ch.deaf /\ ch'.ca = ch.ca /\ SameCu /\ SameRx
  /\ scb'.status.rus = ch.rus /\ scb'.cmd = NoCommand /\ UNCHANGED <<busy, cbs>> /\ SameFiles
Published ==
  /\ ch.up /\ ch.core = "idle" /\ ch' = ch
  /\ scb'.status.rus = ch.rus /\ SameLists /\ UNCHANGED <<busy, cbs>> /\ SameFiles
Completed ==
  /\ ch.cuStep = "run" /\ ch.core # "answer" /\ ch'.cuStep = "end"
  /\ ch'.cus = ch.cus /\ ch'.cb = ch.cb /\ SameCore /\ SameRx
  /\ cbs' = [cbs EXCEPT ![ch.cb].done = TRUE] /\ UNCHANGED <<scb, busy>> /\ SameFiles
Ended ==
  /\ ch.cuStep = "end" /\ ch'.cuStep = "none" /\ ch'.cus = "IDLE"
  /\ ch'.cb = ch.cb /\ SameCore /\ SameRx /\ UNCHANGED <<scb, busy, cbs>> /\ SameFiles

\* The receive unit's own.
Armed ==
  /\ ch.rx = "arm" /\ ch'.rfd = ch.rfd /\ SameFrame /\ SameFiles
  /\ \/ rfds[ch.rfd].rbd = Null /\ ch'.rus = "NO_RESOURCE" /\ ch'.rx = "none"
     \/ /\ rfds[ch.rfd].rbd # Null /\ ch'.rus = ch.rus /\ ch'.rx = "ready"
        /\ ch'.rbd = rfds[ch.rfd].rbd /\ ch'.el = rbds[rfds[ch.rfd].rbd].el
Arrived(len) ==
  /\ ch.rx = "ready" /\ ch'.rx = "fill" /\ ch'.rus = ch.rus /\ ch'.rfd = ch.rfd
  /\ ch'.rbd = ch.rbd /\ ch'.el = ch.el /\ ch'.part = 1
  /\ ch'.first = ch.rbd /\ ch'.firstEl = ch.el
  /\ ch'.frame = [id |-> wire, len |-> len] /\ wire' = wire + 1
  /\ UNCHANGED <<rfds, rbds, filed>>
FilledOn ==
  /\ ch.rx = "fill" /\ ch.part < ch.frame.len /\ ch'.rus = ch.rus /\ ch'.rfd = ch.rfd
  /\ Filled(FALSE) /\ UNCHANGED <<rfds, filed, wire>>
  /\ \/ ch.el /\ ch'.rx = "ready" /\ ch'.rbd = ch.first /\ ch'.el = ch.firstEl
     \/ /\ ~ch.el /\ ch'.rx = "fill" /\ ch'.rbd = rbds[ch.rbd].next
        /\ ch'.el = rbds[rbds[ch.rbd].next].el /\ ch'.part = ch.part + 1
        /\ ch'.frame = ch.frame /\ ch'.first = ch.first /\ ch'.firstEl = ch.firstEl
FilledEnd ==
  /\ ch.rx = "fill" /\ ch.part = ch.frame.len /\ ch'.rus = ch.rus /\ ch'.rfd = ch.rfd
  /\ Filled(TRUE) /\ rfds' = [rfds EXCEPT ![ch.rfd].rbd = ch.first]
  /\ ch'.rx = "file" /\ ch'.last = rfds[ch.rfd].el /\ ch'.frame = ch.frame
  /\ ch'.first = ch.first /\ UNCHANGED <<filed, wire>>
FiledIt ==
  /\ ch.rx = "file" /\ ch'.rx = "link" /\ ch'.rus = ch.rus /\ ch'.rfd = ch.rfd
  /\ rfds' = [rfds EXCEPT ![ch.rfd].done = TRUE] /\ filed' = Append(filed, ch.frame)
  /\ ch'.last = ch.last /\ UNCHANGED <<rbds, wire>>
Advanced ==
  /\ ch.rx = "link" /\ SameFiles
  /\ ch.last => ch'.rx = "none" /\ ch'.rus = "NO_RESOURCE"
RxMoves ==
  /\ SameCore /\ SameCu /\ UNCHANGED <<scb, busy, cbs>>
  /\ \/ Armed \/ (\E len \in 1..MaxLen : Arrived(len))
     \/ FilledOn \/ FilledEnd \/ FiledIt \/ Advanced

ChipMoves == \/ Woken \/ Announced \/ Taken \/ Answered \/ Published
             \/ Completed \/ Ended \/ RxMoves

LEMMA ChipIs ==
  ASSUME Shapes, ChipStep \/ \E len \in 1..MaxLen : Arrive(len)
  PROVE  ChipMoves
<1> USE DEF SameCore, SameCu, SameFrame, SameRx, SameFiles, SameLists
<1>1. DOMAIN ch = ChFields /\ DOMAIN scb = ScbFields
  BY DEF Shapes, ScbOK
<1>2. CASE Wake
  BY <1>1, <1>2 DEF Wake, Woken, ChipMoves, ChFields
<1>3. CASE Announce
  <2>1. Announced
    BY <1>1, <1>3 DEF Announce, Announced, ChFields, ScbFields, ZeroStatus
  <2> QED BY <2>1 DEF ChipMoves
<1>4. CASE TakeCommand
  <2>1. Taken
    BY <1>1, <1>4, TakenIs DEF TakeCommand, Taken
  <2> QED BY <2>1 DEF ChipMoves
<1>5. CASE Answer
  <2>1. Answered
    BY <1>1, <1>5 DEF Answer, Answered, ChFields, ScbFields, ShownStatus
  <2> QED BY <2>1 DEF ChipMoves
<1>6. CASE Publish
  <2>1. Published
    BY <1>1, <1>6 DEF Publish, Published, ScbFields, ShownStatus
  <2> QED BY <2>1 DEF ChipMoves
<1>7. CASE CuComplete
  BY <1>1, <1>7 DEF CuComplete, Completed, ChipMoves, ChFields
<1>8. CASE CuEnd
  BY <1>1, <1>8 DEF CuEnd, Ended, ChipMoves, ChFields
<1>9. CASE ArmFirst
  <2>1. Armed /\ SameCore /\ SameCu /\ UNCHANGED <<scb, busy, cbs>>
    BY <1>1, <1>9 DEF ArmFirst, Armed, ChFields
  <2> QED BY <2>1 DEF RxMoves, ChipMoves
<1>10. ASSUME NEW len \in 1..MaxLen, Arrive(len)
       PROVE  ChipMoves
  <2>1. Arrived(len) /\ SameCore /\ SameCu /\ UNCHANGED <<scb, busy, cbs>>
    BY <1>1, <1>10 DEF Arrive, Arrived, ChFields
  <2> QED BY <2>1 DEF RxMoves, ChipMoves
<1>11. CASE FillOn
  <2> DEFINE c == Cleared(ch)
  <2>1. /\ DOMAIN c = ChFields /\ c.up = ch.up /\ c.deaf = ch.deaf /\ c.ca = ch.ca /\ c.core = ch.core
        /\ c.cus = ch.cus /\ c.cb = ch.cb /\ c.cuStep = ch.cuStep /\ c.rus = ch.rus /\ c.rfd = ch.rfd
    BY <1>1 DEF Cleared, ChFields
  <2>2. \/ ch.el /\ ch' = [c EXCEPT !.rx = "ready", !.rbd = ch.first, !.el = ch.firstEl]
        \/ /\ ~ch.el
           /\ ch' = [ch EXCEPT !.rbd = rbds[ch.rbd].next, !.el = rbds[rbds[ch.rbd].next].el,
                               !.part = @ + 1]
    BY <1>11 DEF FillOn
  <2> HIDE DEF c
  <2>3. /\ SameCore /\ SameCu /\ ch'.rus = ch.rus /\ ch'.rfd = ch.rfd
        /\ \/ ch.el /\ ch'.rx = "ready" /\ ch'.rbd = ch.first /\ ch'.el = ch.firstEl
           \/ /\ ~ch.el /\ ch'.rx = ch.rx /\ ch'.rbd = rbds[ch.rbd].next
              /\ ch'.el = rbds[rbds[ch.rbd].next].el /\ ch'.part = ch.part + 1
              /\ ch'.frame = ch.frame /\ ch'.first = ch.first /\ ch'.firstEl = ch.firstEl
    <3>1. CASE ch.el /\ ch' = [c EXCEPT !.rx = "ready", !.rbd = ch.first, !.el = ch.firstEl]
      BY <2>1, <3>1 DEF ChFields
    <3>2. CASE /\ ~ch.el
               /\ ch' = [ch EXCEPT !.rbd = rbds[ch.rbd].next, !.el = rbds[rbds[ch.rbd].next].el,
                                   !.part = @ + 1]
      BY <1>1, <3>2 DEF ChFields
    <3> QED BY <2>2, <3>1, <3>2
  <2>4. FilledOn /\ UNCHANGED <<scb, busy, cbs>>
    BY <1>11, <2>3 DEF FillOn, FilledOn
  <2> QED BY <2>3, <2>4 DEF RxMoves, ChipMoves
<1>12. CASE FillEnd
  <2>1. FilledEnd /\ SameCore /\ SameCu /\ UNCHANGED <<scb, busy, cbs>>
    BY <1>1, <1>12 DEF FillEnd, FilledEnd, ChFields
  <2> QED BY <2>1 DEF RxMoves, ChipMoves
<1>13. CASE File
  <2>1. FiledIt /\ SameCore /\ SameCu /\ UNCHANGED <<scb, busy, cbs>>
    BY <1>1, <1>13 DEF File, FiledIt, ChFields
  <2> QED BY <2>1 DEF RxMoves, ChipMoves
<1>14. CASE Advance
  <2> DEFINE c == [Cleared(ch) EXCEPT !.rfd = rfds[ch.rfd].next]
  <2>1. /\ DOMAIN c = ChFields /\ c.up = ch.up /\ c.deaf = ch.deaf /\ c.ca = ch.ca /\ c.core = ch.core
        /\ c.cus = ch.cus /\ c.cb = ch.cb /\ c.cuStep = ch.cuStep
    BY <1>1 DEF Cleared, ChFields
  <2>2. \/ \E x, s, u, f : ch' = [c EXCEPT !.rx = x, !.rus = s, !.suspend = u, !.flags = f]
        \/ \E x, b, e : ch' = [c EXCEPT !.rx = x, !.rbd = b, !.el = e]
        \/ \E x, s, e, f : ch' = [c EXCEPT !.rx = x, !.rus = s, !.el = e, !.flags = f]
    BY <1>14 DEF Advance
  <2>3. ch.last => \E e, f : ch' = [c EXCEPT !.rx = "none", !.rus = "NO_RESOURCE", !.el = e, !.flags = f]
    BY <1>14 DEF Advance
  <2> HIDE DEF c
  <2>4. SameCore /\ SameCu
    <3>1. CASE \E x, s, u, f : ch' = [c EXCEPT !.rx = x, !.rus = s, !.suspend = u, !.flags = f]
      BY <2>1, <3>1 DEF ChFields
    <3>2. CASE \E x, b, e : ch' = [c EXCEPT !.rx = x, !.rbd = b, !.el = e]
      BY <2>1, <3>2 DEF ChFields
    <3>3. CASE \E x, s, e, f : ch' = [c EXCEPT !.rx = x, !.rus = s, !.el = e, !.flags = f]
      BY <2>1, <3>3 DEF ChFields
    <3> HIDE DEF SameCore, SameCu, SameFrame, SameRx, SameFiles, SameLists
    <3> QED BY <2>2, <3>1, <3>2, <3>3
  <2>5. ch.last => ch'.rx = "none" /\ ch'.rus = "NO_RESOURCE"
    BY <2>1, <2>3 DEF ChFields
  <2>6. Advanced /\ UNCHANGED <<scb, busy, cbs>>
    BY <1>14, <2>5 DEF Advance, Advanced
  <2> QED BY <2>4, <2>6 DEF RxMoves, ChipMoves
<1> QED BY <1>2, <1>3, <1>4, <1>5, <1>6, <1>7, <1>8, <1>9, <1>10, <1>11, <1>12, <1>13, <1>14
        DEF ChipStep, Handler, CommandUnit, Filing

-----------------------------------------------------------------------------
\* With a prompt handler: what the chip is.

Starts == scb.cmd.ruc = "START"
SettingUp == th.pc \in SimplePcs /\ th.op # "XMIT"
IsRx == {"none", "arm", "ready", "fill", "file", "link"}

ChipInv ==
  /\ (ch.rx = "none") <=> (ch.rus # "READY")
  /\ (ch.cuStep = "none") <=> (ch.cus # "ACTIVE")
  /\ ch.core \in {"idle", "waking", "answer"}
  /\ ch.core = "waking" => ~ch.up
  /\ ~ch.up => ch.rx = "none" /\ ch.cuStep = "none" /\ ch.core # "answer"
  /\ ch.core # "answer" /\ ch.rus = "READY" => scb.status.rus = "READY"

\* A command not yet taken is one the handler is about to take.
CmdInv ==
  /\ scb.cmd.ruc \in {"NOP", "START"} /\ scb.cmd.cuc \in {"NOP", "START"}
  /\ ~ch.deaf /\ scb.cmd # NoCommand =>
       ch.up /\ ((ch.ca /\ ch.core = "idle") \/ ch.core = "answer")

\* A chip that answers has been woken by the time iereset goes on.
Asleep == ch.core = "idle" /\ ~ch.up /\ busy
UpInv ==
  /\ ~ch.deaf /\ th.pc \notin {"zap", "busy"} => ch.up \/ ch.core = "waking"
  /\ ~ch.deaf /\ th.pc = "zap" => Asleep /\ ~ch.ca
  /\ ~ch.deaf /\ th.pc = "busy" => \/ busy /\ Asleep /\ ch.ca
                                   \/ ~busy /\ (ch.up \/ ch.core = "waking")
  /\ th.pc \in {"zap", "busy"} => scb.cmd = NoCommand

\* The set-up commands run one at a time.
CuQuiet == ~ch.deaf => scb.cmd.cuc = "NOP" /\ ch.cuStep = "none"
Running ==
  \/ /\ ch.ca /\ ch.core = "idle" /\ scb.cmd.cuc = "START"
     /\ scb.cbl = Block(th.op) /\ ch.cuStep = "none"
  \/ /\ ch.cuStep = "run" /\ ch.cb = Block(th.op)
     /\ ch.core = "answer" \/ scb.cmd.cuc = "NOP"
CuInv ==
  /\ th.pc \in {"zap", "busy", "reset.iaddr"} => CuQuiet
  /\ SettingUp /\ th.pc = "simple" => CuQuiet
  /\ SettingUp /\ th.pc = "simple.start" /\ ~ch.deaf => CuQuiet /\ ~DoneBlock
  /\ SettingUp /\ th.pc = "simple.done" /\ ~ch.deaf =>
       \/ DoneBlock /\ scb.cmd.cuc = "NOP" /\ ch.cuStep \in {"end", "none"}
       \/ ~DoneBlock /\ Running
  /\ SettingUp /\ th.pc = "simple.ack" /\ ~ch.deaf =>
       scb.cmd.cuc = "NOP" /\ ch.cuStep \in {"end", "none"}

\* Only on a chip that has locked up does the driver give anything up.
GaveUpInv ==
  /\ th.pc = "again" => ch.deaf
  /\ th.pc \in {"reset.iaddr", "reset.conf", "reset.end"} /\ ~th.ok => ch.deaf

\* Between a reset, or a poll that saw the receiver at rest, and the next start
\* the receiver is at rest and nothing tells it otherwise.
QuietPcs == {"zap", "busy", "reset.iaddr", "reset.conf", "poll.copy", "poll.ack",
             "ru", "ru.wait", "ru.frame"}
Quiet ==
  /\ ch.rx = "none" /\ scb.status.rus # "READY"
  /\ ~ch.deaf => scb.cmd.ruc = "NOP"
QuietInv ==
  /\ th.pc \in QuietPcs \/ SettingUp => Quiet
  /\ th.pc # "ru.abort"

\* The lists are as ierustart lays them out whenever the receiver may use them.
BufLaid == rbds[0].next = 1 /\ ~rbds[0].el /\ rbds[1].el
LaidInv ==
  /\ ch.rx # "none" \/ Starts => BufLaid /\ rfds[0].el /\ rfds[0].rbd = 0
  /\ th.pc = "ru.frame" => BufLaid
  /\ Starts => scb.rfa = 0

\* One frame at a time: what the receiver holds of it, and what it has filed.
Fits == rbds[0].used /\ rbds[0].last
Holds(f) == IF f.len = 1 THEN Fits /\ rbds[0].data = [id |-> f.id, part |-> 1]
                         ELSE ~rbds[0].last
Ours(f) ==
  f \in [id : Nat, len : Nat \ {0}] /\ f.id < wire /\ f.id > es.handed
NoneFiled == ~rfds[0].done /\ filed = <<>>
RxInv ==
  /\ ch.rx \in IsRx
  /\ ch.rx # "none" => ch.rfd = 0
  /\ ch.rx \in {"arm", "ready", "fill", "file"} => NoneFiled
  /\ ch.rx = "ready" => ch.rbd = 0 /\ ~ch.el
  /\ ch.rx \in {"fill", "file"} => ch.first = 0 /\ Ours(ch.frame)
  /\ ch.rx = "fill" =>
       /\ ~ch.firstEl
       /\ \/ ch.part = 1 /\ ch.rbd = 0 /\ ~ch.el
          \/ ch.part = 2 /\ ch.rbd = 1 /\ ch.el /\ ~rbds[0].last /\ ch.frame.len # 1
  /\ ch.rx = "file" => Holds(ch.frame)
  /\ ch.rx \in {"file", "link"} => ch.last
StartInv ==
  ~ch.deaf /\ Starts /\ ch.core = "idle" => ch.rx = "none" /\ NoneFiled
FiledInv ==
  \/ filed = <<>>
  \/ \E f : Ours(f) /\ filed = <<f>> /\ rfds[0].done /\ Holds(f)
BufInv ==
  /\ wire \in Nat /\ es.handed \in Int /\ es.handed < wire
  /\ Fits => rbds[0].data.id \in Nat /\ rbds[0].data.id < wire /\ rbds[0].data.part = 1

\* And what the driver makes of it.
Opened ==
  \/ th.pc \in {"poll", "poll.copy", "poll.ack", "xmit", "xmit.end"}
  \/ th.pc = "idle" /\ es.open
  \/ th.pc \in SimplePcs /\ th.op = "XMIT"
  \/ th.pc \in {"opened", "reset.end"} /\ th.ok
DoneInv == Opened /\ ~ch.deaf /\ rfds[0].done => filed # <<>>
NoneFits == filed = <<>> \/ \E f : filed = <<f>> /\ f.len > 1
ThrowInv ==
  /\ th.pc \in {"ru", "ru.wait", "ru.frame"} => NoneFits
  /\ th.pc \in {"zap", "busy", "reset.iaddr", "reset.conf"} \/ SettingUp => filed = <<>>
CopyInv ==
  /\ th.pc \in {"poll.copy", "poll.ack"} => Got
  /\ th.pc = "poll.ack" => th.frame = rbds[0].data.id

Polled ==
  /\ ChipInv /\ CmdInv /\ UpInv /\ CuInv /\ GaveUpInv /\ QuietInv /\ LaidInv
  /\ RxInv /\ StartInv /\ FiledInv /\ BufInv /\ DoneInv /\ ThrowInv /\ CopyInv
PolledInv == es.prompt => Polled

-----------------------------------------------------------------------------
\* The driver's and the program's steps, by where they go.

Attended ==
  /\ ch'.ca /\ ch'.up = ch.up /\ ch'.deaf = ch.deaf /\ ch'.core = ch.core
  /\ SameCu /\ SameRx
Blank == /\ ~ch'.up /\ ~ch'.ca /\ ch'.core = "idle" /\ ch'.rx = "none" /\ ch'.rus = "IDLE"
          /\ ch'.cuStep = "none" /\ ch'.cus = "IDLE"
Asked(cuc) ==
  /\ Settled /\ Attended /\ scb'.cmd.cuc = cuc /\ scb'.cmd.ruc = "NOP"
  /\ scb'.status.rus = scb.status.rus /\ UNCHANGED <<busy, cbs, rfds, rbds, wire>>
Backed(ok) == th'.pc = "idle" \/ (th'.pc \in {"opened", "reset.end"} /\ th'.ok = ok)
Untouched == UNCHANGED <<scb, busy, rfds, rbds, cbs, ch, filed, wire>> /\ es'.handed = es.handed

\* Steps that touch neither the chip nor the memory.
ProgramGoes ==
  /\ th.pc = "idle" /\ th'.pc \in {"open", "reset", "close", "xmit", "poll"}
  /\ th'.pc \in {"xmit", "poll"} => es.open
SimpleGoes ==
  \/ th.pc = "simple.done" /\ DoneBlock /\ th'.pc = "simple.ack" /\ th'.op = th.op
  \/ th.pc \in SimplePcs /\ th.op = "XMIT" /\ th'.pc = "xmit.end"
  \/ /\ SettingUp /\ th'.pc \in {"reset.iaddr", "reset.conf"} /\ ~th'.ok /\ Late
     /\ ~Accepted \/ (th.pc = "simple.done" /\ ~DoneBlock)
RuGoes ==
  \/ th.pc = "ru" /\ th'.pc = "ru.wait"
  \/ th.pc = "ru" /\ scb.status.rus = "READY" /\ th'.pc = "ru.abort"
  \/ th.pc = "ru.wait" /\ ~Accepted /\ Late /\ Backed(FALSE)
XmitGoes ==
  \/ th.pc = "xmit" /\ th'.pc = "simple" /\ th'.op = "XMIT"
  \/ th.pc = "xmit.end" /\ th'.pc = "idle"
PollGoes ==
  \/ th.pc = "poll" /\ th'.pc = "idle"
  \/ th.pc = "poll" /\ Settled /\ scb.status.rus # "READY" /\ ~Got /\ th'.pc = "ru"
  \/ th.pc = "poll" /\ Settled /\ scb.status.rus # "READY" /\ Got /\ th'.pc = "poll.copy"
  \/ th.pc = "poll.copy" /\ th'.pc = "poll.ack" /\ th'.frame = rbds[0].data.id
  \/ th.pc = "poll.ack" /\ th'.pc = "idle"
ResetGoes ==
  \/ th.pc = "open" /\ th'.pc = "reset"
  \/ th.pc = "busy" /\ ~busy /\ th'.pc = "simple" /\ th'.op = "IASETUP"
  \/ th.pc = "busy" /\ busy /\ ~HandlerOwes /\ (Backed(FALSE) \/ th'.pc = "reset")
  \/ th.pc = "again" /\ (Backed(FALSE) \/ th'.pc = "reset")
  \/ th.pc = "reset.iaddr" /\ th'.pc = "simple" /\ th'.op = "CONFIG"
  \/ th.pc = "reset.conf" /\ th'.pc = "ru"
  \/ th.pc \in {"reset.iaddr", "reset.conf", "reset.end"} /\ ~th.ok /\ th'.pc = "again"
  \/ th.pc = "reset.end" /\ th.ok /\ Backed(TRUE)
OpenGoes ==
  \/ th.pc = "opened" /\ th.ok /\ th'.pc = "idle"
  \/ th.pc = "opened" /\ th'.pc = "close"
  \/ th.pc = "close" /\ th'.pc = "idle" /\ ~es'.open
Goes ==
  /\ Untouched
  /\ \/ ProgramGoes \/ SimpleGoes \/ RuGoes \/ XmitGoes \/ PollGoes \/ ResetGoes \/ OpenGoes

\* Steps that do.
Clears ==
  /\ th.pc = "simple" /\ th'.pc = "simple.start" /\ th'.op = th.op
  /\ cbs' = [cbs EXCEPT ![Block(th.op)] = Fresh]
  /\ UNCHANGED <<scb, busy, rfds, rbds, ch, filed, wire, es>>
Starting ==
  /\ th.pc = "simple.start" /\ th'.pc = "simple.done" /\ th'.op = th.op
  /\ Asked("START") /\ scb'.cbl = Block(th.op) /\ UNCHANGED <<filed, es>>
Acking ==
  /\ th.pc = "simple.ack" /\ Asked("NOP") /\ UNCHANGED <<filed, es>>
  /\ \/ th.op = "XMIT" /\ th'.pc = "xmit.end"
     \/ SettingUp /\ th'.pc \in {"reset.iaddr", "reset.conf"} /\ th'.ok
Laying ==
  /\ th.pc = "ru.wait" /\ th'.pc = "ru.frame"
  /\ rbds'[0].next = 1 /\ ~rbds'[0].el /\ rbds'[1].el /\ ~rbds'[0].last
  /\ UNCHANGED <<scb, busy, rfds, cbs, ch, filed, wire, es>>
Listening ==
  /\ th.pc = "ru.frame" /\ th'.pc \in {"idle", "opened", "reset.end"}
  /\ th'.pc = "reset.end" => th'.ok
  /\ Settled /\ Attended /\ ~rfds'[0].done /\ rfds'[0].el /\ rfds'[0].rbd = 0
  /\ scb'.status.rus = scb.status.rus /\ scb'.rfa = 0
  /\ scb'.cmd.ruc = "START" /\ scb'.cmd.cuc = "NOP"
  /\ filed' = <<>> /\ UNCHANGED <<busy, rbds, cbs, wire, es>>
Handing ==
  /\ th.pc = "poll.ack" /\ th'.pc = "ru" /\ Asked("NOP")
  /\ filed' = Without(filed, [id : {th.frame}, len : 1..MaxLen])
  /\ es'.handed = th.frame
Resetting ==
  /\ th.pc = "reset" /\ th'.pc = "zap" /\ Blank /\ busy' /\ filed' = <<>>
  /\ scb'.cmd = NoCommand /\ scb'.status.rus = "IDLE" /\ UNCHANGED <<rfds, rbds, cbs, wire>>
  /\ es'.handed = es.handed
Zapping ==
  /\ th.pc = "zap" /\ th'.pc = "busy" /\ Attended
  /\ UNCHANGED <<scb, busy, rfds, rbds, cbs, filed, wire, es>>
Holding ==
  /\ Blank /\ ch'.deaf /\ UNCHANGED <<scb, busy, rfds, rbds, cbs, filed, wire>>
  /\ es'.handed = es.handed
  /\ \/ th.pc = "busy" /\ (Backed(FALSE) \/ th'.pc \in {"reset", "again"})
     \/ th.pc = "close" /\ th'.pc = "idle"

Moves == \/ Goes \/ Clears \/ Starting \/ Acking \/ Laying \/ Listening
         \/ Handing \/ Resetting \/ Zapping \/ Holding \/ th.pc = "ru.abort"

\* Where a call goes next.
LEMMA NextPc ==
  ASSUME CallOK(th)
  PROVE  /\ \A l : th' = Goto(l) => th'.pc = l /\ th'.op = th.op /\ th'.ok = th.ok
         /\ \A l, n : th' = [Goto(l) EXCEPT !.tries = n] => th'.pc = l
         /\ \A l, n : th' = [Goto(l) EXCEPT !.frame = n] => th'.pc = l /\ th'.frame = n
         /\ \A o, l, b : th' = Call([th EXCEPT !.op = o], l, b) => th'.pc = l /\ th'.op = o
         /\ \A l, b : th' = Call(th, l, b) => th'.pc = l
         /\ th' = AtRest => th'.pc = "idle"
<1>1. DOMAIN th = ThFields
  BY DEF CallOK
<1>2. \A l : DOMAIN Goto(l) = ThFields /\ Goto(l).pc = l
  BY <1>1, GotoIs
<1>3. \A l, n : /\ th' = [Goto(l) EXCEPT !.tries = n] => th'.pc = l
                /\ th' = [Goto(l) EXCEPT !.frame = n] => th'.pc = l /\ th'.frame = n
  <2> HIDE DEF Goto
  <2> QED BY <1>2 DEF ThFields
<1>4. \A o, l, b : th' = Call([th EXCEPT !.op = o], l, b) => th'.pc = l /\ th'.op = o
  BY <1>1 DEF Call, ThFields
<1>5. \A l, b : th' = Call(th, l, b) => th'.pc = l
  BY <1>1 DEF Call, ThFields
<1>6. \A l : th' = Goto(l) => th'.pc = l /\ th'.op = th.op /\ th'.ok = th.ok
  BY <1>1, GotoIs DEF ThFields
<1>7. th' = AtRest => th'.pc = "idle"
  BY DEF AtRest
<1> QED BY <1>3, <1>4, <1>5, <1>6, <1>7

LEMMA ReturnPc ==
  ASSUME CallOK(th), NEW ok, th' = Return(ok)
  PROVE  /\ th.pc \in ResetPcs => th'.pc = "idle" \/ (th'.pc = "opened" /\ th'.ok = ok)
         /\ th.pc \in RuPcs =>
              th'.pc = "idle" \/ (th'.pc \in {"opened", "reset.end"} /\ th'.ok = ok)
         /\ th.pc \in PollPcs => th'.pc = "idle"
         /\ th.pc \in SimplePcs /\ th.op = "XMIT" => th'.pc = "xmit.end"
         /\ SettingUp => th'.pc \in {"reset.iaddr", "reset.conf"} /\ th'.ok = ok
<1>1. DOMAIN th = ThFields
  BY DEF CallOK
<1>2. ASSUME NEW a, NEW b, th.ret = <<a>> \/ th.ret = <<a, b>>
      PROVE  /\ a = "idle" => th'.pc = "idle"
             /\ a # "idle" => th'.pc = a /\ th'.ok = ok
  BY <1>1, <1>2, ReturnIs, Stacks DEF AtRest
<1>3. ASSUME th.pc \in ResetPcs
      PROVE  th'.pc = "idle" \/ (th'.pc = "opened" /\ th'.ok = ok)
  <2>1. \E r \in Backs : th.ret = <<r>>
    BY <1>3 DEF CallOK, ResetPcs, PollPcs, RuPcs, SimplePcs
  <2> QED BY <1>2, <2>1 DEF Backs
<1>4. ASSUME th.pc \in RuPcs
      PROVE  th'.pc = "idle" \/ (th'.pc \in {"opened", "reset.end"} /\ th'.ok = ok)
  <2>1. \E r \in Backs : th.ret \in {<<r>>, <<"reset.end", r>>}
    BY <1>4 DEF CallOK, ResetPcs, PollPcs, RuPcs, SimplePcs
  <2> QED BY <1>2, <2>1 DEF Backs
<1>5. ASSUME th.pc \in PollPcs
      PROVE  th'.pc = "idle"
  <2>1. th.ret = <<"idle">>
    BY <1>5 DEF CallOK, ResetPcs, PollPcs, RuPcs, SimplePcs
  <2> QED BY <1>2, <2>1
<1>6. ASSUME th.pc \in SimplePcs, th.op = "XMIT"
      PROVE  th'.pc = "xmit.end"
  <2>1. th.ret = <<"xmit.end", "idle">>
    BY <1>6 DEF CallOK, ResetPcs, PollPcs, RuPcs, SimplePcs, OfXmit, OfReset
  <2> QED BY <1>2, <2>1
<1>7. ASSUME SettingUp
      PROVE  th'.pc \in {"reset.iaddr", "reset.conf"} /\ th'.ok = ok
  <2>1. \E r : th.ret \in {<<"reset.iaddr", r>>, <<"reset.conf", r>>}
    BY <1>7 DEF SettingUp, CallOK, ResetPcs, PollPcs, RuPcs, SimplePcs, OfXmit, OfReset
  <2> QED BY <1>2, <2>1
<1> QED BY <1>3, <1>4, <1>5, <1>6, <1>7

LEMMA MovesIs ==
  ASSUME Types, Step
  PROVE  Moves
<1>1. /\ CallOK(th) /\ DOMAIN th = ThFields /\ DOMAIN es = EsFields /\ DOMAIN ch = ChFields
      /\ DOMAIN scb = ScbFields
  BY DEF Types, CallOK, EsOK, Shapes, ScbOK
<1>2. ASSUME Attention PROVE Attended
  BY <1>1, <1>2 DEF Attention, Attended, SameCu, SameRx, SameFrame, ChFields
<1>3. ASSUME NEW cuc, Asks(cuc, "NOP"), UNCHANGED <<rfds, rbds>>
      PROVE  Asked(cuc)
  BY <1>1, <1>2, <1>3 DEF Asks, Asked, ScbFields
<1>4. ASSUME NEW deaf, ch' = ResetChip(deaf)
      PROVE  Blank /\ ch'.deaf = deaf
  BY <1>4 DEF ResetChip, Blank
<1>5. ASSUME NEW n, n \in {"wire", "held", "early"}, Only(n)
      PROVE  es'.handed = es.handed
  BY <1>1, <1>5 DEF Only, EsFields
<1>7. CASE iesimple
  <2>1. CASE ClearBlock
    BY <1>1, <2>1, NextPc DEF ClearBlock, Clears, Moves, At, ghosts
  <2>2. CASE StartBlock
    <3>1. th.pc = "simple.start" /\ th'.pc = "simple.done" /\ th'.op = th.op
      BY <1>1, <2>2, NextPc DEF StartBlock, At
    <3>2. Asked("START") /\ scb'.cbl = Block(th.op) /\ UNCHANGED <<filed, es>>
      BY <1>3, <2>2 DEF StartBlock
    <3> QED BY <3>1, <3>2 DEF Starting, Moves
  <2>3. CASE BlockDone
    <3>1. th.pc = "simple.done" /\ DoneBlock /\ th'.pc = "simple.ack" /\ th'.op = th.op
      BY <1>1, <2>3, NextPc DEF BlockDone, At
    <3>2. Untouched
      BY <2>3 DEF BlockDone, Untouched, portVars
    <3> QED BY <3>1, <3>2 DEF SimpleGoes, Goes, Moves
  <2>4. CASE AckBlock
    <3>1. th.pc = "simple.ack" /\ Asked("NOP") /\ UNCHANGED <<filed, es>>
      BY <1>3, <2>4 DEF AckBlock, At
    <3>2. \/ th.op = "XMIT" /\ th'.pc = "xmit.end"
          \/ SettingUp /\ th'.pc \in {"reset.iaddr", "reset.conf"} /\ th'.ok
      BY <1>1, <2>4, <3>1, ReturnPc DEF AckBlock, SettingUp, SimplePcs
    <3> QED BY <3>1, <3>2 DEF Acking, Moves
  <2>5. CASE SimpleTimeout
    <3>1. Untouched
      BY <2>5 DEF SimpleTimeout, Untouched, portVars
    <3>2. th.pc \in SimplePcs /\ th' = Return(FALSE)
          /\ Late /\ (~Accepted \/ (th.pc = "simple.done" /\ ~DoneBlock))
      BY <2>5 DEF SimpleTimeout, At, SimplePcs
    <3>3. SimpleGoes
      BY <1>1, <3>2, ReturnPc DEF SimpleGoes, SettingUp
    <3> QED BY <3>1, <3>3 DEF Goes, Moves
  <2>6. CASE XmitTooLate
    <3>1. Untouched
      BY <1>5, <2>6 DEF XmitTooLate, Untouched, portVars
    <3>2. th.pc \in SimplePcs /\ th' = Return(FALSE) /\ th.op = "XMIT"
      BY <2>6 DEF XmitTooLate, At, SimplePcs
    <3>3. SimpleGoes
      BY <1>1, <3>2, ReturnPc DEF SimpleGoes
    <3> QED BY <3>1, <3>3 DEF Goes, Moves
  <2> QED BY <1>7, <2>1, <2>2, <2>3, <2>4, <2>5, <2>6 DEF iesimple
<1>8. CASE ierustart
  <2>1. CASE RuLook
    <3>1. Untouched
      BY <2>1 DEF RuLook, Untouched, portVars
    <3>2. RuGoes
      BY <1>1, <2>1, NextPc DEF RuLook, RuGoes, At
    <3> QED BY <3>1, <3>2 DEF Goes, Moves
  <2>2. CASE RuStop
    BY <2>2 DEF RuStop, At, Moves
  <2>3. CASE RuTimeout
    <3>1. Untouched
      BY <2>3 DEF RuTimeout, Untouched, portVars
    <3>2. th.pc = "ru.abort" \/ RuGoes
      BY <1>1, <2>3, ReturnPc DEF RuTimeout, RuGoes, At, RuPcs, Backed
    <3> QED BY <3>1, <3>2 DEF Goes, Moves
  <2>4. CASE RuBuffers
    <3>1. rbds'[0].next = 1 /\ ~rbds'[0].el /\ rbds'[1].el /\ ~rbds'[0].last
      <4>1. DOMAIN rbds[0] = RbdFields /\ DOMAIN rbds[1] = RbdFields /\ Rbds = {0, 1}
        BY RomAssumption DEF Types, Shapes
      <4>2. rbds'[0] = [rbds[0] EXCEPT !.used = FALSE, !.last = FALSE, !.el = FALSE, !.next = 1]
        <5>1. 0 \in Rbds /\ (0 = 1) = FALSE /\ (IF 0 = 0 THEN 1 ELSE Null) = 1
          BY <4>1
        <5> QED BY <2>4, <5>1, Zenon DEF RuBuffers
      <4>3. rbds'[1] = [rbds[1] EXCEPT !.used = FALSE, !.last = FALSE, !.el = TRUE, !.next = Null]
        <5>1. 1 \in Rbds /\ (1 = 1) = TRUE /\ (IF 1 = 0 THEN 1 ELSE Null) = Null
          BY <4>1
        <5> QED BY <2>4, <5>1, Zenon DEF RuBuffers
      <4> QED BY <4>1, <4>2, <4>3 DEF RbdFields
    <3>2. th.pc = "ru.wait" /\ th'.pc = "ru.frame" /\ UNCHANGED <<scb, busy, rfds, cbs, ch, filed, wire, es>>
      BY <1>1, <2>4, NextPc DEF RuBuffers, At, ghosts
    <3> QED BY <3>1, <3>2 DEF Laying, Moves
  <2>5. CASE RuFrame
    <3>1. Settled /\ Attended /\ filed' = <<>> /\ UNCHANGED <<busy, rbds, cbs, wire, es>>
      BY <1>2, <2>5 DEF RuFrame
    <3>2. th.pc = "ru.frame" /\ th'.pc \in {"idle", "opened", "reset.end"}
          /\ (th'.pc = "reset.end" => th'.ok)
      BY <1>1, <2>5, ReturnPc DEF RuFrame, At, RuPcs
    <3>3. ~rfds'[0].done /\ rfds'[0].el /\ rfds'[0].rbd = 0
      <4>1. 0 \in DOMAIN rfds
        BY DEF Types, Shapes
      <4> QED BY <2>5, <4>1 DEF RuFrame
    <3>4. /\ scb'.status.rus = scb.status.rus /\ scb'.rfa = 0
          /\ scb'.cmd.ruc = "START" /\ scb'.cmd.cuc = "NOP"
      BY <1>1, <2>5 DEF RuFrame, ScbFields, NoCommand
    <3> QED BY <3>1, <3>2, <3>3, <3>4 DEF Listening, Moves
  <2> QED BY <1>8, <2>1, <2>2, <2>3, <2>4, <2>5 DEF ierustart
<1>9. CASE iexmit
  <2>1. CASE XmitStart
    BY <1>1, <2>1, NextPc DEF XmitStart, Untouched, XmitGoes, Goes, Moves, At
  <2>2. CASE XmitEnd
    BY <1>1, <2>2, NextPc DEF XmitEnd, Untouched, XmitGoes, Goes, Moves, At, portVars
  <2> QED BY <1>9, <2>1, <2>2 DEF iexmit
<1>10. CASE iepoll
  <2>1. CASE PollLook
    <3>1. Untouched
      BY <2>1 DEF PollLook, Untouched, portVars
    <3>2. PollGoes
      BY <1>1, <2>1, NextPc, ReturnPc DEF PollLook, PollGoes, At, PollPcs
    <3> QED BY <3>1, <3>2 DEF Goes, Moves
  <2>2. CASE PollCopy
    BY <1>1, <2>2, NextPc DEF PollCopy, Untouched, PollGoes, Goes, Moves, At, portVars
  <2>3. CASE PollTimeout
    <3>1. Untouched
      BY <2>3 DEF PollTimeout, Untouched, portVars
    <3>2. PollGoes
      BY <1>1, <2>3, ReturnPc DEF PollTimeout, PollGoes, At, PollPcs
    <3> QED BY <3>1, <3>2 DEF Goes, Moves
  <2>4. CASE PollAck
    <3>1. th.pc = "poll.ack" /\ th'.pc = "ru" /\ Asked("NOP")
      BY <1>1, <1>3, <2>4, NextPc DEF PollAck, At
    <3>2. /\ filed' = Without(filed, [id : {th.frame}, len : 1..MaxLen])
          /\ es'.handed = th.frame
      BY <1>1, <2>4 DEF PollAck, EsFields
    <3> QED BY <3>1, <3>2 DEF Handing, Moves
  <2> QED BY <1>10, <2>1, <2>2, <2>3, <2>4 DEF iepoll
<1>11. CASE iereset
  <2>1. CASE ResetChips
    <3>1. Blank
      BY <1>4, <2>1 DEF ResetChips, Resets
    <3>2. /\ busy' /\ filed' = <<>> /\ UNCHANGED <<rfds, rbds, cbs, wire>>
          /\ scb'.cmd = NoCommand /\ scb'.status.rus = "IDLE"
      BY <2>1 DEF ResetChips, Resets, ZeroScb, ZeroStatus
    <3>3. th.pc = "reset" /\ th'.pc = "zap" /\ es'.handed = es.handed
      BY <1>1, <2>1, NextPc DEF ResetChips, At, EsFields
    <3> QED BY <3>1, <3>2, <3>3 DEF Resetting, Moves
  <2>2. CASE Zap
    BY <1>1, <1>2, <2>2, NextPc DEF Zap, Zapping, Moves, At, mem, ghosts
  <2>3. CASE Busy
    <3>1. th.pc = "busy" /\ es'.handed = es.handed
      BY <1>5, <2>3 DEF Busy, At
    <3>2. UNCHANGED <<scb, busy, rfds, rbds, cbs, filed, wire>>
      BY <2>3 DEF Busy, mem, ghosts
    <3>3. CASE ~busy
      <4>1. ch' = ch /\ th' = Call([th EXCEPT !.op = "IASETUP"], "simple", "reset.iaddr")
        BY <2>3, <3>3 DEF Busy
      <4>2. th'.pc = "simple" /\ th'.op = "IASETUP"
        BY <1>1, <4>1, NextPc
      <4> QED BY <3>1, <3>2, <3>3, <4>1, <4>2 DEF Untouched, ResetGoes, Goes, Moves
    <3>4. CASE busy
      <4>1. ~HandlerOwes /\ (ch' = ch \/ (Blank /\ ch'.deaf))
        BY <1>4, <2>3, <3>4 DEF Busy, HeldChip
      <4>2. Backed(FALSE) \/ th'.pc \in {"reset", "again"}
        BY <1>1, <2>3, <3>1, <3>4, NextPc, ReturnPc DEF Busy, Backed, ResetPcs
      <4>3. ch' = ch => Backed(FALSE) \/ th'.pc = "reset" \/ (Blank /\ ch'.deaf)
        <5>1. th'.pc = "again" => ch' = HeldChip
          BY <1>1, <2>3, <3>1, <3>4, NextPc, ReturnPc DEF Busy, ResetPcs
        <5> QED BY <1>4, <4>2, <5>1 DEF HeldChip
      <4> QED BY <3>1, <3>2, <3>4, <4>1, <4>2, <4>3 DEF Untouched, ResetGoes, Goes, Holding, Moves
    <3> QED BY <3>3, <3>4
  <2>4. CASE Again
    <3>1. Untouched
      BY <2>4 DEF Again, Untouched, portVars
    <3>2. ResetGoes
      BY <1>1, <2>4, NextPc, ReturnPc DEF Again, ResetGoes, At, ResetPcs, Backed
    <3> QED BY <3>1, <3>2 DEF Goes, Moves
  <2>5. CASE ResetConf
    BY <1>1, <2>5, NextPc DEF ResetConf, Untouched, ResetGoes, Goes, Moves, At, portVars
  <2>6. CASE OnTheWire
    <3>1. Untouched
      BY <1>5, <2>6 DEF OnTheWire, Untouched, portVars
    <3>2. ResetGoes
      BY <1>1, <2>6, NextPc DEF OnTheWire, ResetGoes, At
    <3> QED BY <3>1, <3>2 DEF Goes, Moves
  <2>7. CASE ResetEnd
    <3>1. Untouched
      BY <2>7 DEF ResetEnd, Untouched, portVars
    <3>2. ResetGoes
      BY <1>1, <2>7, NextPc, ReturnPc DEF ResetEnd, ResetGoes, At, ResetPcs, Backed
    <3> QED BY <3>1, <3>2 DEF Goes, Moves
  <2> QED BY <1>11, <2>1, <2>2, <2>3, <2>4, <2>5, <2>6, <2>7 DEF iereset
<1>12. CASE ieinit
  <2>1. Untouched
    BY <1>5, <1>12 DEF ieinit, Untouched, portVars
  <2>2. ResetGoes
    BY <1>1, <1>12, NextPc DEF ieinit, ResetGoes, At
  <2> QED BY <2>1, <2>2 DEF Goes, Moves
<1>13. CASE ieopen
  <2>1. Untouched
    BY <1>1, <1>13 DEF ieopen, Untouched, portVars, EsFields
  <2>2. OpenGoes
    BY <1>1, <1>13, NextPc DEF ieopen, OpenGoes, At
  <2> QED BY <2>1, <2>2 DEF Goes, Moves
<1>14. CASE ieclose
  <2>1. /\ th.pc = "close" /\ th'.pc = "idle" /\ ~es'.open /\ es'.handed = es.handed
        /\ UNCHANGED <<scb, busy, rfds, rbds, cbs, filed, wire>>
    BY <1>1, <1>14, NextPc DEF ieclose, At, EsFields, mem, ghosts
  <2>2. ch' = ch \/ (Blank /\ ch'.deaf)
    BY <1>4, <1>14 DEF ieclose, HeldChip
  <2> QED BY <2>1, <2>2 DEF Untouched, OpenGoes, Goes, Holding, Moves
<1> QED BY <1>7, <1>8, <1>9, <1>10, <1>11, <1>12, <1>13, <1>14 DEF Step

-----------------------------------------------------------------------------
\* With a prompt handler each part of the invariant is kept.

Locked ==
  /\ ch.up /\ ch'.deaf /\ ch'.up = ch.up /\ ch'.ca = ch.ca /\ ch'.core = ch.core
  /\ SameCu /\ SameRx /\ UNCHANGED <<scb, busy, cbs>> /\ SameFiles
Runs == UNCHANGED <<th, es>> /\ (ChipMoves \/ Locked)

\* When the driver looks, an answering chip has nothing left to do.
LEMMA Waits ==
  ASSUME es.prompt, Polled
  PROVE  /\ Settled => /\ ch.core = "idle" /\ ch.cuStep # "end"
                       /\ ~ch.deaf => ~ch.ca /\ scb.cmd = NoCommand
                       /\ ~ch.deaf /\ th.pc \notin {"zap", "busy"} =>
                            ch.up /\ scb.status.rus = ch.rus
         /\ ~HandlerOwes /\ ~Accepted => ch.deaf
<1>1. Settled => ~HandlerOwes /\ ch.cuStep # "end" /\ (ch.up /\ ~ch.deaf => scb.status = ShownStatus)
  BY DEF Settled
<1>2. ~HandlerOwes /\ ~ch.deaf => ch.core = "idle" /\ ~ch.ca /\ scb.cmd = NoCommand
  BY DEF HandlerOwes, Polled, CmdInv
<1>3. ~HandlerOwes => ch.core = "idle"
  BY DEF HandlerOwes
<1>4. ch.core = "idle" /\ ~ch.deaf /\ th.pc \notin {"zap", "busy"} => ch.up
  BY DEF Polled, UpInv
<1>5. scb.status = ShownStatus => scb.status.rus = ch.rus
  BY DEF ShownStatus
<1> QED BY <1>1, <1>2, <1>3, <1>4, <1>5 DEF Accepted

LEMMA ChipKept ==
  ASSUME es.prompt, Polled, Runs \/ Moves
  PROVE  ChipInv'
<1> USE DEF SameCore, SameCu, SameRx, SameFrame, SameFiles, SameLists
<1>1. ChipInv /\ QuietInv
  BY DEF Polled
<1>2. ASSUME ch'.up = ch.up, ch'.core = ch.core, SameCu, ch'.rx = ch.rx, ch'.rus = ch.rus,
             scb'.status.rus = scb.status.rus
      PROVE  ChipInv'
  BY <1>1, <1>2 DEF ChipInv
<1>3. CASE Woken
  BY <1>1, <1>3 DEF Woken, ChipInv
<1>4. CASE Announced
  BY <1>1, <1>4 DEF Announced, ChipInv
<1>5. CASE Taken
  <2>1. scb.cmd.ruc \in {"NOP", "START"}
    BY DEF Polled, CmdInv
  <2> QED BY <1>1, <1>5, <2>1 DEF Taken, ChipInv
<1>6. CASE Answered \/ Published
  BY <1>1, <1>6 DEF Answered, Published, ChipInv
<1>7. CASE Completed \/ Ended
  BY <1>1, <1>7 DEF Completed, Ended, ChipInv
<1>8. CASE RxMoves
  <2>1. ch.rx = "link" => ch.last
    BY DEF Polled, RxInv
  <2>2. /\ ch.rx # "none" /\ SameCore /\ SameCu /\ UNCHANGED scb
        /\ \/ ch'.rx = "none" /\ ch'.rus = "NO_RESOURCE"
           \/ ch'.rx \in {"ready", "fill", "file", "link"} /\ ch'.rus = ch.rus
    BY <1>8, <2>1 DEF RxMoves, Armed, Arrived, FilledOn, FilledEnd, FiledIt, Advanced
  <2> QED BY <1>1, <2>2 DEF ChipInv
<1>9. CASE Locked
  BY <1>2, <1>9 DEF Locked
<1>10. CASE Blank /\ (scb'.status.rus = "IDLE" \/ UNCHANGED scb)
  BY <1>10 DEF Blank, ChipInv
<1>11. CASE Goes \/ Clears \/ Laying
  BY <1>2, <1>11 DEF Goes, Untouched, Clears, Laying
<1>12. CASE Starting \/ Acking \/ Handing \/ Listening \/ Zapping
  <2>1. Attended /\ scb'.status.rus = scb.status.rus
    BY <1>12 DEF Starting, Acking, Handing, Listening, Zapping, Asked
  <2> QED BY <1>2, <2>1 DEF Attended
<1>13. CASE Resetting \/ Holding
  BY <1>10, <1>13 DEF Resetting, Holding
<1>14. th.pc # "ru.abort"
  BY <1>1 DEF QuietInv
<1> QED BY <1>3, <1>4, <1>5, <1>6, <1>7, <1>8, <1>9, <1>11, <1>12, <1>13, <1>14 DEF Runs, ChipMoves, Moves

LEMMA CmdKept ==
  ASSUME es.prompt, Polled, Runs \/ Moves
  PROVE  CmdInv'
<1> USE DEF SameCore, SameCu, SameRx, SameFrame, SameFiles, SameLists
<1>1. CmdInv /\ ChipInv /\ UpInv /\ QuietInv
  BY DEF Polled
<1>2. ASSUME ch'.up = ch.up, ch'.core = ch.core, ch.ca => ch'.ca, ch'.deaf \/ ch'.deaf = ch.deaf,
             scb'.cmd = scb.cmd
      PROVE  CmdInv'
  BY <1>1, <1>2 DEF CmdInv
<1>3. ASSUME scb'.cmd = NoCommand PROVE CmdInv'
  BY <1>3 DEF CmdInv, NoCommand
<1>4. CASE Woken \/ Announced
  <2>1. scb.cmd = NoCommand \/ ch'.deaf
    BY <1>1, <1>4 DEF CmdInv, Woken, Announced
  <2>2. scb'.cmd = scb.cmd
    BY <1>4 DEF Woken, Announced
  <2> QED BY <1>1, <1>3, <2>1, <2>2 DEF CmdInv
<1>5. CASE Taken
  BY <1>1, <1>5 DEF CmdInv, Taken
<1>6. CASE Answered
  BY <1>3, <1>6 DEF Answered
<1>7. CASE Published \/ Completed \/ Ended \/ RxMoves \/ Locked
  BY <1>2, <1>7 DEF Published, Completed, Ended, RxMoves, Locked
<1>8. CASE Goes \/ Clears \/ Laying
  BY <1>2, <1>8 DEF Goes, Untouched, Clears, Laying
<1>9. CASE Starting \/ Acking \/ Handing \/ Listening
  <2>1. th.pc \notin {"zap", "busy"} /\ Settled /\ Attended
    BY <1>9 DEF Starting, Acking, Handing, Listening, Asked
  <2>2. scb'.cmd.ruc \in {"NOP", "START"} /\ scb'.cmd.cuc \in {"NOP", "START"}
    BY <1>9 DEF Starting, Acking, Handing, Listening, Asked
  <2>3. ~ch'.deaf => ch'.up /\ ch'.ca /\ ch'.core = "idle"
    BY <2>1, Waits DEF Attended
  <2> QED BY <2>2, <2>3 DEF CmdInv
<1>10. CASE Zapping
  BY <1>2, <1>10 DEF Zapping, Attended
<1>11. CASE Resetting
  BY <1>3, <1>11 DEF Resetting
<1>12. CASE Holding
  BY <1>1, <1>12 DEF Holding, CmdInv
<1>13. th.pc # "ru.abort"
  BY <1>1 DEF QuietInv
<1> QED BY <1>4, <1>5, <1>6, <1>7, <1>8, <1>9, <1>10, <1>11, <1>12, <1>13 DEF Runs, ChipMoves, Moves

LEMMA UpKept ==
  ASSUME es.prompt, Polled, Runs \/ Moves
  PROVE  UpInv'
<1> USE DEF SameCore, SameCu, SameRx, SameFrame, SameFiles, SameLists
<1>1. UpInv /\ ChipInv /\ QuietInv
  BY DEF Polled
<1>2. ASSUME ch'.up = ch.up, ch'.core = ch.core, ch'.ca = ch.ca, ch'.deaf \/ ch'.deaf = ch.deaf,
             scb'.cmd = scb.cmd, busy' = busy, th'.pc = th.pc
      PROVE  UpInv'
  BY <1>1, <1>2 DEF UpInv, Asleep
<1>3. ASSUME th'.pc \notin {"zap", "busy"}, th.pc \notin {"zap", "busy"},
             ch'.up = ch.up, ch'.core = ch.core, ch'.deaf = ch.deaf
      PROVE  UpInv'
  BY <1>1, <1>3 DEF UpInv
<1>4. CASE Runs
  <2> USE DEF Runs
  <2>1. CASE Woken
    BY <1>1, <1>4, <2>1 DEF Woken, UpInv, Asleep
  <2>2. CASE Announced
    BY <1>1, <1>4, <2>2 DEF Announced, UpInv, Asleep
  <2>3. CASE Taken
    BY <1>1, <1>4, <2>3 DEF Taken, UpInv, Asleep
  <2>4. CASE Answered
    BY <1>1, <1>4, <2>4 DEF Answered, UpInv, Asleep, ChipInv
  <2>5. CASE Published \/ Completed \/ Ended \/ RxMoves \/ Locked
    <3>1. scb'.cmd = scb.cmd /\ busy' = busy
      BY <2>5 DEF Published, Completed, Ended, RxMoves, Locked
    <3> QED BY <1>2, <1>4, <2>5, <3>1 DEF Published, Completed, Ended, RxMoves, Locked
  <2> QED BY <1>4, <2>1, <2>2, <2>3, <2>4, <2>5 DEF ChipMoves
<1>5. CASE Clears \/ Laying \/ Starting \/ Acking \/ Handing \/ Listening
  BY <1>3, <1>5 DEF Clears, Laying, Starting, Acking, Handing, Listening, Asked, Attended
<1>6. CASE Goes
  <2>1. CASE th.pc # "busy"
    <3>1. th'.pc \notin {"zap", "busy"} /\ th.pc \notin {"zap", "busy"}
      BY <1>6, <2>1 DEF Goes, ProgramGoes, SimpleGoes, RuGoes, XmitGoes, PollGoes, ResetGoes, OpenGoes,
         Backed, SettingUp, SimplePcs
    <3> QED BY <1>3, <1>6, <3>1 DEF Goes, Untouched
  <2>2. CASE th.pc = "busy"
    <3>1. th'.pc \notin {"zap", "busy"} /\ (~busy \/ ~HandlerOwes)
      BY <1>6, <2>2 DEF Goes, ProgramGoes, SimpleGoes, RuGoes, XmitGoes, PollGoes, ResetGoes, OpenGoes,
         Backed, SettingUp, SimplePcs
    <3>2. ch.deaf \/ ch.up \/ ch.core = "waking"
      BY <1>1, <2>2, <3>1 DEF UpInv, Asleep, HandlerOwes
    <3> QED BY <1>6, <3>1, <3>2 DEF Goes, Untouched, UpInv
  <2> QED BY <2>1, <2>2
<1>7. CASE Resetting
  BY <1>7 DEF Resetting, Blank, UpInv, Asleep
<1>8. CASE Zapping
  BY <1>1, <1>8 DEF Zapping, Attended, UpInv, Asleep
<1>9. CASE Holding
  BY <1>9 DEF Holding, Backed, UpInv
<1>10. th.pc # "ru.abort"
  BY <1>1 DEF QuietInv
<1> QED BY <1>4, <1>5, <1>6, <1>7, <1>8, <1>9, <1>10 DEF Moves

\* No answering chip is given up on.
LEMMA GivesUp ==
  ASSUME es.prompt, Polled
  PROVE  /\ SettingUp /\ Late /\ (~Accepted \/ (th.pc = "simple.done" /\ ~DoneBlock)) => ch.deaf
         /\ th.pc = "busy" /\ busy /\ ~HandlerOwes => ch.deaf
<1>1. ASSUME SettingUp, Late, th.pc = "simple.done", ~DoneBlock PROVE ch.deaf
  BY <1>1 DEF Late, HandlerOwes, Polled, CuInv, Running
<1>2. th.pc = "busy" /\ busy /\ ~HandlerOwes => ch.deaf
  BY DEF HandlerOwes, Polled, UpInv
<1> QED BY <1>1, <1>2, Waits DEF Late

LEMMA CuKept ==
  ASSUME es.prompt, Types, Polled, Runs \/ Moves
  PROVE  CuInv'
<1> USE DEF SameCore, SameCu, SameRx, SameFrame, SameFiles, SameLists
<1>1. CuInv /\ ChipInv /\ CmdInv /\ QuietInv
  BY DEF Polled
<1>2. Block(th.op) \in 0..2 /\ DOMAIN cbs = 0..2 /\ \A c \in 0..2 : DOMAIN cbs[c] = CbFields
  BY DEF Block, Types, Shapes
<1>3. NoCommand.cuc = "NOP"
  BY DEF NoCommand
<1>4. CASE Runs
  <2>1. th' = th
    BY <1>4 DEF Runs
  <2>2. ASSUME ch'.core = ch.core, ch'.ca = ch.ca, ch'.deaf \/ ch'.deaf = ch.deaf, SameCu, SameLists,
               cbs' = cbs
        PROVE  CuInv'
    BY <1>1, <2>1, <2>2 DEF CuInv, CuQuiet, SettingUp, DoneBlock, Running
  <2>3. CASE Woken
    <3>1. ~Running
      BY <1>1, <1>3, <2>3 DEF Woken, Running, ChipInv, CmdInv
    <3> QED BY <1>1, <2>1, <2>3, <3>1 DEF Woken, CuInv, CuQuiet, SettingUp, DoneBlock, Running
  <2>4. CASE Announced
    <3>1. ch.deaf \/ ~Running
      BY <1>1, <1>3, <2>4 DEF Announced, Running, ChipInv, CmdInv
    <3> QED BY <1>1, <2>1, <2>4, <3>1 DEF Announced, CuInv, CuQuiet, SettingUp, DoneBlock, Running
  <2>5. CASE Taken
    BY <1>1, <2>1, <2>5 DEF Taken, CuInv, CuQuiet, SettingUp, DoneBlock, Running, ChipInv
  <2>6. CASE Answered
    BY <1>1, <1>3, <2>1, <2>6 DEF Answered, CuInv, CuQuiet, SettingUp, DoneBlock, Running
  <2>7. CASE Published \/ RxMoves \/ Locked
    <3>1. ch'.core = ch.core /\ ch'.ca = ch.ca /\ (ch'.deaf \/ ch'.deaf = ch.deaf) /\ SameCu
      BY <2>7 DEF Published, RxMoves, Locked
    <3>2. SameLists /\ cbs' = cbs
      BY <2>7 DEF Published, RxMoves, Locked
    <3> QED BY <2>2, <3>1, <3>2
  <2>8. CASE Completed
    <3>1. ch.cb = Block(th.op) => DoneBlock'
      BY <1>2, <2>1, <2>8 DEF Completed, DoneBlock, CbFields
    <3>2. CASE ch.deaf
      BY <2>1, <2>8, <3>2 DEF Completed, CuInv, CuQuiet
    <3>3. CASE ~ch.deaf
      <4>1. th.pc \notin {"zap", "busy", "reset.iaddr"}
            /\ (SettingUp => th.pc = "simple.done" /\ ch.cb = Block(th.op) /\ scb.cmd.cuc = "NOP")
        BY <1>1, <2>8, <3>3 DEF Completed, CuInv, CuQuiet, SettingUp, SimplePcs, Running
      <4> QED BY <2>1, <2>8, <3>1, <4>1 DEF Completed, CuInv, SettingUp
    <3> QED BY <3>2, <3>3
  <2>9. CASE Ended
    BY <1>1, <2>1, <2>9 DEF Ended, CuInv, CuQuiet, SettingUp, DoneBlock, Running
  <2> QED BY <1>4, <2>3, <2>4, <2>5, <2>6, <2>7, <2>8, <2>9 DEF Runs, ChipMoves
<1>5. CASE Goes
  <2>1. UNCHANGED <<scb, cbs, ch>>
    BY <1>5 DEF Goes, Untouched
  <2>2. /\ th'.pc \notin {"zap", "busy", "simple.start", "simple.done"}
        /\ SettingUp' /\ th'.pc = "simple" => CuQuiet
        /\ SettingUp' /\ th'.pc = "simple.ack" => SettingUp /\ th.pc = "simple.done" /\ DoneBlock
        /\ th'.pc = "reset.iaddr" => ch.deaf
    BY <1>1, <1>5, GivesUp DEF Goes, ProgramGoes, SimpleGoes, RuGoes, XmitGoes, PollGoes, ResetGoes,
       OpenGoes, Backed, SettingUp, SimplePcs, CuInv
  <2> QED BY <1>1, <2>1, <2>2 DEF CuInv, CuQuiet, SettingUp, SimplePcs
<1>6. CASE Clears
  <2>1. ~DoneBlock'
    BY <1>2, <1>6 DEF Clears, DoneBlock, Fresh
  <2> QED BY <1>1, <1>6, <2>1 DEF Clears, CuInv, CuQuiet, SettingUp, SimplePcs
<1>7. CASE Starting
  <2>1. ch'.core = "idle" /\ ch'.ca /\ ch'.cuStep = ch.cuStep
    BY <1>7, Waits DEF Starting, Asked, Attended
  <2> QED BY <1>1, <1>7, <2>1 DEF Starting, Asked, Attended, CuInv, CuQuiet, SettingUp, SimplePcs,
             DoneBlock, Running
<1>8. CASE Acking
  <2>1. ch.cuStep # "end"
    BY <1>8, Waits DEF Acking, Asked
  <2> QED BY <1>1, <1>8, <2>1 DEF Acking, Asked, Attended, CuInv, CuQuiet, SettingUp, SimplePcs
<1>9. CASE Laying \/ Listening \/ Handing \/ Holding
  BY <1>9 DEF Laying, Listening, Handing, Holding, Backed, CuInv, SettingUp, SimplePcs
<1>10. CASE Resetting
  BY <1>3, <1>10 DEF Resetting, Blank, CuInv, CuQuiet, SettingUp, SimplePcs
<1>11. CASE Zapping
  BY <1>1, <1>11 DEF Zapping, Attended, CuInv, CuQuiet, SettingUp, SimplePcs
<1>12. th.pc # "ru.abort"
  BY <1>1 DEF QuietInv
<1> QED BY <1>4, <1>5, <1>6, <1>7, <1>8, <1>9, <1>10, <1>11, <1>12 DEF Moves

LEMMA GaveUpKept ==
  ASSUME es.prompt, Polled, Runs \/ Moves
  PROVE  GaveUpInv'
<1>1. GaveUpInv /\ QuietInv
  BY DEF Polled
<1>2. CASE Runs
  <2>1. th' = th /\ (ch'.deaf \/ ch'.deaf = ch.deaf)
    BY <1>2 DEF Runs, ChipMoves, Woken, Announced, Taken, Answered, Published, Completed, Ended,
       RxMoves, Locked, SameCore
  <2> QED BY <1>1, <2>1 DEF GaveUpInv
<1>3. CASE Goes
  <2>1. ch' = ch
    BY <1>3 DEF Goes, Untouched
  <2>2. /\ th'.pc = "again" => ch.deaf
        /\ th'.pc \in {"reset.iaddr", "reset.conf", "reset.end"} /\ ~th'.ok => ch.deaf
    BY <1>1, <1>3, GivesUp, Waits DEF Goes, ProgramGoes, SimpleGoes, RuGoes, XmitGoes, PollGoes, ResetGoes,
       OpenGoes, Backed, GaveUpInv, Late
  <2> QED BY <2>1, <2>2 DEF GaveUpInv
<1>4. CASE Clears \/ Starting \/ Acking \/ Laying \/ Listening \/ Handing \/ Resetting \/ Zapping
  BY <1>4 DEF Clears, Starting, Acking, Laying, Listening, Handing, Resetting, Zapping, GaveUpInv
<1>5. CASE Holding
  BY <1>5 DEF Holding, GaveUpInv
<1>6. th.pc # "ru.abort"
  BY <1>1 DEF QuietInv
<1> QED BY <1>2, <1>3, <1>4, <1>5, <1>6 DEF Moves

LEMMA QuietKept ==
  ASSUME es.prompt, Polled, Runs \/ Moves
  PROVE  QuietInv'
<1> USE DEF SameCore, SameCu, SameRx, SameFrame, SameFiles, SameLists
<1>1. QuietInv /\ ChipInv /\ CmdInv /\ UpInv
  BY DEF Polled
<1>2. NoCommand.ruc = "NOP"
  BY DEF NoCommand
<1>3. CASE Runs
  <2>1. th' = th
    BY <1>3 DEF Runs
  <2>2. ASSUME Quiet PROVE Quiet'
    <3>1. CASE Woken \/ Announced \/ Completed \/ Ended \/ Locked
      BY <2>2, <3>1 DEF Quiet, Woken, Announced, Completed, Ended, Locked
    <3>2. CASE Taken
      BY <2>2, <3>2 DEF Quiet, Taken
    <3>3. CASE Answered \/ Published
      BY <1>1, <1>2, <2>2, <3>3 DEF Quiet, Answered, Published, ChipInv
    <3>4. ~RxMoves
      BY <2>2 DEF Quiet, RxMoves, Armed, Arrived, FilledOn, FilledEnd, FiledIt, Advanced
    <3> QED BY <1>3, <3>1, <3>2, <3>3, <3>4 DEF Runs, ChipMoves
  <2> QED BY <1>1, <2>1, <2>2 DEF QuietInv, SettingUp
<1>4. ASSUME th.pc = "poll", Settled, scb.status.rus # "READY" PROVE Quiet
  <2>1. ch.rus # "READY"
    BY <1>1, <1>4, Waits DEF ChipInv
  <2> QED BY <1>1, <1>2, <1>4, <2>1, Waits DEF Quiet, ChipInv
<1>5. CASE Goes
  <2>1. UNCHANGED <<ch, scb>>
    BY <1>5 DEF Goes, Untouched
  <2>2. th'.pc \in QuietPcs \/ SettingUp' => Quiet
    BY <1>1, <1>4, <1>5 DEF Goes, ProgramGoes, SimpleGoes, RuGoes, XmitGoes, PollGoes, ResetGoes,
       OpenGoes, Backed, QuietInv, SettingUp, SimplePcs, QuietPcs
  <2>3. th'.pc # "ru.abort"
    <3>1. th.pc = "ru" => scb.status.rus # "READY"
      BY <1>1 DEF QuietInv, QuietPcs, Quiet
    <3> QED BY <1>5, <3>1 DEF Goes, ProgramGoes, SimpleGoes, RuGoes, XmitGoes, PollGoes, ResetGoes,
       OpenGoes, Backed, SettingUp, SimplePcs
  <2> QED BY <2>1, <2>2, <2>3 DEF QuietInv, Quiet
<1>6. ASSUME SameRx, scb'.status.rus = scb.status.rus, ch'.deaf = ch.deaf,
             scb'.cmd.ruc = "NOP" \/ scb'.cmd.ruc = scb.cmd.ruc, Quiet
      PROVE  Quiet'
  BY <1>6 DEF Quiet
<1>7. CASE Clears \/ Starting \/ Acking
  <2>1. SettingUp => Quiet
    BY <1>1 DEF QuietInv
  <2>2. th'.pc # "ru.abort" /\ (th'.pc \in QuietPcs \/ SettingUp' => SettingUp)
    BY <1>7 DEF Clears, Starting, Acking, SettingUp, SimplePcs, QuietPcs
  <2>3. SameRx /\ scb'.status.rus = scb.status.rus /\ ch'.deaf = ch.deaf
        /\ (scb'.cmd.ruc = "NOP" \/ scb'.cmd.ruc = scb.cmd.ruc)
    BY <1>7 DEF Clears, Starting, Acking, Asked, Attended
  <2> QED BY <1>6, <2>1, <2>2, <2>3 DEF QuietInv
<1>8. CASE Laying \/ Handing \/ Zapping
  <2>1. Quiet /\ th'.pc # "ru.abort"
    BY <1>1, <1>8 DEF Laying, Handing, Zapping, QuietInv, QuietPcs
  <2>2. SameRx /\ scb'.status.rus = scb.status.rus /\ ch'.deaf = ch.deaf
        /\ (scb'.cmd.ruc = "NOP" \/ scb'.cmd.ruc = scb.cmd.ruc)
    BY <1>8 DEF Laying, Handing, Zapping, Asked, Attended
  <2> QED BY <1>6, <2>1, <2>2 DEF QuietInv
<1>9. CASE Listening \/ Holding
  BY <1>9 DEF Listening, Holding, Backed, QuietInv, QuietPcs, SettingUp, SimplePcs
<1>10. CASE Resetting
  BY <1>2, <1>10 DEF Resetting, Blank, QuietInv, Quiet
<1>11. th.pc # "ru.abort"
  BY <1>1 DEF QuietInv
<1> QED BY <1>3, <1>5, <1>7, <1>8, <1>9, <1>10, <1>11 DEF Moves

LEMMA FilledIs ==
  ASSUME Types, NEW last, Filled(last)
  PROVE  /\ \A b \in {0, 1} : rbds'[b].next = rbds[b].next /\ rbds'[b].el = rbds[b].el
         /\ \A b \in {0, 1} : b # ch.rbd => rbds'[b] = rbds[b]
         /\ ch.rbd \in {0, 1} =>
              /\ rbds'[ch.rbd].used = TRUE /\ rbds'[ch.rbd].last = last
              /\ rbds'[ch.rbd].data = [id |-> ch.frame.id, part |-> ch.part]
<1>1. DOMAIN rbds = {0, 1} /\ \A b \in {0, 1} : DOMAIN rbds[b] = RbdFields
  BY DEF Types, Shapes
<1> QED BY <1>1 DEF Filled, RbdFields

LEMMA LaidKept ==
  ASSUME es.prompt, Types, Polled, Runs \/ Moves
  PROVE  LaidInv'
<1> USE DEF SameCore, SameCu, SameRx, SameFrame, SameFiles, SameLists
<1>1. LaidInv /\ RxInv /\ CmdInv
  BY DEF Polled
<1>2. NoCommand.ruc # "START"
  BY DEF NoCommand
<1>3. DOMAIN rfds = {0} /\ DOMAIN rfds[0] = RfdFields
  BY DEF Types, Shapes
<1>4. CASE Runs
  <2>1. /\ Starts' => Starts /\ scb'.rfa = scb.rfa
        /\ ch'.rx # "none" => ch.rx # "none" \/ Starts
        /\ th' = th
    BY <1>1, <1>2, <1>4 DEF Runs, ChipMoves, Woken, Announced, Taken, Answered, Published, Completed, Ended,
       RxMoves, Armed, Arrived, FilledOn, FilledEnd, FiledIt, Advanced, Locked, Starts, CmdInv
  <2>2. UNCHANGED rbds \/ FilledOn \/ FilledEnd
    BY <1>4 DEF Runs, ChipMoves, Woken, Announced, Taken, Answered, Published, Completed, Ended,
       RxMoves, Armed, Arrived, FiledIt, Advanced, Locked
  <2>3. BufLaid => BufLaid'
    BY <2>2, FilledIs DEF FilledOn, FilledEnd, BufLaid
  <2>4. UNCHANGED rfds \/ FilledEnd \/ FiledIt
    BY <1>4 DEF Runs, ChipMoves, Woken, Announced, Taken, Answered, Published, Completed, Ended,
       RxMoves, Armed, Arrived, FilledOn, Advanced, Locked
  <2>5. CASE FilledEnd
    <3>1. rfds'[0].el = rfds[0].el /\ rfds'[0].rbd = 0
      BY <1>1, <1>3, <2>5 DEF FilledEnd, RxInv, RfdFields
    <3> QED BY <1>1, <2>1, <2>3, <2>5, <3>1 DEF LaidInv, FilledEnd
  <2>6. CASE FiledIt
    <3>1. rfds'[0].el = rfds[0].el /\ rfds'[0].rbd = rfds[0].rbd
      BY <1>3, <2>6 DEF FiledIt, RfdFields
    <3> QED BY <1>1, <2>1, <2>3, <2>6, <3>1 DEF LaidInv
  <2>7. CASE UNCHANGED rfds
    BY <1>1, <2>1, <2>3, <2>7 DEF LaidInv
  <2> QED BY <2>4, <2>5, <2>6, <2>7
<1>5. ASSUME UNCHANGED <<rfds, rbds>>, Starts' => Starts /\ scb'.rfa = scb.rfa,
             ch'.rx = ch.rx \/ ch'.rx = "none", th'.pc # "ru.frame"
      PROVE  LaidInv'
  BY <1>1, <1>5 DEF LaidInv, BufLaid
<1>6. CASE Goes
  <2>1. th'.pc # "ru.frame"
    BY <1>6 DEF Goes, ProgramGoes, SimpleGoes, RuGoes, XmitGoes, PollGoes, ResetGoes, OpenGoes, Backed
  <2> QED BY <1>5, <1>6, <2>1 DEF Goes, Untouched, Starts
<1>7. CASE Clears \/ Starting \/ Acking \/ Handing \/ Resetting \/ Zapping \/ Holding
  BY <1>2, <1>5, <1>7 DEF Clears, Starting, Acking, Handing, Resetting, Zapping, Holding, Asked, Attended,
     Blank, Backed, Starts
<1>8. CASE Laying
  BY <1>1, <1>8 DEF Laying, LaidInv, BufLaid, Starts
<1>9. CASE Listening
  BY <1>1, <1>9 DEF Listening, LaidInv, BufLaid, Starts
<1>10. th.pc # "ru.abort"
  BY DEF Polled, QuietInv
<1> QED BY <1>4, <1>6, <1>7, <1>8, <1>9, <1>10 DEF Moves

LEMMA RxKept ==
  ASSUME es.prompt, Types, Polled, Runs \/ Moves
  PROVE  RxInv'
<1> USE DEF SameCore, SameCu, SameRx, SameFrame, SameFiles, SameLists
<1>1. RxInv /\ LaidInv /\ StartInv /\ BufInv /\ CmdInv /\ QuietInv
  BY DEF Polled
<1>2. DOMAIN rfds = {0} /\ DOMAIN rfds[0] = RfdFields
  BY DEF Types, Shapes
<1>3. ASSUME SameRx, SameFiles, es'.handed = es.handed PROVE RxInv'
  BY <1>1, <1>3 DEF RxInv, NoneFiled, Ours, Holds, Fits
<1>4. ASSUME ch'.rx = "none" PROVE RxInv'
  BY <1>4 DEF RxInv, IsRx
<1>5. CASE Runs
  <2>1. es' = es
    BY <1>5 DEF Runs
  <2>2. CASE Woken \/ Announced \/ Answered \/ Published \/ Completed \/ Ended \/ Locked
    BY <1>3, <2>1, <2>2 DEF Woken, Announced, Answered, Published, Completed, Ended, Locked
  <2>3. CASE Taken
    <3>1. CASE Starts /\ ch.rus # "READY"
      <4>1. NoneFiled /\ scb.rfa = 0
        BY <1>1, <2>3, <3>1 DEF Taken, StartInv, LaidInv
      <4> QED BY <2>3, <3>1, <4>1 DEF Taken, RxInv, IsRx, NoneFiled, Starts
    <3>2. CASE ~(Starts /\ ch.rus # "READY")
      BY <1>1, <1>3, <2>1, <2>3, <3>2 DEF Taken, CmdInv, Starts
    <3> QED BY <3>1, <3>2
  <2>4. CASE RxMoves
    <3>1. CASE Armed
      <4>1. rfds[0].rbd = 0 /\ ch.rfd = 0 /\ 0 # Null /\ ~rbds[0].el /\ NoneFiled
        BY <1>1, <3>1, RomAssumption, PortAssumption DEF Armed, RxInv, LaidInv, BufLaid
      <4> QED BY <3>1, <4>1 DEF Armed, RxInv, IsRx, NoneFiled
    <3>2. ASSUME NEW len \in 1..MaxLen, Arrived(len) PROVE RxInv'
      <4>1. ch.rfd = 0 /\ NoneFiled /\ ch.rbd = 0 /\ ~ch.el
        BY <1>1, <3>2 DEF Arrived, RxInv
      <4>2. wire \in Nat /\ wire' = wire + 1 /\ es.handed < wire /\ len \in Nat \ {0}
        BY <1>1, <3>2, PortAssumption DEF Arrived, BufInv
      <4>3. Ours(ch.frame)'
        BY <2>1, <3>2, <4>2 DEF Arrived, Ours
      <4> QED BY <3>2, <4>1, <4>3 DEF Arrived, RxInv, IsRx, NoneFiled
    <3>3. CASE FilledOn
      <4>1. /\ ch.rfd = 0 /\ NoneFiled /\ ch.first = 0 /\ Ours(ch.frame) /\ ~ch.firstEl
            /\ \/ ch.part = 1 /\ ch.rbd = 0 /\ ~ch.el
               \/ ch.part = 2 /\ ch.rbd = 1 /\ ch.el
        BY <1>1, <3>3 DEF FilledOn, RxInv
      <4>2. NoneFiled' /\ ch'.rfd = 0
        BY <3>3, <4>1 DEF FilledOn, NoneFiled
      <4>3. CASE ch.el
        BY <3>3, <4>1, <4>2, <4>3 DEF FilledOn, RxInv, IsRx
      <4>4. CASE ~ch.el
        <5>1. rbds[0].next = 1 /\ rbds[1].el /\ ch.part = 1 /\ ch.rbd = 0
          BY <1>1, <3>3, <4>1, <4>4 DEF FilledOn, LaidInv, BufLaid
        <5>2. ch'.rx = "fill" /\ ch'.rbd = 1 /\ ch'.el /\ ch'.part = 2 /\ ch'.first = 0 /\ ~ch'.firstEl
              /\ ch'.frame = ch.frame
          BY <3>3, <4>1, <4>4, <5>1 DEF FilledOn
        <5>3. rbds'[0].last = FALSE
          BY <3>3, <5>1, FilledIs DEF FilledOn
        <5>4. ch.frame.len # 1
          BY <3>3, <5>1, <4>1 DEF FilledOn, Ours
        <5>5. Ours(ch.frame)'
          BY <2>1, <3>3, <4>1, <5>2 DEF FilledOn, Ours
        <5> QED BY <4>2, <5>2, <5>3, <5>4, <5>5 DEF RxInv, IsRx
      <4> QED BY <4>3, <4>4
    <3>4. CASE FilledEnd
      <4>1. /\ ch.rfd = 0 /\ NoneFiled /\ ch.first = 0 /\ Ours(ch.frame)
            /\ \/ ch.part = 1 /\ ch.rbd = 0
               \/ ch.part = 2 /\ ch.rbd = 1 /\ ~rbds[0].last
        BY <1>1, <3>4 DEF FilledEnd, RxInv
      <4>2. ~rfds'[0].done
        BY <1>2, <3>4, <4>1 DEF FilledEnd, NoneFiled, RfdFields
      <4>3. ch'.last
        BY <1>1, <3>4, <4>1 DEF FilledEnd, LaidInv
      <4>4. Holds(ch.frame)'
        <5>1. CASE ch.rbd = 0
          <6>1. rbds'[0].used = TRUE /\ rbds'[0].last = TRUE
                /\ rbds'[0].data = [id |-> ch.frame.id, part |-> 1]
            BY <3>4, <4>1, <5>1, FilledIs DEF FilledEnd
          <6>2. ch.frame.len = 1
            BY <3>4, <4>1, <5>1 DEF FilledEnd
          <6> QED BY <3>4, <6>1, <6>2 DEF FilledEnd, Holds, Fits
        <5>2. CASE ch.rbd = 1
          <6>1. ~rbds[0].last /\ ch.frame.len = 2
            BY <3>4, <4>1, <5>2 DEF FilledEnd
          <6>2. rbds'[0] = rbds[0]
            <7>1. \A b \in {0, 1} : b # ch.rbd => rbds'[b] = rbds[b]
              BY <3>4, FilledIs DEF FilledEnd
            <7>2. 0 # ch.rbd
              BY <5>2
            <7> QED BY <7>1, <7>2
          <6> QED BY <3>4, <6>1, <6>2 DEF FilledEnd, Holds
        <5> QED BY <4>1, <5>1, <5>2
      <4>5. Ours(ch.frame)'
        BY <2>1, <3>4, <4>1 DEF FilledEnd, Ours
      <4> QED BY <3>4, <4>1, <4>2, <4>3, <4>4, <4>5 DEF FilledEnd, RxInv, IsRx, NoneFiled
    <3>5. CASE FiledIt
      BY <1>1, <3>5 DEF FiledIt, RxInv, IsRx
    <3>6. CASE Advanced
      BY <1>1, <1>4, <3>6 DEF Advanced, RxInv
    <3> QED BY <2>4, <3>1, <3>2, <3>3, <3>4, <3>5, <3>6 DEF RxMoves
  <2> QED BY <1>5, <2>2, <2>3, <2>4 DEF Runs, ChipMoves
<1>6. CASE Goes \/ Clears \/ Starting \/ Acking \/ Zapping
  BY <1>3, <1>6 DEF Goes, Untouched, Clears, Starting, Acking, Zapping, Asked, Attended
<1>7. CASE Laying \/ Listening \/ Handing
  <2>1. ch.rx = "none"
    BY <1>1, <1>7 DEF Laying, Listening, Handing, QuietInv, QuietPcs, Quiet
  <2> QED BY <1>4, <1>7, <2>1 DEF Laying, Listening, Handing, Asked, Attended
<1>8. CASE Resetting \/ Holding
  BY <1>4, <1>8 DEF Resetting, Holding, Blank
<1>9. th.pc # "ru.abort"
  BY DEF Polled, QuietInv
<1> QED BY <1>5, <1>6, <1>7, <1>8, <1>9 DEF Moves

LEMMA StartKept ==
  ASSUME es.prompt, Types, Polled, Runs \/ Moves
  PROVE  StartInv'
<1> USE DEF SameCore, SameCu, SameRx, SameFrame, SameFiles, SameLists
<1>1. StartInv /\ CmdInv /\ QuietInv /\ UpInv
  BY DEF Polled
<1>2. NoCommand.ruc = "NOP"
  BY DEF NoCommand
<1>3. ASSUME scb'.cmd = scb.cmd, ch'.core = ch.core, ch'.rx = ch.rx, ch'.deaf \/ ch'.deaf = ch.deaf,
             UNCHANGED <<rfds, filed>>
      PROVE  StartInv'
  BY <1>1, <1>3 DEF StartInv, Starts, NoneFiled
<1>4. ASSUME ~Starts' \/ ch'.deaf PROVE StartInv'
  BY <1>4 DEF StartInv
<1>5. CASE Woken \/ Taken
  BY <1>5 DEF Woken, Taken, StartInv
<1>6. CASE Announced
  <2>1. ~ch.deaf => ~Starts
    BY <1>1, <1>2, <1>6 DEF Announced, CmdInv, Starts
  <2> QED BY <1>4, <1>6, <2>1 DEF Announced, Starts
<1>7. CASE Answered
  BY <1>2, <1>4, <1>7 DEF Answered, Starts
<1>8. CASE Published \/ Completed \/ Ended \/ Locked
  BY <1>3, <1>8 DEF Published, Completed, Ended, Locked
<1>9. CASE RxMoves
  <2>1. ch.rx # "none" /\ SameCore /\ UNCHANGED scb
    BY <1>9 DEF RxMoves, Armed, Arrived, FilledOn, FilledEnd, FiledIt, Advanced
  <2> QED BY <1>1, <2>1 DEF StartInv, Starts
<1>10. CASE Goes \/ Clears \/ Laying
  BY <1>3, <1>10 DEF Goes, Untouched, Clears, Laying
<1>11. CASE Starting \/ Acking \/ Handing \/ Resetting \/ Holding
  BY <1>2, <1>4, <1>11 DEF Starting, Acking, Handing, Resetting, Holding, Asked, Starts
<1>12. CASE Listening
  <2>1. ch.rx = "none"
    BY <1>1, <1>12 DEF Listening, QuietInv, QuietPcs, Quiet
  <2> QED BY <1>12, <2>1 DEF Listening, Attended, StartInv, NoneFiled
<1>13. CASE Zapping
  <2>1. scb.cmd = NoCommand
    BY <1>1, <1>13 DEF Zapping, UpInv
  <2> QED BY <1>2, <1>4, <1>13, <2>1 DEF Zapping, Starts
<1>14. th.pc # "ru.abort"
  BY <1>1 DEF QuietInv
<1> QED BY <1>5, <1>6, <1>7, <1>8, <1>9, <1>10, <1>11, <1>12, <1>13, <1>14 DEF Runs, ChipMoves, Moves

\* The frame handed over was the one filed.
LEMMA HandsOver ==
  ASSUME es.prompt, Polled, Handing
  PROVE  filed' = <<>>
<1>1. FiledInv /\ CopyInv /\ th.pc = "poll.ack"
  BY DEF Polled, Handing
<1> DEFINE gone == [id : {th.frame}, len : 1..MaxLen]
<1>2. filed' = Without(filed, gone)
  BY DEF Handing
<1>3. CASE filed = <<>>
  <2>1. <<>> \in Seq({})
    OBVIOUS
  <2>2. filed' \in Seq({})
    BY <1>2, <1>3, <2>1, WithoutKeeps
  <2> QED BY <2>2
<1>4. ASSUME NEW f, Ours(f), filed = <<f>>, Holds(f) PROVE filed' = <<>>
  <2>1. f.len = 1 /\ rbds[0].data = [id |-> f.id, part |-> 1]
    BY <1>1, <1>4 DEF CopyInv, Holds, Fits, Got
  <2>2. th.frame = f.id
    BY <1>1, <2>1 DEF CopyInv
  <2>3. f \in gone
    <3>1. 1 \in 1..MaxLen
      BY PortAssumption
    <3>2. f \in [id : Nat, len : Nat \ {0}]
      BY <1>4 DEF Ours
    <3> QED BY <2>1, <2>2, <3>1, <3>2
  <2>4. filed' \in Seq({f}) /\ \A k \in DOMAIN filed' : filed'[k] \notin gone
    <3>1. <<f>> \in Seq({f})
      OBVIOUS
    <3> HIDE DEF gone
    <3> QED BY <1>2, <1>4, <3>1, WithoutKeeps
  <2> HIDE DEF gone
  <2>5. \A k \in DOMAIN filed' : filed'[k] = f
    BY <2>4
  <2>6. Len(filed') = 0
    <3>1. Len(filed') # 0 => 1 \in DOMAIN filed'
      BY <2>4
    <3> QED BY <2>3, <2>4, <2>5, <3>1
  <2> QED BY <2>4, <2>6
<1> QED BY <1>1, <1>3, <1>4 DEF FiledInv

LEMMA FiledKept ==
  ASSUME es.prompt, Types, Polled, Runs \/ Moves
  PROVE  FiledInv'
<1> USE DEF SameCore, SameCu, SameRx, SameFrame, SameFiles, SameLists
<1>1. FiledInv /\ RxInv /\ ThrowInv /\ QuietInv
  BY DEF Polled
<1>2. DOMAIN rfds = {0} /\ DOMAIN rfds[0] = RfdFields
  BY DEF Types, Shapes
<1>3. ASSUME SameFiles, es'.handed = es.handed PROVE FiledInv'
  BY <1>1, <1>3 DEF FiledInv, Ours, Holds, Fits
<1>4. ASSUME filed' = <<>> PROVE FiledInv'
  BY <1>4 DEF FiledInv
<1>5. CASE Runs
  <2>1. es' = es
    BY <1>5 DEF Runs
  <2>2. CASE Woken \/ Announced \/ Taken \/ Answered \/ Published \/ Completed \/ Ended \/ Locked \/ Armed \/ Advanced
    BY <1>3, <2>1, <2>2 DEF Woken, Announced, Taken, Answered, Published, Completed, Ended, Locked, Armed, Advanced
  <2>3. CASE (\E len \in 1..MaxLen : Arrived(len)) \/ FilledOn \/ FilledEnd
    BY <1>1, <1>4, <2>3 DEF Arrived, FilledOn, FilledEnd, RxInv, NoneFiled
  <2>4. CASE FiledIt
    <3>1. filed = <<>> /\ Holds(ch.frame) /\ Ours(ch.frame) /\ ch.rfd = 0
      BY <1>1, <2>4 DEF FiledIt, RxInv, NoneFiled
    <3>2. filed' = <<ch.frame>> /\ rfds'[0].done
      <4>1. filed' = Append(<<>>, ch.frame)
        BY <2>4, <3>1 DEF FiledIt
      <4>2. Append(<<>>, ch.frame) = <<ch.frame>>
        OBVIOUS
      <4> QED BY <1>2, <2>4, <3>1, <4>1, <4>2 DEF FiledIt, RfdFields
    <3>3. UNCHANGED <<rbds, wire, es>>
      BY <2>1, <2>4 DEF FiledIt
    <3> QED BY <3>1, <3>2, <3>3 DEF FiledInv, Ours, Holds, Fits
  <2> QED BY <1>5, <2>2, <2>3, <2>4 DEF Runs, ChipMoves, RxMoves
<1>6. CASE Goes \/ Clears \/ Starting \/ Acking \/ Zapping \/ Holding
  BY <1>3, <1>6 DEF Goes, Untouched, Clears, Starting, Acking, Zapping, Holding, Asked
<1>7. CASE Laying
  <2>1. NoneFits
    BY <1>1, <1>7 DEF ThrowInv, Laying
  <2>2. CASE filed = <<>>
    BY <1>4, <1>7, <2>2 DEF Laying
  <2>3. CASE filed # <<>>
    <3>1. PICK f : Ours(f) /\ filed = <<f>> /\ rfds[0].done
      BY <1>1, <2>3 DEF FiledInv
    <3>2. PICK g : filed = <<g>> /\ g.len > 1
      BY <2>1, <2>3 DEF NoneFits
    <3>3. f.len # 1
      <4>1. f = g
        BY <3>1, <3>2
      <4> QED BY <3>2, <4>1
    <3> QED BY <1>7, <3>1, <3>3 DEF Laying, FiledInv, Ours, Holds
  <2> QED BY <2>2, <2>3
<1>8. CASE Listening \/ Handing \/ Resetting
  BY <1>4, <1>8, HandsOver DEF Listening, Resetting
<1>9. th.pc # "ru.abort"
  BY <1>1 DEF QuietInv
<1> QED BY <1>5, <1>6, <1>7, <1>8, <1>9 DEF Moves

LEMMA BufKept ==
  ASSUME es.prompt, Types, Polled, Runs \/ Moves
  PROVE  BufInv'
<1> USE DEF SameCore, SameCu, SameRx, SameFrame, SameFiles, SameLists
<1>1. BufInv /\ RxInv /\ CopyInv /\ QuietInv
  BY DEF Polled
<1>2. ASSUME UNCHANGED <<rbds, wire>>, es'.handed = es.handed PROVE BufInv'
  BY <1>1, <1>2 DEF BufInv, Fits
<1>3. CASE Runs
  <2>1. es' = es
    BY <1>3 DEF Runs
  <2>2. CASE Woken \/ Announced \/ Taken \/ Answered \/ Published \/ Completed \/ Ended \/ Locked
             \/ Armed \/ FiledIt \/ Advanced
    BY <1>2, <2>1, <2>2 DEF Woken, Announced, Taken, Answered, Published, Completed, Ended, Locked,
       Armed, FiledIt, Advanced
  <2>3. ASSUME NEW len, Arrived(len) PROVE BufInv'
    BY <1>1, <2>1, <2>3 DEF Arrived, BufInv, Fits
  <2>4. ASSUME NEW last \in BOOLEAN, ch.rx = "fill", Filled(last), wire' = wire, last => FilledEnd
        PROVE  BufInv'
    <3>1. CASE ch.rbd = 0
      <4>1. /\ rbds'[0].last = last
            /\ rbds'[0].data = [id |-> ch.frame.id, part |-> ch.part]
        BY <2>4, <3>1, FilledIs
      <4>2. ch.part = 1 /\ ch.frame.id \in Nat /\ ch.frame.id < wire
        BY <1>1, <2>4, <3>1 DEF RxInv, Ours
      <4> QED BY <1>1, <2>1, <2>4, <4>1, <4>2 DEF BufInv
    <3>2. CASE ch.rbd = 1
      <4>1. \A b \in {0, 1} : b # ch.rbd => rbds'[b] = rbds[b]
        BY <2>4, FilledIs
      <4>2. rbds'[0] = rbds[0]
        <5>1. 0 # ch.rbd
          BY <3>2
        <5> QED BY <4>1, <5>1
      <4> QED BY <1>1, <2>1, <2>4, <4>2 DEF BufInv, Fits
    <3> QED BY <1>1, <2>4, <3>1, <3>2 DEF RxInv
  <2>5. CASE FilledOn \/ FilledEnd
    BY <2>4, <2>5 DEF FilledOn, FilledEnd
  <2> QED BY <1>3, <2>2, <2>3, <2>5 DEF Runs, ChipMoves, RxMoves
<1>4. CASE Goes \/ Clears \/ Starting \/ Acking \/ Listening \/ Resetting \/ Zapping \/ Holding
  BY <1>2, <1>4 DEF Goes, Untouched, Clears, Starting, Acking, Listening, Resetting, Zapping, Holding, Asked
<1>5. CASE Laying
  BY <1>1, <1>5 DEF Laying, BufInv, Fits
<1>6. CASE Handing
  <2>1. Fits /\ th.frame = rbds[0].data.id
    BY <1>1, <1>6 DEF Handing, CopyInv, Got, Fits
  <2> QED BY <1>1, <1>6, <2>1 DEF Handing, Asked, BufInv, Fits
<1>7. th.pc # "ru.abort"
  BY <1>1 DEF QuietInv
<1> QED BY <1>3, <1>4, <1>5, <1>6, <1>7 DEF Moves

LEMMA DoneKept ==
  ASSUME es.prompt, Types, Polled, Runs \/ Moves
  PROVE  DoneInv'
<1> USE DEF SameCore, SameCu, SameRx, SameFrame, SameFiles, SameLists
<1>1. DoneInv /\ RxInv /\ GaveUpInv /\ QuietInv
  BY DEF Polled
<1>2. DOMAIN rfds = {0} /\ DOMAIN rfds[0] = RfdFields
  BY DEF Types, Shapes
<1>3. ASSUME UNCHANGED <<rfds, filed>>, ch'.deaf \/ ch'.deaf = ch.deaf, Opened' => Opened \/ ch.deaf
      PROVE  DoneInv'
  BY <1>1, <1>3 DEF DoneInv
<1>4. CASE Runs
  <2>1. UNCHANGED <<th, es>>
    BY <1>4 DEF Runs
  <2>2. Opened' => Opened
    BY <2>1 DEF Opened
  <2>3. CASE FilledEnd
    <3>1. ~rfds'[0].done
      BY <1>1, <1>2, <2>3 DEF FilledEnd, RxInv, NoneFiled, RfdFields
    <3> QED BY <3>1 DEF DoneInv
  <2>4. CASE FiledIt
    <3>1. filed = <<>>
      BY <1>1, <2>4 DEF FiledIt, RxInv, NoneFiled
    <3>2. filed' # <<>>
      BY <2>4, <3>1 DEF FiledIt
    <3> QED BY <3>2 DEF DoneInv
  <2>5. CASE Woken \/ Announced \/ Taken \/ Answered \/ Published \/ Completed \/ Ended \/ Locked
    BY <1>3, <2>2, <2>5 DEF Woken, Announced, Taken, Answered, Published, Completed, Ended, Locked
  <2>6. CASE RxMoves /\ ~FilledEnd /\ ~FiledIt
    BY <1>3, <2>2, <2>6 DEF RxMoves, Armed, Arrived, FilledOn, Advanced
  <2> QED BY <1>4, <2>3, <2>4, <2>5, <2>6 DEF Runs, ChipMoves
<1>5. CASE Goes
  <2>1. UNCHANGED <<rfds, filed, ch>>
    BY <1>5 DEF Goes, Untouched
  <2>2. Opened' => Opened \/ ch.deaf
    BY <1>1, <1>5, GivesUp, Waits DEF Goes, ProgramGoes, SimpleGoes, RuGoes, XmitGoes, PollGoes, ResetGoes,
       OpenGoes, Backed, GaveUpInv, Late, Opened, SettingUp, SimplePcs
  <2> QED BY <1>3, <2>1, <2>2
<1>6. CASE Clears \/ Starting \/ Acking
  <2>1. Opened' => Opened
    BY <1>6 DEF Clears, Starting, Acking, Opened, SettingUp, SimplePcs
  <2> QED BY <1>3, <1>6, <2>1 DEF Clears, Starting, Acking, Asked, Attended
<1>7. CASE Laying \/ Handing \/ Resetting \/ Zapping
  BY <1>7 DEF Laying, Handing, Resetting, Zapping, Opened, SimplePcs, DoneInv
<1>8. CASE Listening \/ Holding
  BY <1>8 DEF Listening, Holding, DoneInv
<1>9. th.pc # "ru.abort"
  BY <1>1 DEF QuietInv
<1> QED BY <1>4, <1>5, <1>6, <1>7, <1>8, <1>9 DEF Moves

\* While the receiver is at rest the chip leaves the descriptors alone.
LEMMA Undisturbed ==
  ASSUME Runs, Quiet
  PROVE  UNCHANGED <<rfds, rbds, filed, th, es>>
<1>1. ~RxMoves
  BY DEF Quiet, RxMoves, Armed, Arrived, FilledOn, FilledEnd, FiledIt, Advanced
<1> QED BY <1>1 DEF Runs, ChipMoves, Woken, Announced, Taken, Answered, Published, Completed, Ended,
           Locked, SameFiles

LEMMA ThrowKept ==
  ASSUME es.prompt, Types, Polled, Runs \/ Moves
  PROVE  ThrowInv'
<1>1. ThrowInv /\ FiledInv /\ QuietInv
  BY DEF Polled
<1> DEFINE Restarts == th.pc \in {"ru", "ru.wait", "ru.frame"}
           Begins   == th.pc \in {"zap", "busy", "reset.iaddr", "reset.conf"} \/ SettingUp
<1>2. ASSUME filed' = filed, Restarts' => NoneFits, Begins' => filed = <<>> PROVE ThrowInv'
  BY <1>2 DEF ThrowInv, NoneFits
<1>3. ASSUME filed' = <<>> PROVE ThrowInv'
  BY <1>3 DEF ThrowInv, NoneFits
<1>4. CASE Runs
  <2>1. UNCHANGED <<th, es>>
    BY <1>4 DEF Runs
  <2>2. Restarts' \/ Begins' => Quiet
    BY <1>1, <2>1 DEF QuietInv, QuietPcs, SettingUp
  <2>3. Restarts' \/ Begins' => filed' = filed
    BY <1>4, <2>2, Undisturbed
  <2> QED BY <1>1, <2>1, <2>3 DEF ThrowInv, NoneFits, SettingUp
<1>5. ASSUME ~Got PROVE NoneFits
  <2>1. CASE filed = <<>>
    BY <2>1 DEF NoneFits
  <2>2. ASSUME NEW f, Ours(f), filed = <<f>>, rfds[0].done, Holds(f) PROVE NoneFits
    <3>1. f.len # 1
      BY <1>5, <2>2 DEF Got, Holds, Fits
    <3>2. f.len > 1
      BY <2>2, <3>1 DEF Ours
    <3> QED BY <2>2, <3>2 DEF NoneFits
  <2> QED BY <1>1, <2>1, <2>2 DEF FiledInv
<1>6. CASE Goes
  <2>1. filed' = filed
    BY <1>6 DEF Goes, Untouched
  <2>2. Restarts' => NoneFits
    <3>1. Restarts' => Restarts \/ ~Got \/ th.pc = "reset.conf"
      BY <1>6 DEF Goes, ProgramGoes, SimpleGoes, RuGoes, XmitGoes, PollGoes, ResetGoes, OpenGoes, Backed
    <3>2. th.pc = "reset.conf" => NoneFits
      BY <1>1 DEF ThrowInv, NoneFits
    <3> QED BY <1>1, <1>5, <3>1, <3>2 DEF ThrowInv
  <2>3. Begins' => filed = <<>>
    <3>1. Begins' => Begins
      BY <1>6 DEF Goes, ProgramGoes, SimpleGoes, RuGoes, XmitGoes, PollGoes, ResetGoes, OpenGoes, Backed,
         SettingUp, SimplePcs
    <3> QED BY <1>1, <3>1 DEF ThrowInv
  <2> QED BY <1>2, <2>1, <2>2, <2>3
<1>7. CASE Clears \/ Starting \/ Acking \/ Zapping
  <2>1. filed' = filed /\ ~Restarts' /\ (Begins' => Begins)
    BY <1>7 DEF Clears, Starting, Acking, Zapping, SettingUp, SimplePcs
  <2> QED BY <1>1, <1>2, <2>1 DEF ThrowInv
<1>8. CASE Laying
  BY <1>1, <1>8 DEF Laying, ThrowInv, NoneFits, SettingUp, SimplePcs
<1>9. CASE Listening \/ Handing \/ Resetting
  BY <1>3, <1>9, HandsOver DEF Listening, Resetting
<1>10. CASE Holding
  BY <1>10 DEF Holding, Backed, ThrowInv, SettingUp, SimplePcs
<1>11. th.pc # "ru.abort"
  BY <1>1 DEF QuietInv
<1> QED BY <1>4, <1>6, <1>7, <1>8, <1>9, <1>10, <1>11 DEF Moves

LEMMA CopyKept ==
  ASSUME es.prompt, Types, Polled, Runs \/ Moves
  PROVE  CopyInv'
<1>1. CopyInv /\ QuietInv
  BY DEF Polled
<1>2. CASE Runs
  <2>1. UNCHANGED <<th, es>>
    BY <1>2 DEF Runs
  <2>2. th'.pc \in {"poll.copy", "poll.ack"} => Quiet
    BY <1>1, <2>1 DEF QuietInv, QuietPcs
  <2>3. th'.pc \in {"poll.copy", "poll.ack"} => UNCHANGED <<rfds, rbds>>
    BY <1>2, <2>2, Undisturbed
  <2> QED BY <1>1, <2>1, <2>3 DEF CopyInv, Got
<1>3. CASE Goes
  <2>1. UNCHANGED <<rfds, rbds>>
    BY <1>3 DEF Goes, Untouched
  <2>2. /\ th'.pc = "poll.copy" => Got
        /\ th'.pc = "poll.ack" => th.pc = "poll.copy" /\ th'.frame = rbds[0].data.id
    BY <1>3 DEF Goes, ProgramGoes, SimpleGoes, RuGoes, XmitGoes, PollGoes, ResetGoes, OpenGoes, Backed
  <2> QED BY <1>1, <2>1, <2>2 DEF CopyInv, Got
<1>4. CASE Clears \/ Starting \/ Acking \/ Laying \/ Listening \/ Handing \/ Resetting \/ Zapping \/ Holding
  BY <1>4 DEF Clears, Starting, Acking, Laying, Listening, Handing, Resetting, Zapping, Holding, Backed,
     CopyInv
<1>5. th.pc # "ru.abort"
  BY <1>1 DEF QuietInv
<1> QED BY <1>2, <1>3, <1>4, <1>5 DEF Moves

-----------------------------------------------------------------------------
\* Together.

LEMMA PolledInit ==
  ASSUME Init
  PROVE  PolledInv
<1>1. /\ ch.up = FALSE /\ ch.deaf = TRUE /\ ch.core = "idle" /\ ch.rx = "none" /\ ch.rus = "IDLE"
      /\ ch.cuStep = "none" /\ ch.cus = "IDLE"
  BY DEF Init, HeldChip, ResetChip
<1>2. scb.cmd.cuc = "NOP" /\ scb.cmd.ruc = "NOP" /\ scb.cmd = NoCommand /\ scb.status.rus = "IDLE"
  BY DEF Init, ZeroScb, ZeroStatus, NoCommand
<1>3. th.pc = "idle" /\ filed = <<>> /\ wire = 0 /\ es.handed = -1
  BY DEF Init, AtRest, Softc
<1>4. ~rbds[0].used
  BY RomAssumption DEF Init, BlankRbd
<1>5. ChipInv /\ CmdInv /\ UpInv
  BY <1>1, <1>2, <1>3 DEF ChipInv, CmdInv, UpInv
<1>6. CuInv /\ GaveUpInv /\ QuietInv
  BY <1>3 DEF CuInv, GaveUpInv, QuietInv, QuietPcs, SettingUp, SimplePcs
<1>7. LaidInv /\ RxInv /\ StartInv /\ FiledInv
  BY <1>1, <1>2, <1>3 DEF LaidInv, Starts, RxInv, IsRx, StartInv, FiledInv
<1>8. BufInv /\ DoneInv /\ ThrowInv /\ CopyInv
  BY <1>1, <1>3, <1>4 DEF BufInv, Fits, DoneInv, ThrowInv, SettingUp, SimplePcs, CopyInv
<1> QED BY <1>5, <1>6, <1>7, <1>8 DEF PolledInv, Polled

\* Every step is one of the driver's, told by where it goes, one of the chip's,
\* or none.
LEMMA ChipRuns ==
  ASSUME Types, Chip \/ Network \/ Lockup
  PROVE  Runs
<1>1. CASE Chip
  <2>1. ChipStep /\ UNCHANGED <<th, es>>
    BY <1>1 DEF Chip, romVars
  <2>2. ChipMoves
    BY <2>1, ChipIs DEF Types
  <2> QED BY <2>1, <2>2 DEF Runs
<1>2. CASE Network
  <2>1. (\E len \in 1..MaxLen : Arrive(len)) /\ UNCHANGED <<th, es>>
    BY <1>2 DEF Network, romVars
  <2>2. ChipMoves
    BY <2>1, ChipIs DEF Types
  <2> QED BY <2>1, <2>2 DEF Runs
<1>3. CASE Lockup
  <2>1. DOMAIN ch = ChFields
    BY DEF Types, Shapes
  <2>2. Locked /\ UNCHANGED <<th, es>>
    BY <1>3, <2>1 DEF Lockup, Locked, ChFields, SameCu, SameRx, SameFrame, SameFiles, mem, ghosts
  <2> QED BY <2>2 DEF Runs
<1> QED BY <1>1, <1>2, <1>3

LEMMA StepIs ==
  ASSUME Types, [Next]_vars
  PROVE  /\ es'.prompt = es.prompt
         /\ Runs \/ Moves \/ UNCHANGED vars
<1>1. CASE Driver
  <2>1. Step
    BY <1>1, DriverIs DEF Types, Shapes
  <2> QED BY <2>1, StepShapes, MovesIs
<1>2. CASE Program
  <2>1. UNCHANGED portVars /\ ProgramGoes
    BY <1>2, ProgramIs DEF ProgramGoes
  <2>2. es'.handed = es.handed /\ es'.prompt = es.prompt
    BY <1>2, ProgramIs DEF EsFields
  <2> QED BY <2>1, <2>2 DEF portVars, Untouched, Goes, Moves
<1>3. CASE Chip \/ Network \/ Lockup
  BY <1>3, ChipRuns DEF Runs
<1>4. CASE UNCHANGED vars
  BY <1>4 DEF vars, romVars
<1> QED BY <1>1, <1>2, <1>3, <1>4 DEF Next

LEMMA PolledNext ==
  ASSUME Types, PolledInv, [Next]_vars
  PROVE  PolledInv'
<1>1. SUFFICES ASSUME es.prompt PROVE Polled'
  BY StepIs DEF PolledInv
<1>2. Polled
  BY <1>1 DEF PolledInv
<1>3. CASE Runs \/ Moves
  <2>1. ChipInv' /\ CmdInv' /\ UpInv' /\ CuInv' /\ GaveUpInv' /\ QuietInv' /\ LaidInv'
    BY <1>1, <1>2, <1>3, ChipKept, CmdKept, UpKept, CuKept, GaveUpKept, QuietKept, LaidKept
  <2>2. RxInv' /\ StartInv' /\ FiledInv' /\ BufInv' /\ DoneInv' /\ ThrowInv' /\ CopyInv'
    BY <1>1, <1>2, <1>3, RxKept, StartKept, FiledKept, BufKept, DoneKept, ThrowKept, CopyKept
  <2> QED BY <2>1, <2>2 DEF Polled
<1>4. CASE UNCHANGED vars
  <2>1. UNCHANGED <<scb, busy, rfds, rbds, cbs, ch, filed, wire, es, th>>
    BY <1>4 DEF vars, portVars, romVars
  <2>2. ChipInv' /\ CmdInv' /\ UpInv' /\ CuInv' /\ GaveUpInv' /\ QuietInv' /\ LaidInv'
    BY <1>2, <2>1 DEF Polled, ChipInv, CmdInv, UpInv, Asleep, CuInv, CuQuiet, Running, DoneBlock, GaveUpInv,
       QuietInv, Quiet, SettingUp, LaidInv, BufLaid, Starts
  <2>3. RxInv' /\ StartInv' /\ FiledInv' /\ BufInv' /\ DoneInv' /\ ThrowInv' /\ CopyInv'
    BY <1>2, <2>1 DEF Polled, RxInv, NoneFiled, Holds, Fits, Ours, StartInv, Starts, FiledInv, BufInv,
       DoneInv, Opened, ThrowInv, NoneFits, SettingUp, CopyInv, Got
  <2> QED BY <2>2, <2>3 DEF Polled
<1> QED BY <1>3, <1>4, StepIs

LEMMA PolledInvariant == Spec => [](Types /\ PolledInv)
BY TypesInit, TypesNext, PolledInit, PolledNext, PTL DEF Spec

\* With a prompt handler a poll hands over each frame it can, once and whole:
\* what is in the buffer is the one frame filed and not handed over, none comes
\* in meanwhile, and the descriptor is rewritten only over one that did not fit.
THEOREM PollIsWhole == Spec => []PolledWhole
<1>1. ASSUME PolledInv PROVE PolledWhole
  <2>1. SUFFICES ASSUME Polled PROVE CopiesOneWhole /\ ThrowsNoneAway
    BY <1>1 DEF PolledInv, PolledWhole
  <2>2. ASSUME th.pc = "poll.copy"
        PROVE  /\ rbds[0].last /\ rbds[0].data.part = 1
               /\ ~ch.deaf => filed # <<>> /\ rbds[0].data.id = Head(filed).id
               /\ ~ch.deaf => rbds[0].data.id > es.handed
               /\ ~(ch.rx \in {"fill", "file"} /\ ch.first = 0)
    <3>1. Got /\ rbds[0].data.part = 1 /\ ch.rx = "none"
      BY <2>1, <2>2 DEF Polled, CopyInv, BufInv, Fits, Got, QuietInv, QuietPcs, Quiet
    <3>2. CASE ~ch.deaf
      <4>1. filed # <<>>
        BY <2>1, <2>2, <3>1, <3>2 DEF Polled, DoneInv, Opened, Got
      <4>2. PICK f : Ours(f) /\ filed = <<f>> /\ Holds(f)
        BY <2>1, <4>1 DEF Polled, FiledInv
      <4>3. rbds[0].data = [id |-> f.id, part |-> 1]
        BY <3>1, <4>2 DEF Holds, Got
      <4>4. Head(filed) = f /\ f.id > es.handed
        BY <4>2 DEF Ours
      <4> QED BY <3>1, <4>1, <4>3, <4>4 DEF Got
    <3> QED BY <3>1, <3>2 DEF Got
  <2>3. ASSUME th.pc = "ru.frame" PROVE \A k \in DOMAIN filed : filed[k].len > 1
    BY <2>1, <2>3 DEF Polled, ThrowInv, NoneFits
  <2> QED BY <2>2, <2>3 DEF CopiesOneWhole, ThrowsNoneAway, At
<1> QED BY <1>1, PolledInvariant, PTL

\* With a prompt handler the receiver's buffers are not touched while it may be
\* using them: between ierustart's look and its start the unit is at rest, and
\* nothing but that start wakes it.
THEOREM PromptBuffersOurs == Spec => [](es.prompt => BuffersOurs)
<1>1. ASSUME PolledInv, es.prompt PROVE BuffersOurs
  BY <1>1 DEF PolledInv, Polled, QuietInv, QuietPcs, Quiet, ChipInv, BuffersOurs, At
<1> QED BY <1>1, PolledInvariant, PTL
-----------------------------------------------------------------------------
\* The wire after a reset, on the two boards that are on board.

Elsewhere == th.pc \notin {"reset", "busy", "reset.conf", "close"}

\* What the driver does to the board's control register.
BoardGoes ==
  \/ Elsewhere /\ (es'.wire => es.wire) /\ (es.held => es'.held)
  \/ th.pc = "reset" /\ ~es'.wire
  \/ th.pc = "busy" /\ (es'.wire => es.wire)
  \/ /\ th.pc = "reset.conf" /\ (es.held => es'.held)
     /\ es'.wire => es.wire \/ th.ok \/ es.kind = "ob"
  \/ th.pc = "close" /\ (es'.wire => es'.held)

\* On board the Sun-2/120 gives no command up.
Succeeds == es.kind = "ob" /\ SettingUp => th'.pc \in SimplePcs \/ th'.ok

LEMMA OnBoardGoes ==
  ASSUME Types, es.kind = "ob", Driver
  PROVE  BoardGoes
<1>1. DOMAIN es = EsFields /\ \A l : Sun2!At(l) = At(l)
  BY SameWords DEF Types, EsOK
<1>2. Sun2!Driver /\ Sun2!OnBoard
  BY DEF Driver, Sun2!OnBoard
<1>3. ASSUME es' = es, Elsewhere PROVE BoardGoes
  BY <1>3 DEF BoardGoes
<1>4. CASE Sun2!iesimple \/ Sun2!ierustart \/ Sun2!iexmit
  <2>1. es' = es /\ Elsewhere
    BY <1>1, <1>4 DEF Sun2!iesimple, Sun2!ClearBlock, Sun2!StartBlock, Sun2!BlockDone, Sun2!AckBlock,
       Sun2!ierustart, Sun2!RuLook, Sun2!RuStop, Sun2!RuBuffers, Sun2!RuFrame,
       Sun2!iexmit, Sun2!XmitStart, Sun2!XmitEnd, At, Elsewhere
  <2> QED BY <1>3, <2>1
<1>5. CASE Sun2!iepoll
  <2>1. Elsewhere
    BY <1>1, <1>5 DEF Sun2!iepoll, Sun2!PollLook, Sun2!PollCopy, Sun2!PollAck, At, Elsewhere
  <2>2. es'.wire = es.wire /\ es'.held = es.held
    BY <1>1, <1>5 DEF Sun2!iepoll, Sun2!PollLook, Sun2!PollCopy, Sun2!PollAck, EsFields
  <2> QED BY <2>1, <2>2 DEF BoardGoes
<1>6. CASE Sun2!Init120 \/ Sun2!ieopen \/ Sun2!ieclose
  BY <1>1, <1>2, <1>6 DEF Sun2!Init120, Sun2!ieopen, Sun2!ieclose, At, EsFields, BoardGoes, Elsewhere
<1>7. CASE Sun2!iereset
  BY <1>1, <1>2, <1>7 DEF Sun2!iereset, Sun2!ResetChips, Sun2!Zap, Sun2!Busy, Sun2!ResetConf,
     Sun2!OnTheWire, At, EsFields, BoardGoes, Elsewhere
<1> QED BY <1>2, <1>4, <1>5, <1>6, <1>7 DEF Sun2!Driver

LEMMA BoardIs ==
  ASSUME Types, es.kind # "mb", Driver
  PROVE  BoardGoes
<1>1. DOMAIN es = EsFields /\ \A l : Sun3!At(l) = At(l)
  BY SameWords DEF Types, EsOK
<1>2. ASSUME es' = es, Elsewhere PROVE BoardGoes
  BY <1>2 DEF BoardGoes
<1>3. CASE es.kind = "ob"
  BY <1>3, OnBoardGoes
<1>4. CASE Sun3!iesimple
  <2>1. Elsewhere
    BY <1>1, <1>4 DEF Sun3!iesimple, Sun3!ClearBlock, Sun3!StartBlock, Sun3!BlockDone, Sun3!AckBlock,
       Sun3!SimpleTimeout, Sun3!XmitTooLate, At, Elsewhere
  <2>2. es'.wire = es.wire /\ es'.held = es.held
    BY <1>1, <1>4 DEF Sun3!iesimple, Sun3!ClearBlock, Sun3!StartBlock, Sun3!BlockDone, Sun3!AckBlock,
       Sun3!SimpleTimeout, Sun3!XmitTooLate, EsFields
  <2> QED BY <2>1, <2>2 DEF BoardGoes
<1>5. CASE Sun3!ierustart \/ Sun3!iexmit \/ Sun3!ieinit
  <2>1. es' = es /\ Elsewhere
    BY <1>1, <1>5 DEF Sun3!ierustart, Sun3!RuLook, Sun3!RuStop, Sun3!RuTimeout, Sun3!RuBuffers,
       Sun3!RuFrame, Sun3!iexmit, Sun3!XmitStart, Sun3!XmitEnd, Sun3!ieinit, At, Elsewhere
  <2> QED BY <1>2, <2>1
<1>6. CASE Sun3!iepoll
  <2>1. Elsewhere
    BY <1>1, <1>6 DEF Sun3!iepoll, Sun3!PollLook, Sun3!PollCopy, Sun3!PollTimeout, Sun3!PollAck,
       At, Elsewhere
  <2>2. es'.wire = es.wire /\ es'.held = es.held
    BY <1>1, <1>6 DEF Sun3!iepoll, Sun3!PollLook, Sun3!PollCopy, Sun3!PollTimeout, Sun3!PollAck, EsFields
  <2> QED BY <2>1, <2>2 DEF BoardGoes
<1>7. CASE Sun3!ieopen \/ Sun3!ieclose
  BY <1>1, <1>7 DEF Sun3!ieopen, Sun3!ieclose, At, EsFields, BoardGoes, Elsewhere
<1>8. CASE Sun3!iereset
  BY <1>1, <1>8 DEF Sun3!iereset, Sun3!ResetChips, Sun3!WireAfterReset, Sun3!Zap, Sun3!Busy, Sun3!Again,
     Sun3!ResetConf, Sun3!OnTheWire, Sun3!ResetEnd, At, EsFields, BoardGoes, Elsewhere
<1>9. es.kind = "ob" \/ Sun3!Driver
  BY DEF Driver
<1> QED BY <1>3, <1>4, <1>5, <1>6, <1>7, <1>8, <1>9 DEF Sun3!Driver

LEMMA SucceedsIs ==
  ASSUME Types, Driver
  PROVE  Succeeds
<1> SUFFICES ASSUME es.kind = "ob", SettingUp PROVE th'.pc \in SimplePcs \/ th'.ok
  BY DEF Succeeds
<1>1. CallOK(th) /\ \A l : Sun2!At(l) = At(l)
  BY SameWords DEF Types
<1>2. DOMAIN th = ThFields
  BY <1>1 DEF CallOK
<1>3. Sun2!iesimple
  BY <1>1 DEF Driver, Sun2!Driver, SettingUp, SimplePcs, At,
     Sun2!ierustart, Sun2!RuLook, Sun2!RuStop, Sun2!RuBuffers, Sun2!RuFrame, Sun2!iexmit, Sun2!XmitStart,
     Sun2!XmitEnd, Sun2!iepoll, Sun2!PollLook, Sun2!PollCopy, Sun2!PollAck, Sun2!Init120, Sun2!ieopen,
     Sun2!ieclose, Sun2!iereset, Sun2!ResetChips, Sun2!Zap, Sun2!Busy, Sun2!ResetConf, Sun2!OnTheWire
<1>4. CASE Sun2!ClearBlock \/ Sun2!StartBlock \/ Sun2!BlockDone
  <2>1. \E l \in SimplePcs : th' = Goto(l)
    BY <1>2, <1>4, GotoIs DEF Sun2!ClearBlock, Sun2!StartBlock, Sun2!BlockDone, SimplePcs
  <2> QED BY <1>1, <2>1, NextPc
<1>5. CASE Sun2!AckBlock
  <2>1. th' = Return(TRUE)
    BY <1>2, <1>5, ReturnIs DEF Sun2!AckBlock
  <2> QED BY <1>1, <2>1, ReturnPc
<1> QED BY <1>3, <1>4, <1>5 DEF Sun2!iesimple

\* A chip that has completed a command since its reset is awake.
BoardInv ==
  /\ es.wire => ch.up \/ es.held
  /\ th.pc \in {"zap", "busy", "reset.iaddr", "reset.conf"} \/ SettingUp => ~es.wire
  /\ ~ch.up => ch.cuStep = "none"
  /\ SettingUp /\ th.pc \in {"simple.start", "simple.done"} /\ DoneBlock => ch.up
  /\ SettingUp /\ th.pc = "simple.ack" => ch.up
  /\ th.pc = "reset.conf" /\ th.ok => ch.up
  /\ th.pc = "reset.conf" /\ es.kind = "ob" => th.ok

OnBoardInv == es.kind # "mb" => BoardInv

LEMMA BoardRuns ==
  ASSUME Types, BoardInv, Runs
  PROVE  BoardInv'
<1> USE DEF SameCore, SameCu
<1>1. th' = th /\ es' = es
  BY DEF Runs
<1>2. ASSUME ch.up => ch'.up, ~ch'.up => ch'.cuStep = "none", cbs' = cbs \/ ch.up
      PROVE  BoardInv'
  BY <1>1, <1>2 DEF BoardInv, SettingUp, DoneBlock
<1>3. CASE Woken \/ Announced \/ Answered \/ Published
  BY <1>2, <1>3 DEF Woken, Announced, Answered, Published, BoardInv
<1>4. CASE Taken \/ Completed \/ Ended
  BY <1>2, <1>4 DEF Taken, Completed, Ended, BoardInv
<1>5. CASE RxMoves \/ Locked
  BY <1>2, <1>5 DEF RxMoves, Locked, BoardInv
<1> QED BY <1>3, <1>4, <1>5 DEF Runs, ChipMoves

\* What MovesIs leaves out: ierustart stops the receiver.
LEMMA AbortIs ==
  ASSUME Types, Step, th.pc = "ru.abort"
  PROVE  /\ ch'.up = ch.up /\ ch'.cuStep = ch.cuStep
         /\ th'.pc \in {"ru", "idle", "opened", "reset.end"}
<1>1. CallOK(th) /\ DOMAIN ch = ChFields
  BY DEF Types, Shapes
<1>2. RuStop \/ RuTimeout
  BY DEF Step, iesimple, ierustart, iexmit, iepoll, iereset, ClearBlock, StartBlock, BlockDone,
     AckBlock, SimpleTimeout, XmitTooLate, RuLook, RuBuffers, RuFrame, XmitStart, XmitEnd,
     PollLook, PollCopy, PollTimeout, PollAck, ieinit, ResetChips, Zap, Busy, Again, ResetConf,
     OnTheWire, ResetEnd, ieopen, ieclose, At
<1>3. CASE RuStop
  <2>1. ch'.up = ch.up /\ ch'.cuStep = ch.cuStep
    BY <1>1, <1>3 DEF RuStop, Asks, Attention, ChFields
  <2>2. th'.pc = "ru"
    BY <1>1, <1>3, NextPc DEF RuStop
  <2> QED BY <2>1, <2>2
<1>4. CASE RuTimeout
  <2>1. ch' = ch /\ th' = Return(FALSE)
    BY <1>4 DEF RuTimeout, portVars
  <2>2. th'.pc \in {"idle", "opened", "reset.end"}
    BY <1>1, <2>1, ReturnPc DEF RuPcs
  <2> QED BY <2>1, <2>2
<1> QED BY <1>2, <1>3, <1>4

LEMMA BoardMoves ==
  ASSUME Types, es.kind # "mb", BoardInv, Moves, BoardGoes, Succeeds, es'.kind = es.kind,
         th.pc = "ru.abort" => /\ ch'.up = ch.up /\ ch'.cuStep = ch.cuStep
                               /\ th'.pc \in {"ru", "idle", "opened", "reset.end"}
  PROVE  BoardInv'
<1> USE DEF SameCu
<1> DEFINE Later == th'.pc \in {"zap", "busy", "reset.iaddr", "reset.conf"} \/ SettingUp'
<1>1. ASSUME ch'.up = ch.up
      PROVE  es'.wire => ch'.up \/ es'.held
  BY <1>1 DEF BoardInv, BoardGoes, Elsewhere
<1>2. CASE th.pc = "ru.abort"
  BY <1>1, <1>2 DEF BoardInv, SettingUp, SimplePcs
<1>3. ASSUME Moves, th.pc # "ru.abort"
      PROVE  Later => \/ th.pc \in {"reset", "zap", "busy", "reset.iaddr"} \/ SettingUp
  BY <1>3 DEF Moves, Goes, ProgramGoes, SimpleGoes, RuGoes, XmitGoes, PollGoes, ResetGoes, OpenGoes,
     Clears, Starting, Acking, Laying, Listening, Handing, Resetting, Zapping, Holding, Backed,
     SettingUp, SimplePcs
<1>4. ASSUME th.pc # "ru.abort" PROVE Later => ~es'.wire
  BY <1>3, <1>4 DEF BoardInv, BoardGoes, Elsewhere, SettingUp, SimplePcs
<1>5. ASSUME th'.pc = "reset.conf", es.kind = "ob", th.pc # "ru.abort" PROVE th'.ok
  BY <1>3, <1>5 DEF Succeeds, SimplePcs, Moves, Goes, ProgramGoes, SimpleGoes, RuGoes, XmitGoes, PollGoes,
     ResetGoes, OpenGoes, Clears, Starting, Acking, Laying, Listening, Handing, Resetting, Zapping,
     Holding, Backed
<1>6. CASE Goes
  <2>1. ch' = ch /\ cbs' = cbs
    BY <1>6 DEF Goes, Untouched
  <2>2. /\ th'.pc \notin {"simple.start", "simple.done"}
        /\ SettingUp' /\ th'.pc = "simple.ack" => SettingUp /\ th.pc = "simple.done" /\ DoneBlock
        /\ th'.pc = "reset.conf" => ~th'.ok
    BY <1>6 DEF Goes, ProgramGoes, SimpleGoes, RuGoes, XmitGoes, PollGoes, ResetGoes, OpenGoes,
       Backed, SettingUp, SimplePcs
  <2>3. th.pc # "ru.abort"
    BY <1>6 DEF Goes, ProgramGoes, SimpleGoes, RuGoes, XmitGoes, PollGoes, ResetGoes, OpenGoes, SimplePcs
  <2> QED BY <1>1, <1>4, <1>5, <2>1, <2>2, <2>3 DEF BoardInv, DoneBlock
<1>7. CASE Clears
  <2>1. Block(th.op) \in 0..2 /\ DOMAIN cbs = 0..2 /\ th'.op = th.op
    BY <1>7 DEF Block, Types, Shapes, Clears
  <2>2. ~DoneBlock'
    BY <1>7, <2>1 DEF Clears, DoneBlock, Fresh
  <2> QED BY <1>1, <1>4, <1>7, <2>2 DEF Clears, BoardInv
<1>8. CASE Starting
  <2>1. ch'.up = ch.up /\ ch'.cuStep = ch.cuStep /\ cbs' = cbs
    BY <1>8 DEF Starting, Asked, Attended
  <2> QED BY <1>1, <1>4, <1>8, <2>1 DEF Starting, BoardInv, DoneBlock, SettingUp, SimplePcs
<1>9. CASE Acking
  <2>1. ch'.up = ch.up /\ ch'.cuStep = ch.cuStep
    BY <1>9 DEF Acking, Asked, Attended
  <2> QED BY <1>1, <1>4, <1>9, <2>1 DEF Acking, BoardInv, SettingUp, SimplePcs
<1>10. CASE Laying \/ Listening \/ Handing \/ Zapping
  <2>1. ch'.up = ch.up /\ ch'.cuStep = ch.cuStep
    BY <1>10 DEF Laying, Listening, Handing, Zapping, Asked, Attended
  <2> QED BY <1>1, <1>4, <1>10, <2>1 DEF Laying, Listening, Handing, Zapping, BoardInv, SettingUp, SimplePcs
<1>11. CASE Resetting \/ Holding
  <2>1. es'.wire => es'.held
    BY <1>11 DEF Resetting, Holding, BoardInv, BoardGoes, Elsewhere
  <2> QED BY <1>4, <1>11, <2>1 DEF Resetting, Holding, Blank, Backed, BoardInv, SettingUp, SimplePcs
<1> QED BY <1>2, <1>6, <1>7, <1>8, <1>9, <1>10, <1>11 DEF Moves

LEMMA BoardNext ==
  ASSUME Types, OnBoardInv, [Next]_vars
  PROVE  OnBoardInv'
<1> USE DEF OnBoardInv
<1>1. CASE Driver
  <2>1. Step /\ es'.kind = es.kind
    BY <1>1, DriverIs, StepShapes DEF Types, Shapes
  <2>2. Moves
    BY <2>1, MovesIs
  <2>3. ASSUME es.kind # "mb" PROVE BoardInv'
    <3>1. BoardGoes /\ Succeeds
      BY <1>1, <2>3, BoardIs, SucceedsIs
    <3> QED BY <2>1, <2>2, <2>3, <3>1, AbortIs, BoardMoves
  <2> QED BY <2>1, <2>3
<1>2. CASE Program
  <2>1. ch' = ch /\ th'.pc \in {"open", "reset", "close", "xmit", "poll"}
    BY <1>2, ProgramIs DEF portVars
  <2>2. es'.kind = es.kind /\ es'.wire = es.wire /\ es'.held = es.held
    BY <1>2, ProgramIs DEF EsFields
  <2> QED BY <2>1, <2>2 DEF BoardInv, SettingUp, SimplePcs
<1>3. CASE Chip \/ Network \/ Lockup
  <2>1. es' = es
    BY <1>3 DEF Chip, Network, Lockup, romVars
  <2>2. Runs
    BY <1>3, ChipRuns
  <2> QED BY <2>1, <2>2, BoardRuns
<1>4. CASE UNCHANGED vars
  BY <1>4 DEF vars, portVars, romVars, BoardInv, SettingUp, DoneBlock
<1> QED BY <1>1, <1>2, <1>3, <1>4 DEF Next

\* On the two boards that are on board a chip that has been reset and has not
\* taken its first attention is off the wire, whatever times out.
THEOREM OnBoardQuietWire == Spec => [](es.kind # "mb" => QuietWire)
<1>1. ASSUME Init PROVE OnBoardInv
  BY <1>1 DEF OnBoardInv, Init, Softc, AtRest, HeldChip, ResetChip, BoardInv, SettingUp, SimplePcs
<1>2. OnBoardInv => (es.kind # "mb" => QuietWire)
  BY DEF OnBoardInv, BoardInv, QuietWire
<1> QED BY <1>1, <1>2, TypesInit, TypesNext, BoardNext, PTL DEF Spec
=============================================================================
