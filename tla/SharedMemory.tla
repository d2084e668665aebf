---------------------------- MODULE SharedMemory ----------------------------
(***************************************************************************)
(* What one end puts into the shared memory the other takes out.  Either   *)
(* the memory holds one of the structures, and any party writes a field of *)
(* it, or its whole CONFIGURE block, by its own description; or it holds a *)
(* frame, which the host copies out, and back in, in whatever pieces its   *)
(* mbufs and buffers cut it into.                                          *)
(***************************************************************************)
EXTENDS IeWords

CONSTANTS
  SizeMod,    \* a size_t wraps here
  Structs,    \* the structures looked at
  MaxWrites,  \* writes of fields
  FrameLen, Space,
  MinPiece    \* the shortest mbuf of a chain

ASSUME SharedAssumption ==
  /\ SizeMod \in Nat \ {0}
  /\ Structs \subseteq DOMAIN Chip /\ MaxWrites \in Nat /\ MinPiece \in {0, 1}
  /\ FrameLen \in Nat /\ Space \in Nat /\ Space > FrameLen + 2 /\ FrameLen < SizeMod

VARIABLES
  struct, bits, meant, writes,  \* a structure: its ones, what each field was given
  glue, board, sent,            \* a frame: its host's copy routines, copied out,
  host, taken                   \* and back in

vars == <<struct, bits, meant, writes, glue, board, sent, host, taken>>

-----------------------------------------------------------------------------
\* How a host moves bytes to and from memory it must read and write two at a
\* time: the ISA cards' copyin and copyout, and the Sun-3 VME board's wmemcpy and
\* wmemset.  A memory is a function from addresses to bytes; what lies past its
\* end is lost.
Byte(m, a) == IF a \in DOMAIN m THEN m[a] ELSE 0
Put(m, a, b) == IF a \in DOMAIN m THEN [m EXCEPT ![a] = b] ELSE m

\* Sixteen-bit accesses from s to d, each moving two bytes.
Words(dst, d, src, s, words) ==
  LET m[i \in 0..words] ==
        IF i = 0 THEN dst
        ELSE Put(Put(m[i - 1], d + 2 * i - 2, Byte(src, s + 2 * i - 2)),
                 d + 2 * i - 1, Byte(src, s + 2 * i - 1))
  IN  m[words]

\* A byte first if the board's address is odd, a byte last if one is left.
\* (Mutant: the address decides for the last byte too.)
DribbledOdd(dst, d, src, s, size, at) ==
  LET odd == at % 2
      n == (size - odd) % SizeMod
      first == IF odd = 1 THEN Put(dst, d, Byte(src, s)) ELSE dst
      middle == Words(first, d + odd, src, s + odd, n \div 2)
  IN  IF odd = 1
      THEN Put(middle, d + odd + n - 1, Byte(src, s + odd + n - 1)) ELSE middle

Dribbled(dst, d, src, s, size, at) ==
  LET odd == at % 2
      n == (size - odd) % SizeMod
      first == IF odd = 1 THEN Put(dst, d, Byte(src, s)) ELSE dst
      middle == Words(first, d + odd, src, s + odd, n \div 2)
  IN  IF n % 2 = 1
      THEN Put(middle, d + odd + n - 1, Byte(src, s + odd + n - 1)) ELSE middle

copyout(mem, offset, src, s, size) == Dribbled(mem, offset, src, s, size, offset)
copyin(dst, d, mem, offset, size) == Dribbled(dst, d, mem, offset, size, offset)

\* One 68000 word, stored at once or, at an odd address, a byte at a time.
StoreWord(m, a, w) == Put(Put(m, a + 1, w % 256), a, w \div 256)

\* The words w[1], w[2]... one after the other from a.
StoreWords(dst, a, w, words) ==
  LET m[i \in 0..words] ==
        IF i = 0 THEN dst ELSE StoreWord(m[i - 1], a + 2 * i - 2, w[i])
  IN  m[words]

wmemcpy(dst, d, src, s, l) ==
  IF l = 0 THEN dst ELSE
  LET odd == s % 2
      n == l - odd
      first == IF odd = 1 THEN Put(dst, d, Byte(src, s)) ELSE dst
      word == [i \in 1..(n \div 2) |-> 256 * Byte(src, s + odd + 2 * i - 2)
                                       + Byte(src, s + odd + 2 * i - 1)]
      middle == StoreWords(first, d + odd, word, n \div 2)
  IN  IF n % 2 = 1
      THEN Put(middle, d + odd + n - 1, Byte(src, s + odd + n - 1)) ELSE middle

\* The words in the middle take the value as it is, not the byte twice.
wmemset(dst, d, val, l) ==
  IF l = 0 THEN dst ELSE
  LET front == d % 2
      back == IF d + front # d + l /\ (d + l) % 2 = 1 THEN 1 ELSE 0
      first == IF front = 1 THEN Put(dst, d, val % 256) ELSE dst
      last == IF back = 1 THEN Put(first, d + l - 1, val % 256) ELSE first
      words == (l - front - back) \div 2
  IN  StoreWords(last, d + front, [i \in 1..words |-> val], words)
-----------------------------------------------------------------------------

Descriptions == {Chip, Bench, Reg, Sun}
Fields(st) == UNION {DOMAIN d[st] : d \in Descriptions}

Loaded(f) == FoldLeft(LAMBDA v, i : v + IF f[i] \in bits THEN 2^(i - 1) ELSE 0,
                      0, [i \in DOMAIN f |-> i])
Stored(f, v) == (bits \ ToSet(f)) \cup {f[i] : i \in {i \in DOMAIN f : (v \div 2^(i - 1)) % 2 = 1}}

\* Values that tell a field's bits apart.
Samples(f) == LET w == Len(f) IN {0, 1, 2^(w - 1), 2^w - 1, (2^w) \div 3}

Write ==
  /\ struct # "frame" /\ writes < MaxWrites /\ writes' = writes + 1
  /\ \E d \in Descriptions : \E n \in DOMAIN d[struct] : \E v \in Samples(d[struct][n]) :
       /\ bits' = Stored(d[struct][n], v)
       /\ meant' = [meant EXCEPT ![n] = v]
  /\ UNCHANGED <<struct, glue, board, sent, host, taken>>

\* What every driver configures: AL-LOC set, eight bytes of preamble, the
\* standard's gaps, slots and lengths.
Standard ==
  [bytes |-> 12, fifo |-> 8, preamble |-> 2, addr_len |-> 6, al_loc |-> 1, ifs |-> 96,
   slot |-> 512, min_len |-> 64, retry |-> 15]

\* A driver that assigns fields to a block it has cleared.
FieldBlock(d) == UNION {{d.conf[n][i] : i \in {i \in DOMAIN d.conf[n] :
                                               (Standard[n] \div 2^(i - 1)) % 2 = 1}} :
                        n \in DOMAIN Standard}

\* ie_cfg_setup's twelve bytes, for one promiscuous or not, Manchester or not.
ie_cfg_setup(promiscuous, manchester) ==
  LET block == <<12, 8, 64, 46, 0, 96, 0, 242, promiscuous + 4 * manchester, 0, 64, 255>>
  IN  {8 * (6 + p[1] - 1) + p[2] :
         p \in {p \in (1..12) \X (0..7) : (block[p[1]] \div 2^p[2]) % 2 = 1}}

WithSettings(s) == [n \in DOMAIN meant |-> IF n \in DOMAIN s THEN s[n] ELSE 0]

Configure ==
  /\ struct = "conf" /\ writes = 0 /\ writes' = 1
  /\ \/ /\ \E d \in {Sun, Bench} : bits' = FieldBlock(d)
        /\ meant' = WithSettings(Standard)
     \/ \E p, m \in {0, 1} :
          /\ bits' = ie_cfg_setup(p, m)
          /\ meant' = WithSettings([srdy |-> 1, promisc |-> p, manchester |-> m] @@ Standard)
  /\ UNCHANGED <<struct, glue, board, sent, host, taken>>
-----------------------------------------------------------------------------
\* The frame, and memories that nothing has been copied to.
Octet(i) == IF glue.how = "clear" THEN 0 ELSE 40 + (i % 150)
Unwritten(a) == 200 + (a % 50)
Clean == [a \in 0..(Space - 1) |-> Unwritten(a)]
Mbufs == [a \in 0..(Space - 1) |->
            IF a - glue.host \in 0..(FrameLen - 1) THEN Octet(a - glue.host) ELSE 7]

CopyOut ==
  /\ struct = "frame" /\ sent < FrameLen /\ taken = 0
  /\ \E size \in MinPiece..(FrameLen - sent) :
       /\ board' = CASE glue.how = "isa" ->
                          copyout(board, glue.at + sent, Mbufs, glue.host + sent, size)
                     [] glue.how = "vme" ->
                          wmemcpy(board, glue.at + sent, Mbufs, glue.host + sent, size)
                     [] glue.how = "clear" -> wmemset(board, glue.at + sent, 0, size)
       /\ sent' = sent + size
  /\ UNCHANGED <<struct, bits, meant, writes, glue, host, taken>>

CopyIn ==
  /\ struct = "frame" /\ glue.how # "clear" /\ sent = FrameLen /\ taken < FrameLen
  /\ \E size \in 1..(FrameLen - taken) :
       /\ host' = IF glue.how = "isa"
                  THEN copyin(host, glue.host + taken, board, glue.at + taken, size)
                  ELSE wmemcpy(host, glue.host + taken, board, glue.at + taken, size)
       /\ taken' = taken + size
  /\ UNCHANGED <<struct, bits, meant, writes, glue, board, sent>>
-----------------------------------------------------------------------------
Init ==
  /\ struct \in Structs \cup {"frame"} /\ bits = {} /\ writes = 0
  /\ meant = [n \in (IF struct = "frame" THEN {} ELSE Fields(struct)) |-> 0]
  /\ glue \in [how : {"isa", "vme", "clear"}, at : {0, 1}, host : {0, 1}]
  /\ struct # "frame" => glue = [how |-> "isa", at |-> 0, host |-> 0]
  /\ board = Clean /\ sent = 0 /\ host = Clean /\ taken = 0

Next == Write \/ Configure \/ CopyOut \/ CopyIn
Spec == Init /\ [][Next]_vars
-----------------------------------------------------------------------------
\* Whoever wrote a field, and by whichever description, every other reads what
\* was meant, in that field and in all the others: "Undo the swap and the two
\* agree exactly, on every field" (doc/drivers/NetBSD/README.md), and the test
\* bench and the RTL with them.
Understood ==
  struct # "frame" =>
    \A d \in Descriptions : \A n \in DOMAIN d[struct] : Loaded(d[struct][n]) = meant[n]

\* However a frame is cut up on the way, it arrives whole and in its place on
\* the board, and again in the host, with no byte beside it touched (ef_copyout,
\* ef_copyin, wmemcpy, wmemset).
CopyExact ==
  struct = "frame" =>
    /\ board = [a \in 0..(Space - 1) |->
                  IF a - glue.at \in 0..(sent - 1) THEN Octet(a - glue.at) ELSE Unwritten(a)]
    /\ host = [a \in 0..(Space - 1) |->
                 IF a - glue.host \in 0..(taken - 1) THEN Octet(a - glue.host) ELSE Unwritten(a)]
=============================================================================
