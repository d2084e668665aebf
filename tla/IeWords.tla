------------------------------ MODULE IeWords ------------------------------
(***************************************************************************)
(* The structures the chip and its host share, as four sources describe    *)
(* them: the RTL's package, the test bench's header, NetBSD's and the Sun  *)
(* PROMs'.  A field is the sequence of the bits it occupies, least         *)
(* significant first; bit 8 a + k is bit k of the byte at address a.  The  *)
(* SCP's addresses count from 0xfffff0.                                    *)
(***************************************************************************)
EXTENDS Integers, Sequences, SequencesExt, TLC

\* A field of a little-endian word, by its place and by its mask.
Word(at, lsb, width) == [i \in 1..width |-> 8 * at + lsb + i - 1]
Masked(at, mask) ==
  LET ones == SelectSeq([k \in 1..16 |-> k - 1], LAMBDA k : (mask \div 2^k) % 2 = 1)
  IN  [i \in DOMAIN ones |-> 8 * at + ones[i]]

\* A field of a word the 68000 stores as it is, high byte first.
Short(at, lsb, width) ==
  [i \in 1..width |-> LET k == lsb + i - 1 IN 8 * (at + 1 - k \div 8) + (k % 8)]

\* (Mutant: the bit-fields of a little-endian machine's compiler.)
BitFieldLow(off, width) == [i \in 1..width |-> off + i - 1]

\* A bit-field of the 68000's compiler: the first is the byte's highest bit.
BitField(off, width) ==
  [i \in 1..width |-> LET p == off + width - i IN 8 * (p \div 8) + (7 - (p % 8))]

\* A structure of the Sun header, member by member: the name ("" for what is
\* unused), the bits, and whether the driver swaps it (to_ieoff, to_ieaddr).
B(name, width) == <<name, width, FALSE>>
Swapped(name, width) == <<name, width, TRUE>>
Gap(width) == B("", width)

Declared(decl) ==
  LET off(i) == FoldLeft(LAMBDA sum, m : sum + m[2], 0, SubSeq(decl, 1, i - 1))
      index(n) == CHOOSE i \in DOMAIN decl : decl[i][1] = n
      field(i) == IF decl[i][3] THEN Word(off(i) \div 8, 0, decl[i][2])
                  ELSE BitField(off(i), decl[i][2])
  IN  [n \in {decl[i][1] : i \in DOMAIN decl} \ {""} |-> field(index(n))]

\* The driver splits `n' over two members (ierbd_cntlo, ierbd_cnthi).
Joined(desc, n, lo, hi) ==
  [m \in (DOMAIN desc \ {lo, hi}) \cup {n} |->
     IF m = n THEN desc[lo] \o desc[hi] ELSE desc[m]]
-----------------------------------------------------------------------------
\* src/wish82586_pkg.sv, and the bits of CONFIGURE that wish82586.sv uses.
ChipCb == [c |-> Word(0, 15, 1), b |-> Word(0, 14, 1), ok |-> Word(0, 13, 1),
           a |-> Word(0, 12, 1), el |-> Word(2, 15, 1), s |-> Word(2, 14, 1),
           i |-> Word(2, 13, 1), op |-> Word(2, 0, 3), link |-> Word(4, 0, 16)]
ChipScp == [sysbus |-> Word(6, 0, 8), iscp |-> Word(12, 0, 24)]
ChipIscp == [busy |-> Word(0, 0, 8), scb |-> Word(2, 0, 16), cbbase |-> Word(4, 0, 24)]
ChipScb == [rus |-> Word(0, 4, 3), cus |-> Word(0, 8, 3), rnr |-> Word(0, 12, 1),
            cna |-> Word(0, 13, 1), fr |-> Word(0, 14, 1), cx |-> Word(0, 15, 1),
            ruc |-> Word(2, 4, 3), reset |-> Word(2, 7, 1), cuc |-> Word(2, 8, 3),
            ack_rnr |-> Word(2, 12, 1), ack_cna |-> Word(2, 13, 1),
            ack_fr |-> Word(2, 14, 1), ack_cx |-> Word(2, 15, 1),
            cbl |-> Word(4, 0, 16), rfa |-> Word(6, 0, 16), crcerrs |-> Word(8, 0, 16),
            alnerrs |-> Word(10, 0, 16), rscerrs |-> Word(12, 0, 16),
            ovrnerrs |-> Word(14, 0, 16)]
ChipTcb == ChipCb @@
           [ncol |-> Word(0, 0, 4), xcoll |-> Word(0, 5, 1), heart |-> Word(0, 6, 1),
            defer |-> Word(0, 7, 1), underrun |-> Word(0, 8, 1), no_cts |-> Word(0, 9, 1),
            no_crs |-> Word(0, 10, 1), latecoll |-> Word(0, 11, 1),
            tbd |-> Word(6, 0, 16), dest |-> Word(8, 0, 8), type |-> Word(14, 0, 8)]
ChipTdr == ChipCb @@ [link_ok |-> Word(6, 15, 1)]
ChipConf ==
  ChipCb @@
  [bytes |-> Word(6, 0, 4), save_bad |-> Word(6, 23, 1), al_loc |-> Word(6, 27, 1),
   int_lb |-> Word(6, 30, 1), ifs |-> Word(6, 40, 8), slot |-> Word(6, 48, 11),
   retry |-> Word(6, 60, 4), promisc |-> Word(6, 64, 1), no_bcast |-> Word(6, 65, 1),
   no_crc |-> Word(6, 68, 1), min_len |-> Word(6, 80, 8)]
ChipRfd == [no_eof |-> Word(0, 6, 1), short |-> Word(0, 7, 1), overrun |-> Word(0, 8, 1),
            no_space |-> Word(0, 9, 1), align |-> Word(0, 10, 1), crc |-> Word(0, 11, 1),
            ok |-> Word(0, 13, 1), b |-> Word(0, 14, 1), c |-> Word(0, 15, 1),
            el |-> Word(2, 15, 1), s |-> Word(2, 14, 1), link |-> Word(4, 0, 16),
            rbd |-> Word(6, 0, 16), dest |-> Word(8, 0, 8), src |-> Word(14, 0, 8),
            type |-> Word(20, 0, 8)]
ChipRbd == [count |-> Word(0, 0, 14), f |-> Word(0, 14, 1), eof |-> Word(0, 15, 1),
            next |-> Word(2, 0, 16), buf |-> Word(4, 0, 24), size |-> Word(8, 0, 14),
            el |-> Word(8, 15, 1)]
ChipTbd == [count |-> Word(0, 0, 14), eof |-> Word(0, 15, 1), next |-> Word(2, 0, 16),
            buf |-> Word(4, 0, 24)]
Chip == [scp |-> ChipScp, iscp |-> ChipIscp, scb |-> ChipScb, cb |-> ChipCb,
         tcb |-> ChipTcb, tdr |-> ChipTdr, conf |-> ChipConf, rfd |-> ChipRfd,
         rbd |-> ChipRbd, tbd |-> ChipTbd]

\* tb/cpp/i82586.h's bits, where MemImage (i82586.cpp) reads and writes them.
BenchScp == [sysbus |-> Word(6 + 0, 0, 8), iscp |-> Word(6 + 6, 0, 24)]
BenchIscp == [busy |-> Word(0, 0, 8), scb |-> Word(2, 0, 16), cbbase |-> Word(4, 0, 24)]
BenchScbBits ==
  [rnr |-> Masked(0, 2^12), cna |-> Masked(0, 2^13), fr |-> Masked(0, 2^14),
   cx |-> Masked(0, 2^15), ack_rnr |-> Masked(2, 2^12), ack_cna |-> Masked(2, 2^13),
   ack_fr |-> Masked(2, 2^14), ack_cx |-> Masked(2, 2^15), reset |-> Masked(2, 2^7),
   cuc |-> Word(2, 8, 3), ruc |-> Word(2, 4, 3)]
BenchScbWords ==
  [cbl |-> Word(4, 0, 16), rfa |-> Word(6, 0, 16), crcerrs |-> Word(8, 0, 16),
   alnerrs |-> Word(10, 0, 16), rscerrs |-> Word(12, 0, 16), ovrnerrs |-> Word(14, 0, 16),
   cus |-> Word(0, 8, 3), rus |-> Word(0, 4, 3)]
BenchCb ==
  [a |-> Masked(0, 2^12), ok |-> Masked(0, 2^13), b |-> Masked(0, 2^14),
   c |-> Masked(0, 2^15), i |-> Masked(2, 2^13), s |-> Masked(2, 2^14),
   el |-> Masked(2, 2^15), op |-> Word(2, 0, 3), link |-> Word(4, 0, 16)]
BenchTxStatus ==
  [ncol |-> Masked(0, \h000f), xcoll |-> Masked(0, 2^5), heart |-> Masked(0, 2^6),
   defer |-> Masked(0, 2^7), underrun |-> Masked(0, 2^8), no_cts |-> Masked(0, 2^9),
   no_crs |-> Masked(0, 2^10), latecoll |-> Masked(0, 2^11)]
BenchTxWords == [tbd |-> Word(6, 0, 16), dest |-> Word(8, 0, 8), type |-> Word(14, 0, 8)]
BenchTbd == [count |-> Masked(0, \h3fff), eof |-> Masked(0, 2^15), next |-> Word(2, 0, 16),
             buf |-> Word(4, 0, 24)]
BenchRfdStatus ==
  [short |-> Masked(0, 2^7), no_eof |-> Masked(0, 2^6), overrun |-> Masked(0, 2^8),
   no_space |-> Masked(0, 2^9), align |-> Masked(0, 2^10), crc |-> Masked(0, 2^11),
   ok |-> Masked(0, 2^13), b |-> Masked(0, 2^14), c |-> Masked(0, 2^15),
   s |-> Masked(2, 2^14), el |-> Masked(2, 2^15)]
BenchRfdWords == [link |-> Word(4, 0, 16), rbd |-> Word(6, 0, 16), dest |-> Word(8, 0, 8),
                  src |-> Word(14, 0, 8), type |-> Word(20, 0, 8)]
BenchRbd == [count |-> Masked(0, \h3fff), f |-> Masked(0, 2^14), eof |-> Masked(0, 2^15),
             next |-> Word(2, 0, 16), buf |-> Word(4, 0, 24), size |-> Masked(8, \h3fff),
             el |-> Masked(8, 2^15)]
BenchConf ==
  [bytes |-> Word(6, 0, 4), fifo |-> Word(7, 0, 4), save_bad |-> Word(8, 7, 1),
   srdy |-> Word(8, 6, 1), ext_lb |-> Word(9, 7, 1), int_lb |-> Word(9, 6, 1),
   preamble |-> Word(9, 4, 2), al_loc |-> Word(9, 3, 1), addr_len |-> Word(9, 0, 3),
   linear |-> Word(10, 7, 1), exp_prio |-> Word(10, 4, 3), lin_prio |-> Word(10, 0, 3),
   ifs |-> Word(11, 0, 8), slot |-> Word(12, 0, 8) \o Word(13, 0, 3),
   retry |-> Word(13, 4, 4), pad |-> Word(14, 7, 1), hdlc |-> Word(14, 6, 1),
   crc16 |-> Word(14, 5, 1), no_crc |-> Word(14, 4, 1), no_carrier |-> Word(14, 3, 1),
   manchester |-> Word(14, 2, 1), no_bcast |-> Word(14, 1, 1), promisc |-> Word(14, 0, 1),
   cdt_src |-> Word(15, 7, 1), cdt_filter |-> Word(15, 4, 3), crs_src |-> Word(15, 3, 1),
   crs_filter |-> Word(15, 0, 3), min_len |-> Word(16, 0, 8)]
Bench == [scp |-> BenchScp, iscp |-> BenchIscp, scb |-> BenchScbBits @@ BenchScbWords,
          cb |-> BenchCb, tcb |-> BenchCb @@ BenchTxStatus @@ BenchTxWords,
          tdr |-> BenchCb, conf |-> BenchCb @@ BenchConf,
          rfd |-> BenchRfdStatus @@ BenchRfdWords, rbd |-> BenchRbd, tbd |-> BenchTbd]
-----------------------------------------------------------------------------
\* doc/drivers/NetBSD/i82586reg.h: masks, little-endian whatever the host.
RegCb == [c |-> Masked(0, \h8000), b |-> Masked(0, \h4000), ok |-> Masked(0, \h2000),
          a |-> Masked(0, \h1000), el |-> Masked(2, \h8000), s |-> Masked(2, \h4000),
          i |-> Masked(2, \h2000), link |-> Masked(4, \hffff)]
RegScp == [sysbus |-> Word(4 + 2, 0, 8), iscp |-> Word(4 + 8, 0, 24)]
RegIscp == [busy |-> Word(0, 0, 8), scb |-> Masked(2, \hffff), cbbase |-> Word(4, 0, 24)]
RegScb == [cx |-> Masked(0, \h8000), fr |-> Masked(0, \h4000), cna |-> Masked(0, \h2000),
           rnr |-> Masked(0, \h1000), cus |-> Masked(0, \h0700), rus |-> Masked(0, \h0070),
           ack_cx |-> Masked(2, \h8000), ack_fr |-> Masked(2, \h4000),
           ack_cna |-> Masked(2, \h2000), ack_rnr |-> Masked(2, \h1000),
           cuc |-> Masked(2, \h0700), ruc |-> Masked(2, \h0070),
           cbl |-> Masked(4, \hffff), rfa |-> Masked(6, \hffff),
           crcerrs |-> Masked(8, \hffff), alnerrs |-> Masked(10, \hffff),
           rscerrs |-> Masked(12, \hffff), ovrnerrs |-> Masked(14, \hffff)]
RegTcb == RegCb @@
          [ncol |-> Masked(0, \h000f), xcoll |-> Masked(0, \h0020),
           heart |-> Masked(0, \h0040), defer |-> Masked(0, \h0080),
           underrun |-> Masked(0, \h0100), no_cts |-> Masked(0, \h0200),
           no_crs |-> Masked(0, \h0400), latecoll |-> Masked(0, \h0800),
           tbd |-> Masked(6 + 0, \hffff), dest |-> Masked(6 + 2, \hff),
           type |-> Masked(6 + 8, \hff)]
RegTdr == RegCb @@
          [link_ok |-> Masked(6, \h8000), xcvr |-> Masked(6, \h4000),
           open |-> Masked(6, \h2000), shrt |-> Masked(6, \h1000),
           time |-> Masked(6, \h07ff)]
RegConf == RegCb @@
           [ifs |-> Masked(6 + 5, \hff), min_len |-> Masked(6 + 10, \hff),
            promisc |-> Masked(6 + 8, 1), manchester |-> Masked(6 + 8, 4)]
RegRfd == [c |-> Masked(0, \h8000), b |-> Masked(0, \h4000), ok |-> Masked(0, \h2000),
           crc |-> Masked(0, \h0800), align |-> Masked(0, \h0400),
           no_space |-> Masked(0, \h0200), overrun |-> Masked(0, \h0100),
           short |-> Masked(0, \h0080), no_eof |-> Masked(0, \h0040),
           el |-> Masked(2, \h8000), s |-> Masked(2, \h4000), link |-> Masked(4, \hffff),
           rbd |-> Masked(6, \hffff), dest |-> Masked(8, \hff), src |-> Masked(14, \hff),
           type |-> Masked(20, \hff)]
RegRbd == [eof |-> Masked(0, \h8000), f |-> Masked(0, \h4000), count |-> Masked(0, \h3fff),
           next |-> Masked(2, \hffff), buf |-> Word(4, 0, 24), el |-> Masked(8, \h8000)]
RegTbd == [eof |-> Masked(0, \h8000), count |-> Masked(0, \h3fff),
           next |-> Masked(2, \hffff), buf |-> Word(4, 0, 24)]
Reg == [scp |-> RegScp, iscp |-> RegIscp, scb |-> RegScb, cb |-> RegCb,
        tcb |-> RegTcb, tdr |-> RegTdr, conf |-> RegConf, rfd |-> RegRfd,
        rbd |-> RegRbd, tbd |-> RegTbd]
-----------------------------------------------------------------------------
\* doc/drivers/Sun*_ROM/if_iereg.h: bit-fields, words the driver swaps, and a
\* command word it does not.
SunCbStatus == <<B("c", 1), B("b", 1), B("ok", 1), B("a", 1)>>
SunCbCmd == <<Gap(5), B("op", 3), B("el", 1), B("s", 1), B("i", 1), Gap(5),
              Swapped("link", 16)>>
SunCb == <<Gap(8)>> \o SunCbStatus \o <<Gap(4)>> \o SunCbCmd
SunConfBytes ==
  <<Gap(4), B("bytes", 4), Gap(4), B("fifo", 4), B("save_bad", 1), B("srdy", 1), Gap(6),
    B("ext_lb", 1), B("int_lb", 1), B("preamble", 2), B("al_loc", 1), B("addr_len", 3),
    B("linear", 1), B("exp_prio", 3), Gap(1), B("lin_prio", 3), B("ifs", 8),
    B("slotl", 8), B("retry", 4), Gap(1), B("sloth", 3), B("pad", 1), B("hdlc", 1),
    B("crc16", 1), B("no_crc", 1), B("no_carrier", 1), B("manchester", 1),
    B("no_bcast", 1), B("promisc", 1), B("cdt_src", 1), B("cdt_filter", 3),
    B("crs_src", 1), B("crs_filter", 3), B("min_len", 8), Gap(8)>>
SunScp == Declared(<<Gap(8 * 6), B("sysbus", 8), Gap(40), Swapped("iscp", 24)>>)
SunIscp == Declared(<<B("busy", 8), Gap(8), Swapped("scb", 16), Swapped("cbbase", 24)>>)
SunScb == Declared(<<Gap(1), B("rus", 3), Gap(4), B("cx", 1), B("fr", 1), B("cna", 1),
                     B("rnr", 1), Gap(1), B("cus", 3), Gap(16), Swapped("cbl", 16),
                     Swapped("rfa", 16), Swapped("crcerrs", 16), Swapped("alnerrs", 16),
                     Swapped("rscerrs", 16), Swapped("ovrnerrs", 16)>>) @@
          [reset |-> Short(2, 15, 1), ruc |-> Short(2, 12, 3), ack_cx |-> Short(2, 7, 1),
           ack_fr |-> Short(2, 6, 1), ack_cna |-> Short(2, 5, 1),
           ack_rnr |-> Short(2, 4, 1), cuc |-> Short(2, 0, 3)]
SunTcb == Declared(<<B("defer", 1), B("heart", 1), B("xcoll", 1), Gap(1), B("ncol", 4)>>
                   \o SunCbStatus \o
                   <<Gap(1), B("no_crs", 1), B("no_cts", 1), B("underrun", 1)>>
                   \o SunCbCmd \o
                   <<Swapped("tbd", 16), B("dest", 8), Gap(40), B("type", 8), Gap(8)>>)
SunTdr == Joined(Declared(SunCb \o <<B("timlo", 8), B("link_ok", 1), B("xcvr", 1),
                                     B("open", 1), B("shrt", 1), Gap(1), B("timhi", 3)>>),
                 "time", "timlo", "timhi")
SunConf == Joined(Declared(SunCb \o SunConfBytes), "slot", "slotl", "sloth")
SunRfd == Declared(<<B("short", 1), B("no_eof", 1), Gap(6), B("c", 1), B("b", 1),
                     B("ok", 1), Gap(1), B("crc", 1), B("align", 1), B("no_space", 1),
                     B("overrun", 1), Gap(8), B("el", 1), B("s", 1), Gap(6),
                     Swapped("link", 16), Swapped("rbd", 16), B("dest", 8), Gap(40),
                     B("src", 8), Gap(40), B("type", 8), Gap(8)>>)
SunRbd == Joined(Joined(Declared(<<B("cntlo", 8), B("eof", 1), B("f", 1), B("cnthi", 6),
                                   Swapped("next", 16), Swapped("buf", 24), Gap(8),
                                   B("sizelo", 8), B("el", 1), Gap(1), B("sizehi", 6)>>),
                        "count", "cntlo", "cnthi"), "size", "sizelo", "sizehi")
SunTbd == Joined(Declared(<<B("cntlo", 8), B("eof", 1), Gap(1), B("cnthi", 6),
                            Swapped("next", 16), Swapped("buf", 24), Gap(8)>>),
                 "count", "cntlo", "cnthi")
Sun == [scp |-> SunScp, iscp |-> SunIscp, scb |-> SunScb, cb |-> Declared(SunCb),
        tcb |-> SunTcb, tdr |-> SunTdr, conf |-> SunConf, rfd |-> SunRfd,
        rbd |-> SunRbd, tbd |-> SunTbd]
=============================================================================
