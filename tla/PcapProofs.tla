----------------------------- MODULE PcapProofs -----------------------------
(***************************************************************************)
(* What holds of the way from a pcap to a pcap, for all pcaps and whatever *)
(* the constants are: import keeps the times of packets that lie in one    *)
(* second, all packets come out again, and so do their times.              *)
(*                                                                         *)
(* The argument: the rounding error is what the gaps written are ahead of  *)
(* the pcap (RoundInv); the trace says of each packet what the pcap says,  *)
(* and of each gap the cycles between two of them (TraceInv); a record of  *)
(* the memory begins where the one before ends (Layout); so the export     *)
(* program, which finds its way by the lengths it reads, is always at the  *)
(* beginning of a record or at the padding, and the time that it has added *)
(* up is that of the trace less the fractions cut off (ExportInv).         *)
(***************************************************************************)
EXTENDS PcapPath, SequenceTheorems, TLAPS

(* The rounding error is below two cycles, and it is exactly what the gaps *)
(* written are ahead of the pcap.                                          *)
RoundInv ==
  InOneSecond(pcap) =>
    /\ n_pkts \in 0 .. Len(pcap)
    /\ err \in 0 .. 63
    /\ cycles \in Nat
    /\ n_pkts = 0 => err = 0 /\ cycles = 0
    /\ n_pkts > 0 => err = 32 * cycles - 5 * (Ns(pcap[n_pkts]) - Ns(pcap[1]))

PcapInv == pcap \in Pcaps /\ RoundInv

(* Up and down to the next whole cycle: what an error in 0 .. 63 becomes.  *)
LEMMA ErrorStaysSmall ==
  ASSUME NEW x \in Nat, err \in 0 .. 63
  PROVE  /\ Rounded(x) \in Nat
         /\ err + 32 * Rounded(x) - x \in 0 .. 63
<1>1. /\ Up32(x) \in Nat
      /\ 32 * Up32(x) - x \in 0 .. 31
  BY DEF Up32
<1>2. /\ Down32(x) \in Nat
      /\ x - 32 * Down32(x) \in 0 .. 31
  BY DEF Down32
<1>3. CASE err < 32
  BY <1>1, <1>3 DEF Rounded
<1>4. CASE ~(err < 32)
  BY <1>2, <1>4 DEF Rounded
<1>5. QED
  BY <1>3, <1>4

(* Within a second timersub gives the difference.                          *)
LEMMA DifferenceInOneSecond ==
  ASSUME NEW f \in Seq(PcapPacket), InOneSecond(f),
         NEW i \in 1 .. Len(f), NEW j \in 1 .. Len(f), i <= j
  PROVE  /\ Ns(f[i]) \in Nat /\ Ns(f[j]) \in Nat
         /\ Ns(TimerSub(f[j], f[i])) = Ns(f[j]) - Ns(f[i])
         /\ Ns(f[j]) >= Ns(f[i])
<1>1. f[i] \in PcapPacket /\ f[j] \in PcapPacket
  OBVIOUS
<1>2. f[i].sec = f[j].sec /\ f[i].nsec <= f[j].nsec
  BY DEF InOneSecond
<1>3. /\ f[i].sec \in Nat /\ f[i].nsec \in Nat
      /\ f[j].sec \in Nat /\ f[j].nsec \in Nat
  BY <1>1 DEF PcapPacket
<1>4. SecNs \in Nat
  BY ImportAssumption
<1>5. f[i].sec * SecNs \in Nat
  BY <1>3, <1>4
<1>6. TimerSub(f[j], f[i]) = [sec |-> 0, nsec |-> f[j].nsec - f[i].nsec]
  BY <1>2, <1>3 DEF TimerSub
<1>7. Ns(TimerSub(f[j], f[i])) = f[j].nsec - f[i].nsec
  BY <1>2, <1>3, <1>4, <1>6 DEF Ns
<1>8. /\ Ns(f[i]) = f[i].sec * SecNs + f[i].nsec
      /\ Ns(f[j]) = f[i].sec * SecNs + f[j].nsec
  BY <1>2 DEF Ns
<1> DEFINE m == f[i].sec * SecNs
           x == f[i].nsec
           y == f[j].nsec
<1>9. /\ m \in Nat /\ x \in Nat /\ y \in Nat /\ x <= y
      /\ Ns(f[i]) = m + x /\ Ns(f[j]) = m + y
  BY <1>2, <1>3, <1>5, <1>8
<1>10. Ns(TimerSub(f[j], f[i])) = y - x
  BY <1>7
<1> HIDE DEF m, x, y
<1>11. QED
  BY <1>9, <1>10

(* The bookkeeping of one gap, and what it says of the times.              *)
LEMMA GapAdds ==
  ASSUME NEW e \in Int, NEW c \in Int, NEW r \in Int,
         NEW first \in Int, NEW last \in Int, NEW next \in Int,
         e = 32 * c - 5 * (last - first)
  PROVE  e + 32 * r - 5 * (next - last) = 32 * (c + r) - 5 * (next - first)
OBVIOUS

LEMMA SmallErrorIsSmallDelay ==
  ASSUME NEW c \in Int, NEW first \in Int, NEW last \in Int,
         NEW e \in 0 .. 63, e = 32 * c - 5 * (last - first)
  PROVE  32 * c >= 5 * (last - first) /\ 32 * c < 5 * (last - first) + 64
OBVIOUS

LEMMA InitRounds == Init => PcapInv
<1> SUFFICES ASSUME Init PROVE PcapInv
  OBVIOUS
<1>1. pcap \in Pcaps /\ n_pkts = 0 /\ err = 0 /\ cycles = 0
  BY DEF Init, ImportInit
<1>2. pcap \in Seq(PcapPacket)
  BY <1>1, PcapsAssumption
<1>3. Len(pcap) \in Nat
  BY <1>2
<1>4. QED
  BY <1>1, <1>3 DEF PcapInv, RoundInv

(* The packet that the callback handles next adds its rounding error.      *)
LEMMA HandleRounds ==
  ASSUME PcapInv, HandlePacket
  PROVE  PcapInv'
<1>1. pcap' = pcap /\ pcap \in Pcaps /\ pcap \in Seq(PcapPacket)
  BY PcapsAssumption DEF PcapInv, HandlePacket
<1>2. SUFFICES ASSUME InOneSecond(pcap)
               PROVE  RoundInv'
  BY <1>1 DEF PcapInv, RoundInv
<1>3. /\ n_pkts \in 0 .. Len(pcap) /\ n_pkts < Len(pcap)
      /\ err \in 0 .. 63 /\ cycles \in Nat /\ n_pkts' = n_pkts + 1
  BY <1>2 DEF PcapInv, RoundInv, HandlePacket
<1>4. n_pkts' \in 1 .. Len(pcap)
  BY <1>1, <1>3
<1>5. CASE n_pkts = 0
  <2>1. err = 0 /\ cycles = 0 /\ err' = 0 /\ cycles' = 0 /\ n_pkts' = 1
    BY <1>2, <1>3, <1>5 DEF PcapInv, RoundInv, HandlePacket
  <2>2. Ns(pcap[1]) \in Nat
    BY <1>1, <1>2, <1>4, <2>1, DifferenceInOneSecond
  <2>3. QED
    BY <1>1, <1>4, <2>1, <2>2 DEF RoundInv, Ns
<1>6. CASE n_pkts > 0
  <2> DEFINE p == pcap[n_pkts]
             q == pcap[n_pkts + 1]
             x == Gap32(q, p)
  <2>1. /\ n_pkts \in 1 .. Len(pcap) /\ n_pkts + 1 \in 1 .. Len(pcap)
        /\ 1 \in 1 .. Len(pcap) /\ n_pkts <= n_pkts + 1
    BY <1>1, <1>3, <1>6
  <2>2. /\ Ns(p) \in Nat /\ Ns(q) \in Nat
        /\ Ns(TimerSub(q, p)) = Ns(q) - Ns(p) /\ Ns(q) >= Ns(p)
    BY <1>1, <1>2, <2>1, DifferenceInOneSecond
  <2>3. Ns(pcap[1]) \in Nat
    BY <1>1, <1>2, <2>1, DifferenceInOneSecond
  <2>4. x \in Nat /\ x = 5 * (Ns(q) - Ns(p))
    BY <2>2 DEF Gap32
  <2>5. /\ err' = err + 32 * Rounded(x) - x
        /\ cycles' = cycles + Rounded(x)
    BY <1>6, <2>4 DEF HandlePacket
  <2>6. Rounded(x) \in Nat /\ err' \in 0 .. 63
    BY <1>3, <2>4, <2>5, ErrorStaysSmall
  <2>7. err = 32 * cycles - 5 * (Ns(p) - Ns(pcap[1]))
    BY <1>2, <1>6 DEF PcapInv, RoundInv
  <2> DEFINE r == Rounded(x)
             a == Ns(p)
             b == Ns(q)
             f == Ns(pcap[1])
  <2>8. /\ a \in Int /\ b \in Int /\ f \in Int /\ r \in Int
         /\ err \in Int /\ cycles \in Int
         /\ err = 32 * cycles - 5 * (a - f)
         /\ err' = err + 32 * r - 5 * (b - a)
         /\ cycles' = cycles + r
    BY <1>3, <2>2, <2>3, <2>4, <2>5, <2>6, <2>7
  <2> HIDE DEF p, q, x, r, a, b, f
  <2>9. err' = 32 * cycles' - 5 * (b - f)
    BY <2>8, GapAdds
  <2>10. err' = 32 * cycles' - 5 * (Ns(q) - Ns(pcap[1]))
    BY <2>9 DEF b, f
  <2>11. cycles' \in Nat
    BY <1>3, <2>5, <2>6
  <2>12. n_pkts' = n_pkts + 1 /\ q = pcap[n_pkts + 1]
    BY <1>3 DEF q
  <2>13. err' = 32 * cycles' - 5 * (Ns(pcap'[n_pkts']) - Ns(pcap'[1]))
    BY <1>1, <2>10, <2>12
  <2>14. n_pkts' # 0 /\ n_pkts' \in 0 .. Len(pcap')
    BY <1>1, <1>3, <1>4
  <2>15. QED
    BY <2>6, <2>11, <2>13, <2>14 DEF RoundInv, Ns
<1>7. QED
  BY <1>3, <1>5, <1>6

LEMMA StepRounds == PcapInv /\ [Next]_vars => PcapInv'
<1> SUFFICES ASSUME PcapInv, [Next]_vars PROVE PcapInv'
  OBVIOUS
<1>1. ASSUME UNCHANGED <<pcap, n_pkts, err, cycles>> PROVE PcapInv'
  BY <1>1 DEF PcapInv, RoundInv, InOneSecond, Ns
<1>2. CASE HandlePacket
  BY <1>2, HandleRounds
<1>3. CASE WriteLast
  BY <1>1, <1>3 DEF WriteLast
<1>4. CASE ImportError
  BY <1>1, <1>4 DEF ImportError
<1>5. CASE Capture \/ StopCapture
  BY <1>1, <1>5 DEF Capture, StopCapture, importVars
<1>6. CASE Export
  BY <1>1, <1>6 DEF Export, importVars
<1>7. CASE Exited \/ UNCHANGED vars
  BY <1>1, <1>7 DEF Exited, vars, importVars
<1>8. QED
  BY <1>2, <1>3, <1>4, <1>5, <1>6, <1>7 DEF Next, Import, ImportNext
-----------------------------------------------------------------------------
Entry == [id : Nat, delta : Nat, snap : Nat, wire : Nat]

(* The packets are written one behind, and the last one at the end.        *)
ImportTypes ==
  /\ pcap \in Pcaps
  /\ phase \in {"loop", "done", "error"}
  /\ n_pkts \in 0 .. Len(pcap)
  /\ err \in 0 .. 63 /\ cycles \in Nat
  /\ trace \in Seq(Entry)
  /\ leaves \in Seq(Nat) /\ Len(leaves) = n_pkts
  /\ n_pkts > 0 => leaves[1] = 0 /\ leaves[n_pkts] = cycles
  /\ n_pkts = 0 => cycles = 0

OneBehind ==
  /\ phase # "done" => Len(trace) = IF n_pkts = 0 THEN 0 ELSE n_pkts - 1
  /\ phase = "done" => n_pkts = Len(pcap)
  /\ phase = "done" /\ n_pkts > 0 => Len(trace) = n_pkts

(* What the trace says of a packet is what the pcap says, and its gap is   *)
(* the one between the cycles in which it and the next one leave.          *)
TraceIsPcap ==
  n_pkts > 0 =>
    /\ \A i \in 1 .. Len(trace) : trace[i].wire = pcap[i].len
    /\ \A i \in 1 .. n_pkts - 1 : leaves[i + 1] = leaves[i] + trace[i].delta

(* What TimeIsKept says of the last packet read, for all of them.          *)
Punctual(i) ==
  /\ 5 * (Ns(pcap[i]) - Ns(pcap[1])) <= 32 * leaves[i]
  /\ 32 * leaves[i] < 5 * (Ns(pcap[i]) - Ns(pcap[1])) + 64

AllPunctual == InOneSecond(pcap) => \A i \in 1 .. n_pkts : Punctual(i)

TraceInv == ImportTypes /\ OneBehind /\ TraceIsPcap /\ AllPunctual

LEMMA RoundsKeepTime == PcapInv => TimeIsKept
<1> SUFFICES ASSUME PcapInv, InOneSecond(pcap), n_pkts > 0
             PROVE  /\ 32 * cycles >= 5 * (Ns(pcap[n_pkts]) - Ns(pcap[1]))
                    /\ 32 * cycles < 5 * (Ns(pcap[n_pkts]) - Ns(pcap[1])) + 64
  BY DEF TimeIsKept, RoundedUp
<1>0. pcap \in Seq(PcapPacket) /\ Len(pcap) \in Nat
  BY PcapsAssumption DEF PcapInv
<1>1. /\ n_pkts \in 1 .. Len(pcap) /\ 1 \in 1 .. Len(pcap) /\ 1 <= n_pkts
      /\ err \in 0 .. 63 /\ cycles \in Nat
      /\ err = 32 * cycles - 5 * (Ns(pcap[n_pkts]) - Ns(pcap[1]))
  BY <1>0 DEF PcapInv, RoundInv
<1>2. Ns(pcap[1]) \in Nat /\ Ns(pcap[n_pkts]) \in Nat
  BY <1>0, <1>1, DifferenceInOneSecond
<1> DEFINE a == Ns(pcap[1])
           b == Ns(pcap[n_pkts])
<1>3. a \in Int /\ b \in Int /\ cycles \in Int /\ err = 32 * cycles - 5 * (b - a)
  BY <1>1, <1>2
<1> HIDE DEF a, b
<1>4. 32 * cycles >= 5 * (b - a) /\ 32 * cycles < 5 * (b - a) + 64
  BY <1>1, <1>3, SmallErrorIsSmallDelay
<1>5. QED
  BY <1>4 DEF a, b

LEMMA InitTrace == Init => TraceInv
<1> SUFFICES ASSUME Init PROVE TraceInv
  OBVIOUS
<1>1. /\ phase = "loop" /\ pcap \in Pcaps /\ n_pkts = 0 /\ err = 0 /\ cycles = 0
      /\ trace = <<>> /\ leaves = <<>>
  BY DEF Init, ImportInit
<1>2. pcap \in Seq(PcapPacket)
  BY <1>1, PcapsAssumption
<1>3. Len(pcap) \in Nat
  BY <1>2
<1>4. ImportTypes
  BY <1>1, <1>3, EmptySeq DEF ImportTypes
<1>5. OneBehind /\ TraceIsPcap /\ AllPunctual
  BY <1>1 DEF OneBehind, TraceIsPcap, AllPunctual
<1>6. QED
  BY <1>4, <1>5 DEF TraceInv

(* What Append does, in the words of this module.                          *)
LEMMA Appended ==
  ASSUME NEW S, NEW s \in Seq(S), NEW e \in S
  PROVE  /\ Append(s, e) \in Seq(S)
         /\ Len(Append(s, e)) = Len(s) + 1 /\ Len(s) \in Nat
         /\ Append(s, e)[Len(s) + 1] = e
         /\ \A i \in 1 .. Len(s) : Append(s, e)[i] = s[i]
OBVIOUS

LEMMA WrittenIsEntry ==
  ASSUME pcap \in Pcaps, NEW i \in 1 .. Len(pcap), NEW gap \in Nat, i \in Nat
  PROVE  /\ Written(i, gap) \in Entry
         /\ Written(i, gap).wire = pcap[i].len /\ Written(i, gap).delta = gap
<1>1. pcap[i] \in PcapPacket
  BY PcapsAssumption
<1>2. QED
  BY <1>1 DEF PcapPacket, Entry, Written

(* The first packet is kept; any other lets the one before be written.     *)
LEMMA HandleCases ==
  ASSUME ImportTypes, HandlePacket
  PROVE  /\ phase = "loop" /\ n_pkts' = n_pkts + 1
         /\ n_pkts \in Nat /\ n_pkts + 1 \in 1 .. Len(pcap)
         /\ UNCHANGED <<phase, pcap>>
         /\ n_pkts = 0 => UNCHANGED <<err, trace, cycles>>
         /\ n_pkts > 0 =>
              \E gap \in Nat : /\ trace' = Append(trace, Written(n_pkts, gap))
                               /\ cycles' = cycles + gap
                               /\ err' \in 0 .. 63
<1>1. pcap \in Seq(PcapPacket)
  BY PcapsAssumption DEF ImportTypes
<1>2. Len(pcap) \in Nat
  BY <1>1
<1>3. /\ phase = "loop" /\ n_pkts' = n_pkts + 1 /\ UNCHANGED <<phase, pcap>>
      /\ n_pkts \in Nat /\ n_pkts + 1 \in 1 .. Len(pcap)
      /\ n_pkts = 0 => UNCHANGED <<err, trace, cycles>>
  BY <1>2 DEF ImportTypes, HandlePacket
<1>4. ASSUME n_pkts > 0
      PROVE  \E gap \in Nat : /\ trace' = Append(trace, Written(n_pkts, gap))
                              /\ cycles' = cycles + gap
                              /\ err' \in 0 .. 63
  <2> DEFINE x == Gap32(pcap[n_pkts + 1], pcap[n_pkts])
  <2>1. x \in Int
    <3>1. pcap[n_pkts] \in PcapPacket /\ pcap[n_pkts + 1] \in PcapPacket
      BY <1>1, <1>3, <1>4
    <3>2. SecNs \in Nat /\ UsecPerSec \in Nat
      BY ImportAssumption
    <3> DEFINE d == TimerSub(pcap[n_pkts + 1], pcap[n_pkts])
    <3>3. d.sec \in Int /\ d.nsec \in Int
      BY <3>1, <3>2 DEF TimerSub, PcapPacket
    <3> HIDE DEF d
    <3>4. d.sec * SecNs \in Int
      BY <3>2, <3>3
    <3>5. Ns(d) \in Int
      BY <3>3, <3>4 DEF Ns
    <3>6. QED
      BY <3>5 DEF d, Gap32
  <2>2. err \in 0 .. 63
    BY DEF ImportTypes
  <2>3. CASE x >= 0
    <3>1. /\ err' = err + 32 * Rounded(x) - x /\ cycles' = cycles + Rounded(x)
          /\ trace' = Append(trace, Written(n_pkts, Rounded(x)))
      <4>1. ~(x < 0)
        BY <2>1, <2>3
      <4>2. QED
        BY <1>4, <4>1 DEF HandlePacket
    <3>2. x \in Nat
      BY <2>1, <2>3
    <3> HIDE DEF x
    <3>3. Rounded(x) \in Nat /\ err' \in 0 .. 63
      BY <2>2, <3>1, <3>2, ErrorStaysSmall
    <3>4. QED
      BY <3>1, <3>3
  <2>4. CASE ~(x >= 0)
    <3>1. /\ err' = err
          /\ \E any \in 0 .. MaxCycles :
               /\ trace' = Append(trace, Written(n_pkts, any))
               /\ cycles' = cycles + any
      BY <1>4, <2>4 DEF HandlePacket
    <3>2. QED
      BY <2>2, <3>1, ImportAssumption
  <2>5. QED
    BY <2>3, <2>4
<1>5. QED
  BY <1>3, <1>4

LEMMA HandleTrace ==
  ASSUME TraceInv, PcapInv', HandlePacket,
         leaves' = IF n_pkts' = n_pkts THEN leaves ELSE Append(leaves, cycles')
  PROVE  TraceInv'
<1>0. ImportTypes /\ OneBehind /\ TraceIsPcap /\ AllPunctual
  BY DEF TraceInv
<1>1. /\ phase = "loop" /\ phase' = "loop" /\ pcap' = pcap
      /\ n_pkts' = n_pkts + 1 /\ n_pkts \in Nat /\ n_pkts + 1 \in 1 .. Len(pcap)
      /\ pcap \in Pcaps /\ pcap \in Seq(PcapPacket) /\ Len(pcap) \in Nat
  BY <1>0, HandleCases, PcapsAssumption DEF ImportTypes
<1>2. /\ trace \in Seq(Entry) /\ leaves \in Seq(Nat) /\ Len(leaves) = n_pkts
      /\ cycles \in Nat /\ err \in 0 .. 63
      /\ n_pkts > 0 => leaves[1] = 0 /\ leaves[n_pkts] = cycles
      /\ n_pkts = 0 => cycles = 0
  BY <1>0 DEF ImportTypes
<1>3. Len(trace) = IF n_pkts = 0 THEN 0 ELSE n_pkts - 1
  BY <1>0, <1>1 DEF OneBehind
<1>4. leaves' = Append(leaves, cycles')
  BY <1>1
<1>5. /\ trace' \in Seq(Entry) /\ Len(trace') = n_pkts /\ cycles' \in Nat
      /\ err' \in 0 .. 63
      /\ \A i \in 1 .. Len(trace) : trace'[i] = trace[i]
      /\ n_pkts > 0 => /\ trace'[n_pkts].wire = pcap[n_pkts].len
                       /\ cycles' = cycles + trace'[n_pkts].delta
  <2>1. CASE n_pkts = 0
    <3>1. UNCHANGED <<err, trace, cycles>>
      BY <1>0, <2>1, HandleCases
    <3>2. QED
      BY <1>2, <1>3, <2>1, <3>1
  <2>2. CASE n_pkts > 0
    <3>1. PICK gap \in Nat : /\ trace' = Append(trace, Written(n_pkts, gap))
                             /\ cycles' = cycles + gap
                             /\ err' \in 0 .. 63
      BY <1>0, <2>2, HandleCases
    <3>2. n_pkts \in 1 .. Len(pcap)
      BY <1>1, <2>2
    <3> DEFINE w == Written(n_pkts, gap)
    <3>3. w \in Entry /\ w.wire = pcap[n_pkts].len /\ w.delta = gap
      BY <1>1, <3>2, WrittenIsEntry
    <3> HIDE DEF w
    <3>4. trace' = Append(trace, w)
      BY <3>1 DEF w
    <3>5. /\ trace' \in Seq(Entry) /\ Len(trace') = Len(trace) + 1
          /\ trace'[Len(trace) + 1] = w
          /\ \A i \in 1 .. Len(trace) : trace'[i] = trace[i]
      BY <1>2, <3>3, <3>4, Appended
    <3>6. Len(trace) + 1 = n_pkts
      BY <1>1, <1>3, <2>2
    <3>7. cycles' \in Nat
      BY <1>2, <3>1
    <3>8. QED
      BY <3>1, <3>3, <3>5, <3>6, <3>7
  <2>3. QED
    BY <1>1, <2>1, <2>2
<1>6. /\ leaves' \in Seq(Nat) /\ Len(leaves') = n_pkts + 1
      /\ leaves'[n_pkts + 1] = cycles'
      /\ \A i \in 1 .. n_pkts : leaves'[i] = leaves[i]
  BY <1>2, <1>4, <1>5, Appended
<1>7. ImportTypes'
  <2>1. leaves'[1] = 0
    <3>1. CASE n_pkts = 0
      BY <1>0, <1>2, <1>6, <3>1, HandleCases
    <3>2. CASE n_pkts > 0
      BY <1>1, <1>2, <1>6, <3>2
    <3>3. QED
      BY <1>1, <3>1, <3>2
  <2>2. QED
    BY <1>1, <1>5, <1>6, <2>1 DEF ImportTypes
<1>8. OneBehind'
  BY <1>1, <1>5 DEF OneBehind
<1>9. TraceIsPcap'
  <2>1. ASSUME NEW i \in 1 .. n_pkts PROVE trace'[i].wire = pcap[i].len
    <3>1. n_pkts > 0 /\ Len(trace) = n_pkts - 1
      BY <1>1, <1>3
    <3>2. CASE i = n_pkts
      BY <1>5, <3>1, <3>2
    <3>3. CASE i # n_pkts
      <4>1. i \in 1 .. Len(trace)
        BY <1>1, <3>1, <3>3
      <4>2. QED
        BY <1>0, <1>5, <3>1, <4>1 DEF TraceIsPcap
    <3>4. QED
      BY <3>2, <3>3
  <2>2. ASSUME NEW i \in 1 .. n_pkts
        PROVE  leaves'[i + 1] = leaves'[i] + trace'[i].delta
    <3>1. n_pkts > 0 /\ Len(trace) = n_pkts - 1
      BY <1>1, <1>3
    <3>2. CASE i = n_pkts
      BY <1>2, <1>5, <1>6, <3>1, <3>2
    <3>3. CASE i # n_pkts
      <4>1. i \in 1 .. n_pkts - 1 /\ i + 1 \in 1 .. n_pkts
        BY <1>1, <3>3
      <4>2. leaves[i + 1] = leaves[i] + trace[i].delta
        BY <1>0, <3>1, <4>1 DEF TraceIsPcap
      <4>3. trace'[i] = trace[i]
        BY <1>5, <3>1, <4>1
      <4>4. leaves'[i + 1] = leaves[i + 1] /\ leaves'[i] = leaves[i]
        BY <1>6, <4>1
      <4>5. QED
        BY <4>2, <4>3, <4>4
    <3>4. QED
      BY <3>2, <3>3
  <2>3. n_pkts' - 1 = n_pkts /\ Len(trace') = n_pkts
    BY <1>1, <1>5
  <2>4. QED
    BY <1>1, <2>1, <2>2, <2>3 DEF TraceIsPcap
<1>10. AllPunctual'
  <2> SUFFICES ASSUME InOneSecond(pcap), NEW i \in 1 .. n_pkts + 1
               PROVE  /\ 5 * (Ns(pcap[i]) - Ns(pcap[1])) <= 32 * leaves'[i]
                      /\ 32 * leaves'[i] < 5 * (Ns(pcap[i]) - Ns(pcap[1])) + 64
    BY <1>1 DEF AllPunctual, Punctual, InOneSecond, Ns
  <2>1. CASE i = n_pkts + 1
    <3>1. TimeIsKept'
      BY RoundsKeepTime, PTL
    <3>2. /\ 32 * cycles' >= 5 * (Ns(pcap[n_pkts + 1]) - Ns(pcap[1]))
          /\ 32 * cycles' < 5 * (Ns(pcap[n_pkts + 1]) - Ns(pcap[1])) + 64
      BY <1>1, <3>1 DEF TimeIsKept, RoundedUp, InOneSecond, Ns
    <3>3. 1 \in 1 .. Len(pcap) /\ i \in 1 .. Len(pcap) /\ 1 <= i
      BY <1>1, <2>1
    <3>4. Ns(pcap[1]) \in Nat /\ Ns(pcap[i]) \in Nat
      BY <1>1, <3>3, DifferenceInOneSecond
    <3> DEFINE a == Ns(pcap[1])
               b == Ns(pcap[i])
    <3>5. /\ 32 * cycles' >= 5 * (b - a) /\ 32 * cycles' < 5 * (b - a) + 64
          /\ a \in Nat /\ b \in Nat
      BY <2>1, <3>2, <3>4
    <3>6. leaves'[i] = cycles'
      BY <1>6, <2>1
    <3> HIDE DEF a, b
    <3>7. 5 * (b - a) <= 32 * leaves'[i] /\ 32 * leaves'[i] < 5 * (b - a) + 64
      BY <1>5, <3>5, <3>6
    <3>8. QED
      BY <3>7 DEF a, b
  <2>2. CASE i # n_pkts + 1
    <3>1. i \in 1 .. n_pkts
      BY <1>1, <2>2
    <3>2. Punctual(i)
      BY <1>0, <3>1 DEF AllPunctual
    <3>3. leaves'[i] = leaves[i]
      BY <1>6, <3>1
    <3>4. QED
      BY <3>2, <3>3 DEF Punctual
  <2>3. QED
    BY <2>1, <2>2
<1>11. QED
  BY <1>7, <1>8, <1>9, <1>10 DEF TraceInv

LEMMA WriteLastTrace ==
  ASSUME TraceInv, WriteLast,
         leaves' = IF n_pkts' = n_pkts THEN leaves ELSE Append(leaves, cycles')
  PROVE  TraceInv'
<1>0. ImportTypes /\ OneBehind /\ TraceIsPcap /\ AllPunctual
  BY DEF TraceInv
<1>1. /\ phase = "loop" /\ n_pkts = Len(pcap) /\ phase' = "done"
      /\ UNCHANGED <<pcap, n_pkts, err, cycles>> /\ leaves' = leaves
  BY DEF WriteLast
<1>2. /\ trace \in Seq(Entry) /\ pcap \in Pcaps /\ n_pkts \in 0 .. Len(pcap)
      /\ pcap \in Seq(PcapPacket) /\ Len(pcap) \in Nat
  BY <1>0, PcapsAssumption DEF ImportTypes
<1>3. Len(trace) = IF n_pkts = 0 THEN 0 ELSE n_pkts - 1
  BY <1>0, <1>1 DEF OneBehind
<1>4. LastGap \in Nat
  BY ImportAssumption DEF LastGap
<1>5. PICK w \in Entry : /\ trace' = Append(trace, w)
                         /\ n_pkts > 0 => w.wire = pcap[n_pkts].len
  <2>1. CASE n_pkts > 0
    <3>1. n_pkts \in 1 .. Len(pcap) /\ n_pkts \in Nat
      BY <1>2, <2>1
    <3>2. /\ Written(n_pkts, LastGap) \in Entry
          /\ Written(n_pkts, LastGap).wire = pcap[n_pkts].len
      BY <1>2, <1>4, <3>1, WrittenIsEntry
    <3>3. trace' = Append(trace, Written(n_pkts, LastGap))
      BY <2>1 DEF WriteLast
    <3>4. QED
      BY <3>2, <3>3
  <2>2. CASE n_pkts = 0
    <3>1. PICK g \in Garbage : trace' = Append(trace, g)
      BY <2>2 DEF WriteLast
    <3>2. g \in Entry
      BY <1>4 DEF Garbage, Entry
    <3>3. QED
      BY <2>2, <3>1, <3>2
  <2>3. QED
    BY <1>2, <2>1, <2>2
<1>6. /\ trace' \in Seq(Entry) /\ Len(trace') = Len(trace) + 1
      /\ trace'[Len(trace) + 1] = w
      /\ \A i \in 1 .. Len(trace) : trace'[i] = trace[i]
  BY <1>2, <1>5, Appended
<1>7. ImportTypes'
  BY <1>0, <1>1, <1>6 DEF ImportTypes
<1>8. OneBehind'
  BY <1>1, <1>2, <1>3, <1>6 DEF OneBehind
<1>9. TraceIsPcap'
  <2> SUFFICES ASSUME n_pkts > 0
               PROVE  /\ \A i \in 1 .. Len(trace') : trace'[i].wire = pcap[i].len
                      /\ \A i \in 1 .. n_pkts - 1 :
                           leaves[i + 1] = leaves[i] + trace'[i].delta
    BY <1>1 DEF TraceIsPcap
  <2>1. Len(trace) = n_pkts - 1 /\ Len(trace') = n_pkts /\ trace'[n_pkts] = w
    BY <1>2, <1>3, <1>6
  <2>2. /\ \A i \in 1 .. n_pkts - 1 : trace[i].wire = pcap[i].len
        /\ \A i \in 1 .. n_pkts - 1 : leaves[i + 1] = leaves[i] + trace[i].delta
    BY <1>0, <2>1 DEF TraceIsPcap
  <2>3. \A i \in 1 .. n_pkts - 1 : trace'[i] = trace[i]
    BY <1>6, <2>1
  <2>4. ASSUME NEW i \in 1 .. n_pkts PROVE trace'[i].wire = pcap[i].len
    <3>1. CASE i = n_pkts
      BY <1>5, <2>1, <3>1
    <3>2. CASE i # n_pkts
      <4>1. i \in 1 .. n_pkts - 1
        BY <1>2, <3>2
      <4>2. QED
        BY <2>2, <2>3, <4>1
    <3>3. QED
      BY <3>1, <3>2
  <2>5. QED
    BY <2>1, <2>2, <2>3, <2>4
<1>10. AllPunctual'
  BY <1>0, <1>1 DEF AllPunctual, Punctual, InOneSecond, Ns
<1>11. QED
  BY <1>7, <1>8, <1>9, <1>10 DEF TraceInv

LEMMA StepTrace == TraceInv /\ PcapInv' /\ [Next]_vars => TraceInv'
<1> SUFFICES ASSUME TraceInv, PcapInv', [Next]_vars PROVE TraceInv'
  OBVIOUS
<1>1. ASSUME UNCHANGED importVars, UNCHANGED leaves PROVE TraceInv'
  BY <1>1 DEF TraceInv, ImportTypes, OneBehind, TraceIsPcap, AllPunctual, Punctual,
              InOneSecond, Ns, importVars
<1>2. CASE Import
  <2>1. leaves' = IF n_pkts' = n_pkts THEN leaves ELSE Append(leaves, cycles')
    BY <1>2 DEF Import
  <2>2. CASE HandlePacket
    BY <2>1, <2>2, HandleTrace
  <2>3. CASE WriteLast
    BY <2>1, <2>3, WriteLastTrace
  <2>4. CASE ImportError
    <3>1. /\ phase = "loop" /\ phase' = "error" /\ leaves' = leaves
          /\ UNCHANGED <<pcap, n_pkts, err, trace, cycles>>
      BY <2>1, <2>4 DEF ImportError
    <3>2. ImportTypes' /\ OneBehind'
      BY <3>1 DEF TraceInv, ImportTypes, OneBehind
    <3>3. TraceIsPcap' /\ AllPunctual'
      BY <3>1 DEF TraceInv, TraceIsPcap, AllPunctual, Punctual, InOneSecond, Ns
    <3>4. QED
      BY <3>2, <3>3 DEF TraceInv
  <2>5. QED
    BY <1>2, <2>2, <2>3, <2>4 DEF Import, ImportNext
<1>3. CASE Capture \/ StopCapture \/ Export
  BY <1>1, <1>3 DEF Capture, StopCapture, Export, pathVars
<1>4. CASE Exited \/ UNCHANGED vars
  BY <1>1, <1>4 DEF Exited, vars, pathVars
<1>5. QED
  BY <1>2, <1>3, <1>4 DEF Next
-----------------------------------------------------------------------------
Word == [cycles : Nat, len : Nat, ones : BOOLEAN]

(* The i-th record lies where it should, and is as long as its packet says.*)
RecordAt(i) ==
  /\ begins[i + 1] = begins[i] + 1 + WordsFor(Captured(trace[i]))
  /\ begins[i + 1] <= Len(stored)
  /\ stored[begins[i] + 1] = Meta(i)

Layout ==
  /\ caplen \in CapLens
  /\ begins \in Seq(Nat) /\ stored \in Seq(Word)
  /\ Len(begins) \in 1 .. Len(trace) + 1
  /\ phase # "done" => Len(begins) = 1
  /\ begins[Len(begins)] = Len(stored)
  /\ begins[1] = 0
  /\ \A i \in 1 .. Len(begins) - 1 : RecordAt(i)

LEMMA QuotientIsNat ==
  ASSUME NEW n \in Nat, NEW r \in Nat \ {0}
  PROVE  n \div r \in Nat
OBVIOUS

LEMMA RemainderIsNat ==
  ASSUME NEW n \in Nat, NEW r \in Nat \ {0}
  PROVE  (n % r) \in Nat /\ (n < r => n % r = n)
OBVIOUS

LEMMA WordsForIsNat ==
  ASSUME NEW b \in Nat
  PROVE  WordsFor(b) \in Nat /\ CapWords(b) = WordsFor(b)
<1>1. WordBytes \in Nat \ {0} /\ CapWordBytes = WordBytes
  BY PathAssumption
<1>2. b + WordBytes - 1 \in Nat
  BY <1>1
<1>3. (b + WordBytes - 1) \div WordBytes \in Nat
  BY <1>1, <1>2, QuotientIsNat
<1>4. QED
  BY <1>1, <1>3 DEF WordsFor, CapWords

LEMMA PaddedToBeat ==
  ASSUME NEW n \in Nat
  PROVE  PadWords(n) \in Nat /\ (n + PadWords(n)) % CapBeatWords = 0
<1> DEFINE b == CapBeatWords
           q == n \div b
           x == n % b
<1>1. b \in Nat \ {0}
  BY PathAssumption
<1> HIDE DEF b
<1>2. q \in Nat /\ x \in Nat /\ x < b /\ n = b * q + x
  BY <1>1
<1> HIDE DEF q
<1>3. PadWords(n) = (b - x) % b
  BY DEF PadWords, b
<1>4. b * (q + 1) = b * q + b /\ b * q \in Nat
  BY <1>1, <1>2
<1>5. \A k \in Nat : (b * k) % b = 0
  BY <1>1
<1>6. CASE x = 0
  <2>1. (b - x) % b = 0
    <3>1. b - x = b * 1
      BY <1>1, <1>6
    <3>2. QED
      BY <1>5, <3>1
  <2>2. n + 0 = b * q
    BY <1>2, <1>4, <1>6
  <2>3. QED
    BY <1>2, <1>3, <1>5, <2>1, <2>2 DEF b
<1>7. CASE x # 0
  <2> HIDE DEF x
  <2>1. b - x \in Nat /\ b - x < b
    BY <1>1, <1>2, <1>7
  <2>2. (b - x) % b = b - x
    BY <1>1, <2>1
  <2>3. n + (b - x) = b * (q + 1)
    BY <1>1, <1>2, <1>4
  <2>4. q + 1 \in Nat
    BY <1>2
  <2>5. QED
    BY <1>3, <1>5, <2>1, <2>2, <2>3, <2>4 DEF b
<1>8. QED
  BY <1>6, <1>7

LEMMA CapturedIsNat ==
  ASSUME NEW p \in Entry, caplen \in CapLens
  PROVE  Captured(p) \in Nat
<1>1. caplen \in Nat /\ p.wire \in Nat
  BY PathAssumption DEF Entry
<1>2. QED
  BY <1>1 DEF Captured

LEMMA MetaIsWord ==
  ASSUME trace \in Seq(Entry), NEW i \in 1 .. Len(trace)
  PROVE  /\ Meta(i) \in Word
         /\ Meta(i).len = trace[i].wire % LenRange /\ Meta(i).ones = FALSE
         /\ i > 1 => Meta(i).cycles = trace[i - 1].delta % GapRange
<1>1. trace[i] \in Entry /\ (i > 1 => trace[i - 1] \in Entry)
  OBVIOUS
<1>2. trace[i].wire \in Nat /\ (i > 1 => trace[i - 1].delta \in Nat)
  BY <1>1 DEF Entry
<1>3. i = 1 \/ (i > 1 /\ i # 1)
  OBVIOUS
<1> DEFINE len == trace[i].wire % LenRange
           gap == trace[i - 1].delta % GapRange
<1>4. len \in Nat /\ (i > 1 => gap \in Nat)
  BY <1>2, RemainderIsNat, PathAssumption
<1>5. Meta(i) = MemWord(IF i = 1 THEN 9 ELSE gap, len, FALSE)
  BY DEF Meta
<1> HIDE DEF len, gap
<1>6. /\ Meta(i) \in Word /\ Meta(i).len = len /\ Meta(i).ones = FALSE
      /\ i > 1 => Meta(i).cycles = gap
  BY <1>3, <1>4, <1>5 DEF MemWord, Word
<1>7. QED
  BY <1>6 DEF len, gap

LEMMA FunctionIsSeq ==
  ASSUME NEW S, NEW n \in Nat, NEW f \in [1 .. n -> S]
  PROVE  f \in Seq(S) /\ Len(f) = n
OBVIOUS

LEMMA RecordFacts ==
  ASSUME trace \in Seq(Entry), caplen \in CapLens, NEW i \in 1 .. Len(trace)
  PROVE  /\ Record(i) \in Seq(Word)
         /\ Len(Record(i)) = 1 + WordsFor(Captured(trace[i]))
         /\ Record(i)[1] = Meta(i)
<1> DEFINE n == WordsFor(Captured(trace[i]))
           payload == [k \in 1 .. n |-> MemWord(k, k, FALSE)]
<1>1. trace[i] \in Entry
  OBVIOUS
<1>2. n \in Nat
  BY <1>1, CapturedIsNat, WordsForIsNat
<1> HIDE DEF n
<1>3. payload \in Seq(Word) /\ Len(payload) = n
  <2>1. \A k \in 1 .. n : MemWord(k, k, FALSE) \in Word
    BY <1>2 DEF MemWord, Word
  <2>2. payload \in [1 .. n -> Word]
    BY <2>1
  <2> HIDE DEF payload
  <2>3. QED
    BY <1>2, <2>2, FunctionIsSeq
<1>4. Record(i) = <<Meta(i)>> \o payload
  BY DEF Record, n
<1>5. Meta(i) \in Word
  BY MetaIsWord
<1> HIDE DEF payload
<1>6. <<Meta(i)>> \in Seq(Word) /\ Len(<<Meta(i)>>) = 1 /\ <<Meta(i)>>[1] = Meta(i)
  BY <1>5
<1>7. QED
  BY <1>2, <1>3, <1>4, <1>6, ConcatProperties DEF n

LEMMA PaddingFacts ==
  ASSUME stored \in Seq(Word)
  PROVE  /\ Padding(stored) \in Seq(Word)
         /\ Len(Padding(stored)) = PadWords(Len(stored))
         /\ \A k \in 1 .. Len(Padding(stored)) : Padding(stored)[k].ones
<1> DEFINE n == PadWords(Len(stored))
<1>1. n \in Nat
  BY PaddedToBeat
<1> HIDE DEF n
<1>2. Padding(stored) = [k \in 1 .. n |-> MemWord(0, 0, TRUE)]
  BY DEF Padding, n
<1>3. MemWord(0, 0, TRUE) \in Word /\ MemWord(0, 0, TRUE).ones
  BY DEF MemWord, Word
<1>4. Padding(stored) \in [1 .. n -> Word]
  BY <1>2, <1>3
<1>5. Padding(stored) \in Seq(Word) /\ Len(Padding(stored)) = n
  BY <1>1, <1>4, FunctionIsSeq
<1>6. \A k \in 1 .. n : Padding(stored)[k].ones
  BY <1>2, <1>3
<1>7. QED
  BY <1>5, <1>6 DEF n

LEMMA InitLayout == Init => Layout
<1> SUFFICES ASSUME Init PROVE Layout
  OBVIOUS
<1>1. /\ caplen \in CapLens /\ stored = <<>> /\ begins = <<0>> /\ trace = <<>>
  BY DEF Init, ImportInit
<1>2. /\ begins \in Seq(Nat) /\ Len(begins) = 1 /\ begins[1] = 0
      /\ stored \in Seq(Word) /\ Len(stored) = 0 /\ Len(trace) = 0
  BY <1>1
<1>3. QED
  BY <1>1, <1>2 DEF Layout

LEMMA CaptureLayout ==
  ASSUME ImportTypes, Layout, Capture
  PROVE  Layout'
<1> DEFINE b == Len(begins)
           r == Record(b)
<1>1. /\ trace \in Seq(Entry) /\ caplen \in CapLens /\ begins \in Seq(Nat)
      /\ stored \in Seq(Word) /\ b \in 1 .. Len(trace) + 1
      /\ begins[b] = Len(stored) /\ begins[1] = 0
      /\ \A i \in 1 .. b - 1 : RecordAt(i)
  BY DEF ImportTypes, Layout
<1>2. /\ phase = "done" /\ b <= Len(trace) /\ stored' = stored \o r
      /\ begins' = Append(begins, Len(stored'))
      /\ UNCHANGED <<phase, trace, caplen>>
  BY DEF Capture, importVars
<1>3. b \in 1 .. Len(trace) /\ b \in Nat
  BY <1>1, <1>2
<1>4. /\ r \in Seq(Word) /\ Len(r) = 1 + WordsFor(Captured(trace[b]))
      /\ r[1] = Meta(b)
  BY <1>1, <1>3, RecordFacts
<1>5. WordsFor(Captured(trace[b])) \in Nat
  <2>1. trace[b] \in Entry
    BY <1>1, <1>3
  <2>2. QED
    BY <1>1, <2>1, CapturedIsNat, WordsForIsNat
<1> HIDE DEF r
<1>6. /\ stored' \in Seq(Word) /\ Len(stored') = Len(stored) + Len(r)
      /\ Len(stored) \in Nat /\ Len(r) \in Nat
      /\ \A k \in 1 .. Len(stored) : stored'[k] = stored[k]
      /\ stored'[Len(stored) + 1] = r[1]
  <2>1. /\ stored' \in Seq(Word) /\ Len(stored') = Len(stored) + Len(r)
        /\ \A k \in 1 .. Len(stored) + Len(r) :
             stored'[k] = IF k <= Len(stored) THEN stored[k] ELSE r[k - Len(stored)]
    <3>1. stored \in Seq(Word) /\ r \in Seq(Word)
      BY <1>1, <1>4
    <3> DEFINE t == stored \o r
    <3>2. /\ t \in Seq(Word) /\ Len(t) = Len(stored) + Len(r)
          /\ \A k \in 1 .. Len(stored) + Len(r) :
               t[k] = IF k <= Len(stored) THEN stored[k] ELSE r[k - Len(stored)]
      BY <3>1, ConcatProperties
    <3>3. stored' = t
      BY <1>2
    <3> HIDE DEF t
    <3>4. QED
      BY <3>2, <3>3
  <2>2. Len(stored) \in Nat /\ Len(r) \in Nat /\ Len(r) >= 1
    BY <1>1, <1>4, <1>5
  <2>3. \A k \in 1 .. Len(stored) : stored'[k] = stored[k]
    BY <2>1, <2>2
  <2>4. stored'[Len(stored) + 1] = r[1]
    <3>1. /\ Len(stored) + 1 \in 1 .. Len(stored) + Len(r)
          /\ ~(Len(stored) + 1 <= Len(stored)) /\ Len(stored) + 1 - Len(stored) = 1
      BY <2>2
    <3>2. stored'[Len(stored) + 1] = r[Len(stored) + 1 - Len(stored)]
      BY <2>1, <3>1
    <3>3. QED
      BY <3>1, <3>2
  <2>5. QED
    BY <2>1, <2>2, <2>3, <2>4
<1>7. /\ begins' \in Seq(Nat) /\ Len(begins') = b + 1
      /\ begins'[b + 1] = Len(stored')
      /\ \A i \in 1 .. b : begins'[i] = begins[i]
  BY <1>1, <1>2, <1>6, Appended
<1>8. ASSUME NEW i \in 1 .. b PROVE RecordAt(i)'
  <2>0. i \in 1 .. Len(trace)
    BY <1>1, <1>3
  <2>1. /\ begins'[i] = begins[i] /\ Meta(i)' = Meta(i) /\ trace'[i] = trace[i]
        /\ Captured(trace[i])' = Captured(trace[i])
    BY <1>2, <1>7 DEF Meta, Captured
  <2>2. CASE i = b
    <3>1. begins'[i] = Len(stored) /\ begins'[i + 1] = Len(stored')
      BY <1>1, <1>7, <2>1, <2>2
    <3>2. Len(stored') = Len(stored) + 1 + WordsFor(Captured(trace[i]))
      <4>1. /\ Len(stored') = Len(stored) + Len(r) /\ Len(stored) \in Nat
            /\ Len(r) = 1 + WordsFor(Captured(trace[i]))
            /\ WordsFor(Captured(trace[i])) \in Nat
        BY <1>4, <1>5, <1>6, <2>2
      <4>2. QED
        BY <4>1
    <3>3. stored'[Len(stored) + 1] = Meta(i)
      BY <1>4, <1>6, <2>2
    <3>4. Len(stored') \in Nat
      BY <1>6
    <3>5. QED
      BY <2>1, <3>1, <3>2, <3>3, <3>4 DEF RecordAt
  <2>3. CASE i # b
    <3>1. i \in 1 .. b - 1 /\ i + 1 \in 1 .. b
      BY <1>1, <1>3, <2>3
    <3>2. /\ begins[i + 1] = begins[i] + 1 + WordsFor(Captured(trace[i]))
          /\ begins[i + 1] <= Len(stored) /\ stored[begins[i] + 1] = Meta(i)
      <4>1. RecordAt(i)
        BY <1>1, <3>1
      <4>2. QED
        BY <4>1 DEF RecordAt
    <3>3. begins'[i + 1] = begins[i + 1]
      BY <1>7, <3>1
    <3>4. begins[i] \in Nat /\ begins[i + 1] \in Nat
      <4>1. begins \in Seq(Nat) /\ i \in 1 .. Len(begins) /\ i + 1 \in 1 .. Len(begins)
        BY <1>1, <1>3, <3>1
      <4>2. QED
        BY <4>1
    <3>5. WordsFor(Captured(trace[i])) \in Nat
      <4>1. trace[i] \in Entry
        BY <1>1, <2>0
      <4>2. QED
        BY <1>1, <4>1, CapturedIsNat, WordsForIsNat
    <3> DEFINE n == WordsFor(Captured(trace[i]))
               x == begins[i]
               y == begins[i + 1]
    <3>6. begins[i] + 1 \in 1 .. Len(stored)
      <4>1. /\ n \in Nat /\ x \in Nat /\ y \in Nat /\ y = x + 1 + n
            /\ y <= Len(stored) /\ Len(stored) \in Nat
        BY <1>6, <3>2, <3>4, <3>5
      <4> HIDE DEF n, x, y
      <4>2. x + 1 \in 1 .. Len(stored)
        BY <4>1
      <4>3. QED
        BY <4>2 DEF x
    <3>7. stored'[begins[i] + 1] = stored[begins[i] + 1]
      BY <1>6, <3>6
    <3>8. begins[i + 1] <= Len(stored')
      BY <1>6, <3>2, <3>4
    <3>9. QED
      BY <2>1, <3>2, <3>3, <3>7, <3>8 DEF RecordAt
  <2>4. QED
    BY <2>2, <2>3
<1>9. begins'[1] = 0 /\ begins'[Len(begins')] = Len(stored')
  BY <1>1, <1>3, <1>7
<1>10. Len(begins') \in 1 .. Len(trace') + 1 /\ Len(begins') - 1 = b
  BY <1>1, <1>2, <1>3, <1>7
<1> HIDE DEF b
<1>11. QED
  BY <1>1, <1>2, <1>6, <1>7, <1>8, <1>9, <1>10 DEF Layout

LEMMA StepLayout == ImportTypes /\ ImportTypes' /\ Layout /\ [Next]_vars => Layout'
<1> SUFFICES ASSUME ImportTypes, ImportTypes', Layout, [Next]_vars PROVE Layout'
  OBVIOUS
<1>1. ASSUME UNCHANGED <<phase, trace, caplen, stored, begins>> PROVE Layout'
  BY <1>1 DEF Layout, RecordAt, Meta, Captured
<1>2. CASE Import
  <2>1. phase = "loop" /\ UNCHANGED <<caplen, stored, begins>>
    BY <1>2 DEF Import, ImportNext, HandlePacket, WriteLast, ImportError
  <2>2. Len(begins) = 1
    BY <2>1 DEF Layout
  <2>3. Len(trace') \in Nat
    BY DEF ImportTypes
  <2>4. Len(begins') \in 1 .. Len(trace') + 1
    BY <2>1, <2>2, <2>3
  <2>5. QED
    BY <2>1, <2>2, <2>4 DEF Layout
<1>3. CASE Capture
  BY <1>3, CaptureLayout
<1>4. CASE StopCapture \/ Export
  BY <1>1, <1>4 DEF StopCapture, Export, importVars, pathVars
<1>5. CASE Exited \/ UNCHANGED vars
  BY <1>1, <1>5 DEF Exited, vars, importVars, pathVars
<1>6. QED
  BY <1>2, <1>3, <1>4, <1>5 DEF Next
-----------------------------------------------------------------------------
Stamp  == [sec : Nat, nsec : Nat]
Packet == [ts : Stamp, caplen : Nat, len : Nat]

ExportTypes ==
  /\ xphase \in {"idle", "loop", "done", "error"}
  /\ memory \in Seq(Word) /\ max_caplen \in Nat /\ xpos \in Nat
  /\ now \in Stamp /\ exported \in Seq(Packet)
  /\ xphase = "idle" => /\ xpos = 0 /\ exported = <<>>
                        /\ now = [sec |-> 0, nsec |-> 0]

(* Export starts when everything is captured and the memory aligned.       *)
MemoryReady ==
  xphase # "idle" =>
    /\ phase = "done" /\ Len(begins) = Len(trace) + 1
    /\ memory = stored \o Padding(stored)

(* The program is always at the first word of a record, or behind the last.*)
Walk ==
  Comparable /\ xphase # "idle" =>
    /\ xphase # "error"
    /\ Len(exported) <= Len(trace) /\ xpos = begins[Len(exported) + 1]
    /\ xphase = "done" => Len(exported) = Len(trace)

Faithful ==
  Comparable =>
    \A i \in 1 .. Len(exported) : /\ exported[i].len = trace[i].wire
                                  /\ exported[i].caplen = Captured(trace[i])

(* The fractions that were cut off: at most a nanosecond for each packet.  *)
Timely(i) ==
  /\ exported[i].ts.sec = 0
  /\ 5 * exported[i].ts.nsec <= 32 * leaves[i]
  /\ 5 * exported[i].ts.nsec >= 32 * leaves[i] - 5 * (i - 1)

AllTimely ==
  Comparable /\ CarryFree =>
    /\ exported = <<>> => now = [sec |-> 0, nsec |-> 0]
    /\ exported # <<>> => now = exported[Len(exported)].ts
    /\ \A i \in 1 .. Len(exported) : Timely(i)

ExportInv == ExportTypes /\ MemoryReady /\ Walk /\ Faithful /\ AllTimely

PathInv == PcapInv /\ TraceInv /\ Layout /\ ExportInv

LEMMA MemoryFacts ==
  ASSUME Layout, MemoryReady, xphase # "idle"
  PROVE  /\ memory \in Seq(Word)
         /\ Len(memory) \in Nat /\ Len(stored) \in Nat /\ Len(stored) <= Len(memory)
         /\ Len(memory) % CapBeatWords = 0
         /\ \A k \in 1 .. Len(stored) : memory[k] = stored[k]
         /\ \A k \in Len(stored) + 1 .. Len(memory) : memory[k].ones
<1> DEFINE p == Padding(stored)
<1>1. stored \in Seq(Word) /\ memory = stored \o p
  BY DEF Layout, MemoryReady
<1>2. /\ p \in Seq(Word) /\ Len(p) = PadWords(Len(stored))
      /\ \A k \in 1 .. Len(p) : p[k].ones
  BY <1>1, PaddingFacts
<1> HIDE DEF p
<1>3. Len(stored) \in Nat /\ Len(p) \in Nat
  BY <1>1, <1>2
<1>4. /\ memory \in Seq(Word) /\ Len(memory) = Len(stored) + Len(p)
      /\ \A k \in 1 .. Len(stored) + Len(p) :
           memory[k] = IF k <= Len(stored) THEN stored[k] ELSE p[k - Len(stored)]
  BY <1>1, <1>2, ConcatProperties
<1>5. Len(memory) % CapBeatWords = 0
  BY <1>2, <1>3, <1>4, PaddedToBeat
<1>6. \A k \in 1 .. Len(stored) : memory[k] = stored[k]
  BY <1>3, <1>4
<1>7. ASSUME NEW k \in Len(stored) + 1 .. Len(memory) PROVE memory[k].ones
  <2>1. k - Len(stored) \in 1 .. Len(p) /\ memory[k] = p[k - Len(stored)]
    BY <1>3, <1>4
  <2>2. QED
    BY <1>2, <2>1
<1>8. QED
  BY <1>3, <1>4, <1>5, <1>6, <1>7

LEMMA MemoryWhole ==
  Layout /\ MemoryReady /\ xphase # "idle"
    => Len(memory) % CapBeatWords = 0 /\ memory \in Seq(Word)
BY MemoryFacts

(* Of a comparable pcap each length fits into the meta data.               *)
LEMMA WireFits ==
  ASSUME TraceInv, MemoryReady, Comparable, xphase # "idle",
         NEW i \in 1 .. Len(trace)
  PROVE  trace[i].wire \in Nat /\ trace[i].wire < LenRange
<1>1. ImportTypes /\ OneBehind /\ TraceIsPcap
  BY DEF TraceInv
<1>2. pcap \in Seq(PcapPacket) /\ pcap # <<>> /\ phase = "done"
  BY <1>1, PcapsAssumption DEF ImportTypes, Comparable, MemoryReady
<1>3. Len(pcap) \in Nat /\ Len(pcap) > 0
  BY <1>2
<1>4. n_pkts > 0 /\ Len(trace) = Len(pcap)
  BY <1>1, <1>2, <1>3 DEF OneBehind
<1>5. trace[i].wire = pcap[i].len
  BY <1>1, <1>4 DEF TraceIsPcap
<1>6. pcap[i].len \in 1 .. LenRange - 1
  BY <1>4 DEF Comparable
<1>7. LenRange \in Nat
  BY PathAssumption
<1>8. QED
  BY <1>5, <1>6, <1>7

(* What the program finds where it is.                                     *)
LEMMA AtRecord ==
  ASSUME TraceInv, Layout, ExportTypes, MemoryReady, Walk, Comparable,
         xphase = "loop", Len(exported) < Len(trace)
  PROVE  LET i == Len(exported) + 1
             w == memory[xpos + 1]
         IN  /\ i \in 1 .. Len(trace) /\ xpos < Len(memory)
             /\ w = Meta(i) /\ w \in Word /\ ~w.ones
             /\ CapLen(w) = Captured(trace[i]) /\ w.len = trace[i].wire
             /\ xpos + 1 + CapWords(CapLen(w)) = begins[i + 1]
             /\ Fits(w)
<1> DEFINE i == Len(exported) + 1
           w == memory[xpos + 1]
           n == WordsFor(Captured(trace[i]))
           x == begins[i]
           y == begins[i + 1]
<1>1. /\ trace \in Seq(Entry) /\ exported \in Seq(Packet)
      /\ begins \in Seq(Nat) /\ Len(begins) = Len(trace) + 1
      /\ xpos = begins[i] /\ xpos \in Nat
  BY DEF TraceInv, ImportTypes, Layout, ExportTypes, MemoryReady, Walk
<1>2. Len(exported) \in Nat /\ Len(trace) \in Nat
  BY <1>1
<1>3. i \in 1 .. Len(trace) /\ i \in 1 .. Len(begins) - 1
  BY <1>1, <1>2
<1>4. begins[i + 1] = begins[i] + 1 + n /\ begins[i + 1] <= Len(stored)
      /\ stored[begins[i] + 1] = Meta(i)
  BY <1>3 DEF Layout, RecordAt
<1>5. trace[i] \in Entry /\ caplen \in CapLens
  BY <1>1, <1>3 DEF Layout
<1>6. Captured(trace[i]) \in Nat /\ n \in Nat
      /\ CapWords(Captured(trace[i])) = n
  BY <1>5, CapturedIsNat, WordsForIsNat
<1>7. /\ Len(memory) \in Nat /\ Len(stored) \in Nat /\ Len(stored) <= Len(memory)
      /\ \A k \in 1 .. Len(stored) : memory[k] = stored[k]
  BY MemoryFacts
<1>8. x \in Nat /\ y \in Nat /\ y = x + 1 + n /\ y <= Len(stored)
  <2>1. i \in 1 .. Len(begins) /\ i + 1 \in 1 .. Len(begins)
    BY <1>1, <1>2, <1>3
  <2>2. begins[i] \in Nat /\ begins[i + 1] \in Nat
    BY <1>1, <2>1
  <2>3. QED
    BY <1>4, <2>2
<1> HIDE DEF n
<1>9. w = Meta(i)
  <2> HIDE DEF x, y
  <2>1. x + 1 \in 1 .. Len(stored)
    BY <1>6, <1>7, <1>8
  <2>2. xpos = x
    BY <1>1 DEF x
  <2>3. memory[x + 1] = stored[x + 1]
    BY <1>7, <2>1
  <2>4. stored[x + 1] = Meta(i)
    BY <1>4 DEF x
  <2>5. QED
    BY <2>2, <2>3, <2>4
<1>10. Meta(i) \in Word /\ Meta(i).len = trace[i].wire /\ Meta(i).ones = FALSE
  <2>1. /\ Meta(i) \in Word /\ Meta(i).ones = FALSE
        /\ Meta(i).len = trace[i].wire % LenRange
    BY <1>1, <1>3, MetaIsWord
  <2>2. trace[i].wire \in Nat /\ trace[i].wire < LenRange
    BY <1>3, WireFits
  <2>3. LenRange \in Nat \ {0}
    BY PathAssumption
  <2>4. trace[i].wire % LenRange = trace[i].wire
    BY <2>2, <2>3, RemainderIsNat
  <2>5. QED
    BY <2>1, <2>4
<1> HIDE DEF w
<1>11. CapLen(w) = Captured(trace[i])
  BY <1>9, <1>10 DEF CapLen, Captured, Comparable
<1>12. xpos = x
  BY <1>1
<1> HIDE DEF x, y
<1>13. xpos + 1 + CapWords(CapLen(w)) = y
  BY <1>6, <1>8, <1>11, <1>12
<1>14. xpos < Len(memory) /\ y <= Len(memory)
  BY <1>6, <1>7, <1>8, <1>12
<1>15. Fits(w)
  BY <1>13, <1>14 DEF Fits
<1>16. ~w.ones /\ w \in Word /\ w.len = trace[i].wire
  BY <1>9, <1>10
<1>17. QED
  BY <1>3, <1>9, <1>11, <1>13, <1>14, <1>15, <1>16 DEF w, y

(* Behind the last record there is nothing but padding.                    *)
LEMMA AtEnd ==
  ASSUME ImportTypes, Layout, ExportTypes, MemoryReady, Walk, Comparable,
         xphase = "loop", Len(exported) = Len(trace)
  PROVE  xpos < Len(memory) => memory[xpos + 1].ones
<1>1. /\ begins[Len(begins)] = Len(stored) /\ Len(begins) = Len(trace) + 1
      /\ xpos = begins[Len(exported) + 1]
  BY DEF Layout, MemoryReady, Walk
<1>2. xpos = Len(stored)
  BY <1>1
<1>3. /\ Len(memory) \in Nat /\ Len(stored) \in Nat
      /\ \A k \in Len(stored) + 1 .. Len(memory) : memory[k].ones
  BY MemoryFacts
<1>4. QED
  BY <1>2, <1>3

LEMMA AtMost ==
  ASSUME ImportTypes, ExportTypes, Walk, Comparable, xphase = "loop"
  PROVE  /\ Len(exported) \in Nat /\ Len(trace) \in Nat
         /\ Len(exported) < Len(trace) \/ Len(exported) = Len(trace)
<1>1. Len(exported) <= Len(trace)
  BY DEF Walk
<1>2. exported \in Seq(Packet) /\ trace \in Seq(Entry)
  BY DEF ImportTypes, ExportTypes
<1>3. QED
  BY <1>1, <1>2

LEMMA InitExport == Init => ExportInv
<1> SUFFICES ASSUME Init PROVE ExportInv
  OBVIOUS
<1>1. /\ xphase = "idle" /\ memory = <<>> /\ max_caplen = 0 /\ xpos = 0
      /\ now = [sec |-> 0, nsec |-> 0] /\ exported = <<>>
  BY DEF Init, ExportIdle
<1>2. /\ memory \in Seq(Word) /\ exported \in Seq(Packet) /\ Len(exported) = 0
      /\ now \in Stamp
  BY <1>1 DEF Stamp
<1>3. ExportTypes
  BY <1>1, <1>2 DEF ExportTypes
<1>4. MemoryReady /\ Walk
  BY <1>1 DEF MemoryReady, Walk
<1>5. Faithful /\ AllTimely
  BY <1>1, <1>2 DEF Faithful, AllTimely
<1>6. QED
  BY <1>3, <1>4, <1>5 DEF ExportInv

LEMMA StopCaptureExport ==
  ASSUME Layout, ExportInv, StopCapture
  PROVE  ExportInv'
<1>0. ExportTypes /\ MemoryReady /\ Walk /\ Faithful /\ AllTimely
  BY DEF ExportInv
<1>1. PICK arg \in CapLens : ExportOpen(stored \o Padding(stored), arg)
  BY DEF StopCapture
<1>2. /\ phase = "done" /\ Len(begins) = Len(trace) + 1
      /\ UNCHANGED <<phase, pcap, n_pkts, trace, caplen, stored, begins, leaves>>
  BY DEF StopCapture, importVars, pathVars
<1>3. /\ xphase = "idle" /\ memory' = stored \o Padding(stored) /\ max_caplen' = arg
      /\ xphase' = IF Len(memory') % CapBeatWords = 0 THEN "loop" ELSE "error"
      /\ UNCHANGED <<xpos, now, exported>>
  BY <1>1 DEF ExportOpen
<1>4. xphase' # "idle"
  BY <1>3
<1>5. MemoryReady'
  BY <1>2, <1>3 DEF MemoryReady, Padding, PadWords, MemWord
<1>6. Layout'
  BY <1>2 DEF Layout, RecordAt, Meta, Captured
<1>7. Len(memory') % CapBeatWords = 0 /\ memory' \in Seq(Word)
  <2>1. (Layout /\ MemoryReady /\ xphase # "idle"
          => Len(memory) % CapBeatWords = 0 /\ memory \in Seq(Word))'
    BY MemoryWhole, PTL
  <2>2. QED
    BY <1>4, <1>5, <1>6, <2>1
<1>8. xphase' = "loop"
  BY <1>3, <1>7
<1>9. /\ xpos = 0 /\ exported = <<>> /\ now = [sec |-> 0, nsec |-> 0]
  BY <1>0, <1>3 DEF ExportTypes
<1>10. ExportTypes'
  <2>1. arg \in Nat
    BY PathAssumption
  <2>2. now \in Stamp /\ exported \in Seq(Packet) /\ xpos \in Nat
    BY <1>0 DEF ExportTypes
  <2>3. QED
    BY <1>3, <1>7, <1>8, <2>1, <2>2 DEF ExportTypes
<1>11. Walk'
  <2>1. /\ Len(exported') = 0 /\ xpos' = 0 /\ begins' = begins /\ trace' = trace
    BY <1>2, <1>3, <1>9
  <2>2. Len(begins) \in 1 .. Len(trace) + 1 /\ begins[1] = 0
    BY DEF Layout
  <2>3. Len(exported') <= Len(trace')
    BY <1>2, <2>1, <2>2
  <2>4. xpos' = begins'[Len(exported') + 1]
    BY <2>1, <2>2
  <2>5. QED
    BY <1>8, <2>3, <2>4 DEF Walk
<1>12. Faithful' /\ AllTimely'
  <2>1. exported' = <<>> /\ Len(exported') = 0 /\ now' = [sec |-> 0, nsec |-> 0]
    BY <1>3, <1>9
  <2>2. QED
    BY <2>1 DEF Faithful, AllTimely
<1>13. QED
  BY <1>5, <1>10, <1>11, <1>12 DEF ExportInv
(* Nothing is imported or captured any more once the export has begun.     *)
LEMMA BeforeExport ==
  ASSUME ExportInv, ImportTypes, Layout, Import \/ Capture
  PROVE  ExportInv'
<1>0. ExportTypes /\ MemoryReady /\ Walk /\ Faithful /\ AllTimely
  BY DEF ExportInv
<1>1. UNCHANGED exportVars
  BY DEF Import, Capture
<1>2. UNCHANGED <<xphase, memory, max_caplen, xpos, now, exported>>
  BY <1>1 DEF exportVars
<1>3. xphase = "idle"
  <2>1. CASE Import
    <3>1. phase = "loop"
      BY <2>1 DEF Import, ImportNext, HandlePacket, WriteLast, ImportError
    <3>2. QED
      BY <1>0, <3>1 DEF MemoryReady
  <2>2. CASE Capture
    <3>1. Len(begins) <= Len(trace) /\ Len(trace) \in Nat
      BY <2>2 DEF Capture, ImportTypes
    <3>2. Len(begins) # Len(trace) + 1
      BY <3>1
    <3>3. QED
      BY <1>0, <3>2 DEF MemoryReady
  <2>3. QED
    BY <2>1, <2>2
<1>4. exported = <<>> /\ now = [sec |-> 0, nsec |-> 0]
  BY <1>0, <1>3 DEF ExportTypes
<1>5. ExportTypes'
  BY <1>0, <1>2 DEF ExportTypes
<1>6. MemoryReady' /\ Walk'
  BY <1>2, <1>3 DEF MemoryReady, Walk
<1>7. Faithful' /\ AllTimely'
  <2>1. exported' = <<>> /\ Len(exported') = 0 /\ now' = [sec |-> 0, nsec |-> 0]
    BY <1>2, <1>4
  <2>2. QED
    BY <2>1 DEF Faithful, AllTimely
<1>8. QED
  BY <1>5, <1>6, <1>7 DEF ExportInv

(* 32 / 5 ns for each cycle, with the fraction cut off.                    *)
LEMMA CutOff ==
  ASSUME NEW c \in Nat, NEW ns \in NsOf(c)
  PROVE  ns \in Nat /\ 5 * ns <= 32 * c /\ 5 * ns >= 32 * c - 5
<1> DEFINE q == (32 * c) \div 5
<1>1. q \in Nat /\ 5 * q <= 32 * c /\ 5 * q > 32 * c - 5
  OBVIOUS
<1>2. c > 0 /\ c % 5 = 0 => q \in Nat \ {0} /\ 5 * q = 32 * c
  <2> SUFFICES ASSUME c > 0, c % 5 = 0 PROVE q \in Nat \ {0} /\ 5 * q = 32 * c
    OBVIOUS
  <2>1. c = 5 * (c \div 5) /\ c \div 5 \in Nat
    OBVIOUS
  <2> DEFINE k == c \div 5
  <2>2. k \in Nat /\ c = 5 * k
    BY <2>1
  <2> HIDE DEF k
  <2>3. q = 32 * k
    BY <2>2
  <2>4. k > 0
    BY <2>2
  <2>5. QED
    BY <2>2, <2>3, <2>4
<1>3. ns = q \/ (ns = q - 1 /\ c > 0 /\ c % 5 = 0)
  BY DEF NsOf
<1> HIDE DEF q
<1>4. QED
  BY <1>1, <1>2, <1>3

LEMMA TimerAddIsStamp ==
  ASSUME NEW t \in Stamp, NEW ns \in Nat
  PROVE  TimerAdd(t, ns) \in Stamp
<1>1. t.sec \in Nat /\ t.nsec \in Nat /\ CapUsecPerSec \in Nat
  BY PathAssumption DEF Stamp
<1>2. CASE t.nsec + ns >= CapUsecPerSec
  BY <1>1, <1>2 DEF TimerAdd, Stamp
<1>3. CASE ~(t.nsec + ns >= CapUsecPerSec)
  BY <1>1, <1>3 DEF TimerAdd, Stamp
<1>4. QED
  BY <1>2, <1>3

LEMMA StampsAreStamps ==
  ASSUME ExportTypes, NEW w \in Word, NEW ts \in Stamps(w)
  PROVE  ts \in Stamp
<1>1. now \in Stamp
  BY DEF ExportTypes
<1>2. CASE exported = <<>>
  BY <1>1, <1>2 DEF Stamps
<1>3. CASE exported # <<>>
  <2>1. PICK ns \in NsOf(w.cycles) : ts = TimerAdd(now, ns)
    BY <1>3 DEF Stamps
  <2>2. w.cycles \in Nat
    BY DEF Word
  <2>3. ns \in Nat
    BY <2>2, CutOff
  <2>4. QED
    BY <1>1, <2>1, <2>3, TimerAddIsStamp
<1>4. QED
  BY <1>2, <1>3

LEMMA CapLenIsNat ==
  ASSUME ExportTypes, NEW w \in Word
  PROVE  CapLen(w) \in Nat /\ CapWords(CapLen(w)) \in Nat /\ w.len \in Nat
<1>1. w.len \in Nat /\ max_caplen \in Nat
  BY DEF ExportTypes, Word
<1>2. CapLen(w) \in Nat
  BY <1>1 DEF CapLen
<1>3. QED
  BY <1>1, <1>2, WordsForIsNat

(* Arithmetic: no carry before the last packet, and the bounds add up.     *)
LEMMA NoCarry ==
  ASSUME NEW t \in Nat, NEW l \in Nat, NEW s \in Int, NEW last \in Int,
         NEW cap \in Nat, 5 * t <= 32 * l, 32 * l < 5 * s + 64,
         s <= last, last + 12 < cap
  PROVE  t < cap
OBVIOUS

LEMMA GapFits ==
  ASSUME NEW l \in Nat, NEW c \in Nat, NEW s \in Int, NEW last \in Int,
         NEW cap \in Nat, NEW range \in Nat, 32 * (l + c) < 5 * s + 64,
         s <= last, last + 12 < cap, 5 * cap <= 32 * range
  PROVE  c < range
OBVIOUS

LEMMA BoundsAdd ==
  ASSUME NEW t \in Nat, NEW ns \in Nat, NEW l \in Nat, NEW c \in Nat, NEW k \in Nat,
         5 * t <= 32 * l, 5 * t >= 32 * l - 5 * (k - 1),
         5 * ns <= 32 * c, 5 * ns >= 32 * c - 5
  PROVE  /\ 5 * (t + ns) <= 32 * (l + c)
         /\ 5 * (t + ns) >= 32 * (l + c) - 5 * k
OBVIOUS

(* The time of the next packet.                                            *)
LEMMA NextStamp ==
  ASSUME TraceInv, Layout, ExportInv, Comparable, CarryFree, xphase = "loop",
         Len(exported) < Len(trace), NEW ts \in Stamps(memory[xpos + 1])
  PROVE  LET i == Len(exported) + 1
         IN  /\ ts.sec = 0
             /\ 5 * ts.nsec <= 32 * leaves[i]
             /\ 5 * ts.nsec >= 32 * leaves[i] - 5 * (i - 1)
<1> DEFINE n == Len(exported)
           i == n + 1
           w == memory[xpos + 1]
<1>0. /\ ImportTypes /\ OneBehind /\ TraceIsPcap /\ AllPunctual
      /\ ExportTypes /\ MemoryReady /\ Walk /\ AllTimely
  BY DEF TraceInv, ExportInv
<1>1. /\ phase = "done" /\ n_pkts = Len(pcap) /\ n_pkts > 0 /\ Len(trace) = n_pkts
      /\ pcap \in Seq(PcapPacket) /\ Len(pcap) \in Nat
      /\ leaves \in Seq(Nat) /\ Len(leaves) = n_pkts /\ leaves[1] = 0
      /\ trace \in Seq(Entry) /\ exported \in Seq(Packet) /\ now \in Stamp
  <2>1. phase = "done"
    BY <1>0 DEF MemoryReady
  <2>2. pcap \in Seq(PcapPacket) /\ pcap # <<>>
    BY <1>0, PcapsAssumption DEF ImportTypes, Comparable
  <2>3. Len(pcap) \in Nat /\ Len(pcap) > 0
    BY <2>2
  <2>4. n_pkts = Len(pcap) /\ Len(trace) = n_pkts
    BY <1>0, <2>1, <2>3 DEF OneBehind
  <2>5. QED
    BY <1>0, <2>1, <2>2, <2>3, <2>4 DEF ImportTypes, ExportTypes
<1>2. w = Meta(i) /\ i \in 1 .. Len(trace)
  BY <1>0, AtRecord
<1>3. n \in Nat /\ i \in 1 .. n_pkts
  BY <1>1, <1>2
<1>4. CASE exported = <<>>
  <2>1. n = 0 /\ ts = now /\ now = [sec |-> 0, nsec |-> 0]
    BY <1>0, <1>4 DEF Stamps, AllTimely
  <2>2. QED
    BY <1>1, <2>1
<1>5. CASE exported # <<>>
  <2>1. n \in 1 .. n_pkts - 1 /\ n \in 1 .. Len(exported)
    BY <1>1, <1>3, <1>5
  <2>2. PICK ns \in NsOf(w.cycles) : ts = TimerAdd(now, ns)
    BY <1>5 DEF Stamps
  <2>3. w.cycles = trace[n].delta % GapRange
    <3>1. i > 1 /\ i - 1 = n
      BY <2>1
    <3>2. i > 1 => Meta(i).cycles = trace[i - 1].delta % GapRange
      BY <1>1, <1>2, MetaIsWord
    <3>3. QED
      BY <1>2, <3>1, <3>2
  <2>4. leaves[i] = leaves[n] + trace[n].delta
    BY <1>0, <1>1, <2>1 DEF TraceIsPcap
  <2> DEFINE c == trace[n].delta
             l == leaves[n]
             t == now.nsec
             a == Ns(pcap[1])
             b == Ns(pcap[i])
             z == Ns(pcap[Len(pcap)])
  <2>5. c \in Nat /\ l \in Nat /\ t \in Nat
    <3>1. trace[n] \in Entry
      BY <1>1, <2>1
    <3>2. c \in Nat
      BY <3>1 DEF Entry
    <3>3. n \in 1 .. Len(leaves)
      BY <1>1, <2>1
    <3>4. l \in Nat
      BY <1>1, <3>3
    <3>5. t \in Nat
      BY <1>1 DEF Stamp
    <3>6. QED
      BY <3>2, <3>4, <3>5
  <2>7. now.sec = 0 /\ 5 * t <= 32 * l /\ 5 * t >= 32 * l - 5 * (n - 1)
    <3>1. now = exported[n].ts /\ Timely(n)
      BY <1>0, <1>5, <2>1 DEF AllTimely
    <3>2. QED
      BY <3>1 DEF Timely
  <2>8. /\ InOneSecond(pcap) /\ z - a + 12 < CapUsecPerSec
        /\ 32 * leaves[i] < 5 * (b - a) + 64
    <3>1. InOneSecond(pcap) /\ z - a + 12 < CapUsecPerSec
      BY DEF CarryFree
    <3>2. Punctual(i)
      BY <1>0, <1>3, <3>1 DEF AllPunctual
    <3>3. QED
      BY <3>1, <3>2 DEF Punctual
  <2>9. /\ a \in Nat /\ b \in Nat /\ z \in Nat /\ b <= z
    <3>1. /\ 1 \in 1 .. Len(pcap) /\ i \in 1 .. Len(pcap)
          /\ Len(pcap) \in 1 .. Len(pcap) /\ 1 <= i /\ i <= Len(pcap)
      BY <1>1, <1>3
    <3>2. /\ Ns(pcap[1]) \in Nat /\ Ns(pcap[i]) \in Nat /\ Ns(pcap[Len(pcap)]) \in Nat
          /\ Ns(pcap[Len(pcap)]) >= Ns(pcap[i])
      BY <1>1, <2>8, <3>1, DifferenceInOneSecond
    <3>3. QED
      BY <3>2
  <2> DEFINE s == b - a
             last == z - a
  <2>10. /\ s \in Int /\ last \in Int /\ s <= last /\ last + 12 < CapUsecPerSec
         /\ 32 * leaves[i] < 5 * s + 64
    <3>1. /\ a \in Nat /\ b \in Nat /\ z \in Nat /\ b <= z
          /\ z - a + 12 < CapUsecPerSec /\ 32 * leaves[i] < 5 * (b - a) + 64
      BY <2>8, <2>9
    <3> HIDE DEF a, b, z
    <3>2. s \in Int /\ last \in Int /\ s <= last
      BY <3>1
    <3>3. QED
      BY <3>1, <3>2
  <2> HIDE DEF a, b, z, s, last
  <2>11. leaves[i] = l + c
    BY <2>4
  <2>6. ns \in Nat /\ 5 * ns <= 32 * c /\ 5 * ns >= 32 * c - 5
    <3>1. /\ CapUsecPerSec \in Nat /\ GapRange \in Nat \ {0}
          /\ 5 * CapUsecPerSec <= 32 * GapRange
      BY PathAssumption
    <3>2. 32 * (l + c) < 5 * s + 64
      BY <2>10, <2>11
    <3> HIDE DEF c, l, w
    <3>3. c < GapRange
      BY <2>5, <2>10, <3>1, <3>2, GapFits
    <3>4. c % GapRange = c
      BY <2>5, <3>1, <3>3, RemainderIsNat
    <3>5. w.cycles = c
      BY <2>3, <3>4 DEF c
    <3>6. QED
      BY <2>2, <2>5, <3>5, CutOff
  <2> HIDE DEF c, l, t, w
  <2>12. /\ 5 * (t + ns) <= 32 * (l + c)
         /\ 5 * (t + ns) >= 32 * (l + c) - 5 * n
    BY <1>3, <2>5, <2>6, <2>7, BoundsAdd
  <2>13. t + ns < CapUsecPerSec
    <3>1. t + ns \in Nat /\ l + c \in Nat /\ CapUsecPerSec \in Nat
      BY <2>5, <2>6, PathAssumption
    <3>2. 32 * (l + c) < 5 * s + 64
      BY <2>10, <2>11
    <3>3. QED
      BY <2>10, <2>12, <3>1, <3>2, NoCarry
  <2>14. TimerAdd(now, ns) = [sec |-> now.sec, nsec |-> t + ns]
    <3>1. ~(t + ns >= CapUsecPerSec)
      <4>1. t + ns \in Nat /\ CapUsecPerSec \in Nat
        BY <2>5, <2>6, PathAssumption
      <4>2. QED
        BY <2>13, <4>1
    <3>2. QED
      BY <3>1 DEF TimerAdd, t
  <2>15. ts.sec = 0 /\ ts.nsec = t + ns
    BY <2>2, <2>7, <2>14
  <2>16. i - 1 = n
    BY <1>1, <1>3
  <2>17. QED
    BY <2>11, <2>12, <2>15, <2>16
<1>6. QED
  BY <1>4, <1>5

LEMMA ReadExport ==
  ASSUME TraceInv, Layout, ExportInv, ReadPacket,
         UNCHANGED <<importVars, pathVars>>
  PROVE  ExportInv'
<1> DEFINE n == Len(exported)
           w == memory[xpos + 1]
<1>0. /\ ImportTypes /\ ExportTypes /\ MemoryReady /\ Walk /\ Faithful /\ AllTimely
  BY DEF TraceInv, ExportInv
<1>1. /\ xphase = "loop" /\ xpos < Len(memory) /\ ~w.ones
      /\ xpos' = xpos + 1 + CapWords(CapLen(w))
      /\ UNCHANGED <<xphase, memory, max_caplen>>
  BY DEF ReadPacket
<1>2. UNCHANGED <<phase, pcap, n_pkts, trace, caplen, stored, begins, leaves>>
  BY DEF importVars, pathVars
<1>3. PICK ts \in Stamps(w) :
        /\ now' = ts
        /\ exported' = Append(exported, [ts |-> ts, caplen |-> CapLen(w), len |-> w.len])
  BY DEF ReadPacket
<1> DEFINE p == [ts |-> ts, caplen |-> CapLen(w), len |-> w.len]
<1>4. w \in Word
  <2>1. memory \in Seq(Word) /\ xpos \in Nat
    BY <1>0 DEF ExportTypes
  <2>2. Len(memory) \in Nat
    BY <2>1
  <2>3. xpos + 1 \in 1 .. Len(memory)
    BY <1>1, <2>1, <2>2
  <2>4. QED
    BY <2>1, <2>3
<1>5. ts \in Stamp /\ CapLen(w) \in Nat /\ CapWords(CapLen(w)) \in Nat /\ w.len \in Nat
  BY <1>0, <1>4, StampsAreStamps, CapLenIsNat
<1>6. /\ p \in Packet /\ p.ts = ts /\ p.caplen = CapLen(w) /\ p.len = w.len
  BY <1>5 DEF Packet
<1>7. exported' = Append(exported, p)
  BY <1>3
<1> HIDE DEF p
<1>8. /\ exported' \in Seq(Packet) /\ Len(exported') = n + 1 /\ n \in Nat
      /\ exported'[n + 1] = p /\ \A i \in 1 .. n : exported'[i] = exported[i]
      /\ exported' # <<>>
  <2>1. exported \in Seq(Packet)
    BY <1>0 DEF ExportTypes
  <2>2. /\ exported' \in Seq(Packet) /\ Len(exported') = n + 1 /\ n \in Nat
        /\ exported'[n + 1] = p /\ \A i \in 1 .. n : exported'[i] = exported[i]
    BY <1>6, <1>7, <2>1, Appended
  <2>3. QED
    BY <2>2
<1>9. ExportTypes'
  <2>1. xpos' \in Nat
    BY <1>0, <1>1, <1>5 DEF ExportTypes
  <2>2. QED
    BY <1>0, <1>1, <1>3, <1>5, <1>8, <2>1 DEF ExportTypes
<1>10. MemoryReady'
  BY <1>0, <1>1, <1>2 DEF MemoryReady, Padding, PadWords, MemWord
<1>11. ASSUME Comparable
       PROVE  /\ n + 1 \in 1 .. Len(trace) /\ w.len = trace[n + 1].wire
              /\ CapLen(w) = Captured(trace[n + 1]) /\ xpos' = begins[n + 2]
              /\ n < Len(trace)
  <2>1. n < Len(trace)
    <3>1. n # Len(trace)
      BY <1>0, <1>1, <1>11, AtEnd
    <3>2. QED
      BY <1>0, <1>1, <1>11, <3>1, AtMost
  <2>2. /\ n + 1 \in 1 .. Len(trace) /\ w.len = trace[n + 1].wire
        /\ CapLen(w) = Captured(trace[n + 1])
        /\ xpos + 1 + CapWords(CapLen(w)) = begins[(n + 1) + 1]
    BY <1>0, <1>1, <1>11, <2>1, AtRecord
  <2>3. (n + 1) + 1 = n + 2
    BY <1>8
  <2>4. QED
    BY <1>1, <2>1, <2>2, <2>3
<1>12. Comparable' <=> Comparable
  BY <1>1, <1>2 DEF Comparable
<1>13. Walk'
  <2> SUFFICES ASSUME Comparable
               PROVE  /\ xphase' = "loop" /\ Len(exported') <= Len(trace')
                      /\ xpos' = begins'[Len(exported') + 1]
    BY <1>12 DEF Walk
  <2>1. Len(exported') + 1 = n + 2 /\ n + 1 <= Len(trace)
    BY <1>8, <1>11
  <2>2. QED
    BY <1>1, <1>2, <1>8, <1>11, <2>1
<1>14. Faithful'
  <2> SUFFICES ASSUME Comparable, NEW i \in 1 .. n + 1
               PROVE  /\ exported'[i].len = trace[i].wire
                      /\ exported'[i].caplen = Captured(trace[i])
    BY <1>2, <1>8, <1>12 DEF Faithful, Captured
  <2>1. CASE i = n + 1
    BY <1>6, <1>8, <1>11, <2>1
  <2>2. CASE i # n + 1
    <3>1. i \in 1 .. n
      BY <1>8, <2>2
    <3>2. exported'[i] = exported[i]
      BY <1>8, <3>1
    <3>3. QED
      BY <1>0, <3>1, <3>2 DEF Faithful
  <2>3. QED
    BY <2>1, <2>2
<1>15. AllTimely'
  <2>1. CarryFree' <=> CarryFree
    BY <1>2 DEF CarryFree, InOneSecond, Ns
  <2> SUFFICES ASSUME Comparable, CarryFree
               PROVE  /\ exported' # <<>> /\ now' = exported'[Len(exported')].ts
                      /\ \A i \in 1 .. n + 1 : Timely(i)'
    BY <1>8, <1>12, <2>1 DEF AllTimely
  <2>2. now' = exported'[Len(exported')].ts
    BY <1>3, <1>6, <1>8
  <2>3. ASSUME NEW i \in 1 .. n + 1 PROVE Timely(i)'
    <3>1. CASE i = n + 1
      <4>1. /\ ts.sec = 0 /\ 5 * ts.nsec <= 32 * leaves[n + 1]
            /\ 5 * ts.nsec >= 32 * leaves[n + 1] - 5 * ((n + 1) - 1)
        BY <1>1, <1>3, <1>11, NextStamp
      <4>2. exported'[i].ts = ts
        BY <1>6, <1>8, <3>1
      <4>3. QED
        BY <1>2, <3>1, <4>1, <4>2 DEF Timely
    <3>2. CASE i # n + 1
      <4>1. i \in 1 .. n
        BY <1>8, <3>2
      <4>2. exported'[i] = exported[i]
        BY <1>8, <4>1
      <4>3. Timely(i)
        BY <1>0, <4>1 DEF AllTimely
      <4>4. QED
        BY <1>2, <4>2, <4>3 DEF Timely
    <3>3. QED
      BY <3>1, <3>2
  <2>4. QED
    BY <1>8, <2>2, <2>3
<1>16. QED
  BY <1>9, <1>10, <1>13, <1>14, <1>15 DEF ExportInv

LEMMA EndExport ==
  ASSUME TraceInv, Layout, ExportInv, ExportDone \/ ExportCut,
         UNCHANGED <<importVars, pathVars>>
  PROVE  ExportInv'
<1>0. /\ ImportTypes /\ ExportTypes /\ MemoryReady /\ Walk /\ Faithful /\ AllTimely
  BY DEF TraceInv, ExportInv
<1>1. /\ xphase = "loop" /\ xphase' \in {"done", "error"}
      /\ UNCHANGED <<memory, max_caplen, xpos, now, exported>>
  BY DEF ExportDone, ExportCut
<1>2. UNCHANGED <<phase, pcap, n_pkts, trace, caplen, stored, begins, leaves>>
  BY DEF importVars, pathVars
<1>3. ExportTypes' /\ MemoryReady'
  BY <1>0, <1>1, <1>2 DEF ExportTypes, MemoryReady, Padding, PadWords, MemWord
<1>4. ASSUME Comparable PROVE xphase' = "done" /\ Len(exported) = Len(trace)
  <2>1. CASE Len(exported) < Len(trace)
    <3>1. /\ xpos < Len(memory) /\ ~memory[xpos + 1].ones /\ Fits(memory[xpos + 1])
      BY <1>0, <1>1, <1>4, <2>1, AtRecord
    <3>2. xpos # Len(memory)
      <4>1. xpos \in Nat /\ memory \in Seq(Word)
        BY <1>0 DEF ExportTypes
      <4>2. Len(memory) \in Nat
        BY <4>1
      <4>3. QED
        BY <3>1, <4>1, <4>2
    <3>3. QED
      BY <3>1, <3>2 DEF ExportDone, ExportCut
  <2>2. CASE Len(exported) = Len(trace)
    <3>1. xpos < Len(memory) => memory[xpos + 1].ones
      BY <1>0, <1>1, <1>4, <2>2, AtEnd
    <3>2. ~ExportCut
      BY <3>1 DEF ExportCut
    <3>3. QED
      BY <2>2, <3>2 DEF ExportDone
  <2>3. QED
    BY <1>0, <1>1, <1>4, <2>1, <2>2, AtMost
<1>5. Comparable' <=> Comparable
  BY <1>1, <1>2 DEF Comparable
<1>6. Walk'
  <2> SUFFICES ASSUME Comparable
               PROVE  /\ xphase' = "done" /\ Len(exported') <= Len(trace')
                      /\ xpos' = begins'[Len(exported') + 1]
                      /\ Len(exported') = Len(trace')
    BY <1>5 DEF Walk
  <2>1. Len(exported) <= Len(trace) /\ xpos = begins[Len(exported) + 1]
    BY <1>0, <1>1 DEF Walk
  <2>2. QED
    BY <1>1, <1>2, <1>4, <2>1
<1>7. Faithful'
  BY <1>0, <1>1, <1>2, <1>5 DEF Faithful, Captured
<1>8. AllTimely'
  BY <1>0, <1>1, <1>2, <1>5 DEF AllTimely, CarryFree, InOneSecond, Ns, Timely
<1>9. QED
  BY <1>3, <1>6, <1>7, <1>8 DEF ExportInv

LEMMA StepExport == TraceInv /\ Layout /\ ExportInv /\ [Next]_vars => ExportInv'
<1> SUFFICES ASSUME TraceInv, Layout, ExportInv, [Next]_vars PROVE ExportInv'
  OBVIOUS
<1>0. ImportTypes
  BY DEF TraceInv
<1>1. CASE Import \/ Capture
  BY <1>0, <1>1, BeforeExport
<1>2. CASE StopCapture
  BY <1>2, StopCaptureExport
<1>3. CASE Export
  <2>1. UNCHANGED <<importVars, pathVars>> /\ ExportNext
    BY <1>3 DEF Export
  <2>2. CASE ReadPacket
    BY <2>1, <2>2, ReadExport
  <2>3. CASE ExportDone \/ ExportCut
    BY <2>1, <2>3, EndExport
  <2>4. QED
    BY <2>1, <2>2, <2>3 DEF ExportNext
<1>4. CASE Exited \/ UNCHANGED vars
  <2>1. UNCHANGED <<phase, pcap, n_pkts, trace, caplen, stored, begins, leaves>>
    BY <1>4 DEF Exited, vars, importVars, pathVars
  <2>2. UNCHANGED <<xphase, memory, max_caplen, xpos, now, exported>>
    BY <1>4 DEF Exited, vars, exportVars
  <2>3. ExportTypes' /\ MemoryReady'
    BY <2>1, <2>2 DEF ExportInv, ExportTypes, MemoryReady, Padding, PadWords, MemWord
  <2>4. Walk' /\ Faithful'
    BY <2>1, <2>2 DEF ExportInv, Walk, Faithful, Comparable, Captured
  <2>5. AllTimely'
    BY <2>1, <2>2 DEF ExportInv, AllTimely, Comparable, CarryFree, InOneSecond, Ns, Timely
  <2>6. QED
    BY <2>3, <2>4, <2>5 DEF ExportInv
<1>5. QED
  BY <1>1, <1>2, <1>3, <1>4 DEF Next
-----------------------------------------------------------------------------
LEMMA InitPath == Init => PathInv
BY InitRounds, InitTrace, InitLayout, InitExport DEF PathInv

LEMMA StepPath == PathInv /\ [Next]_vars => PathInv'
<1> SUFFICES ASSUME PathInv, [Next]_vars PROVE PathInv'
  OBVIOUS
<1>1. PcapInv'
  BY StepRounds DEF PathInv
<1>2. TraceInv'
  BY <1>1, StepTrace DEF PathInv
<1>3. Layout'
  BY <1>2, StepLayout DEF PathInv, TraceInv
<1>4. ExportInv'
  BY StepExport DEF PathInv
<1>5. QED
  BY <1>1, <1>2, <1>3, <1>4 DEF PathInv

(* What the trace and its cycles say at every moment of the way, where the *)
(* records lie in the memory and where in it the export program is.        *)
THEOREM PathInvariant == Spec => []PathInv
BY InitPath, StepPath, PTL DEF Spec

(* However many packets a pcap has and whatever its gaps are, the rounding *)
(* of pcap_pkt_handler sends no packet before its time and none two cycles *)
(* late, as long as the packets lie in one second.                         *)
THEOREM ImportKeepsTime == Spec => []TimeIsKept
BY InitRounds, StepRounds, RoundsKeepTime, PTL DEF Spec

(* No pcap, capture length, beat or word size makes the export program     *)
(* lose its place in the memory: it never takes payload or padding for     *)
(* meta data, and it ends behind the last packet, with each packet as the  *)
(* pcap has it.                                                            *)
THEOREM PacketsAreExported == Spec => []PacketsSurvive
<1>1. PathInv => PacketsSurvive
  <2> SUFFICES ASSUME PathInv, Comparable
               PROVE  /\ xphase # "error"
                      /\ xphase = "done" =>
                           /\ Len(exported) = Len(pcap)
                           /\ \A i \in 1 .. Len(pcap) :
                                /\ exported[i].len = pcap[i].len
                                /\ exported[i].caplen =
                                     IF pcap[i].len > caplen THEN caplen ELSE pcap[i].len
    BY DEF PacketsSurvive
  <2>1. /\ ImportTypes /\ OneBehind /\ TraceIsPcap
        /\ MemoryReady /\ Walk /\ Faithful
    BY DEF PathInv, TraceInv, ExportInv
  <2>2. xphase # "error"
    BY <2>1 DEF Walk
  <2>3. ASSUME xphase = "done"
        PROVE  /\ Len(exported) = Len(pcap)
               /\ \A i \in 1 .. Len(pcap) :
                    /\ exported[i].len = pcap[i].len
                    /\ exported[i].caplen =
                         IF pcap[i].len > caplen THEN caplen ELSE pcap[i].len
    <3>1. Len(exported) = Len(trace) /\ phase = "done"
      BY <2>1, <2>3 DEF Walk, MemoryReady
    <3>2. pcap \in Seq(PcapPacket) /\ pcap # <<>>
      BY <2>1, PcapsAssumption DEF ImportTypes, Comparable
    <3>3. Len(pcap) \in Nat /\ Len(pcap) > 0
      BY <3>2
    <3>4. n_pkts > 0 /\ Len(trace) = Len(pcap)
      BY <2>1, <3>1, <3>3 DEF OneBehind
    <3>5. \A i \in 1 .. Len(pcap) : trace[i].wire = pcap[i].len
      BY <2>1, <3>4 DEF TraceIsPcap
    <3>6. \A i \in 1 .. Len(pcap) : /\ exported[i].len = trace[i].wire
                                    /\ exported[i].caplen = Captured(trace[i])
      BY <2>1, <3>1, <3>4 DEF Faithful
    <3>7. QED
      BY <3>1, <3>4, <3>5, <3>6 DEF Captured
  <2>4. QED
    BY <2>2, <2>3
<1>2. QED
  BY <1>1, PathInvariant, PTL

(* From the pcap through import, replay, capture and export, with two      *)
(* rounding programs on the way: no time comes out more than 12 ns late,   *)
(* nor earlier than by a nanosecond for each packet before it.             *)
THEOREM TimesAreExported == Spec => []TimesAgree
<1>1. PathInv => TimesAgree
  <2> SUFFICES ASSUME PathInv, xphase = "done", Comparable, CarryFree,
                      NEW i \in 1 .. Len(pcap)
               PROVE  Ns(exported[i].ts) \in Ns(pcap[i]) - Ns(pcap[1]) - (i - 1)
                                               .. Ns(pcap[i]) - Ns(pcap[1]) + 12
    BY DEF TimesAgree
  <2>1. /\ ImportTypes /\ OneBehind /\ AllPunctual
        /\ ExportTypes /\ MemoryReady /\ Walk /\ AllTimely
    BY DEF PathInv, TraceInv, ExportInv
  <2>2. pcap \in Seq(PcapPacket) /\ Len(pcap) \in Nat /\ InOneSecond(pcap)
    BY <2>1, PcapsAssumption DEF ImportTypes, CarryFree
  <2>3. Len(exported) = Len(trace) /\ phase = "done"
    BY <2>1 DEF Walk, MemoryReady
  <2>4. n_pkts = Len(pcap) /\ Len(trace) = n_pkts
    BY <2>1, <2>2, <2>3 DEF OneBehind
  <2>5. Punctual(i) /\ Timely(i)
    BY <2>1, <2>2, <2>3, <2>4 DEF AllPunctual, AllTimely
  <2>6. Ns(pcap[1]) \in Nat /\ Ns(pcap[i]) \in Nat
    <3>1. 1 \in 1 .. Len(pcap) /\ i \in 1 .. Len(pcap) /\ 1 <= i
      BY <2>2
    <3>2. QED
      BY <2>2, <3>1, DifferenceInOneSecond
  <2> DEFINE a == Ns(pcap[1])
             b == Ns(pcap[i])
             l == leaves[i]
             t == exported[i].ts.nsec
  <2>7. l \in Nat /\ t \in Nat /\ exported[i].ts \in Stamp
    <3>1. leaves \in Seq(Nat) /\ Len(leaves) = Len(pcap)
      BY <2>1, <2>4 DEF ImportTypes
    <3>2. exported \in Seq(Packet) /\ Len(exported) = Len(pcap)
      BY <2>1, <2>3, <2>4 DEF ExportTypes
    <3>3. exported[i] \in Packet
      BY <3>2
    <3>4. exported[i].ts \in Stamp
      BY <3>3 DEF Packet
    <3>5. t \in Nat
      BY <3>4 DEF Stamp
    <3>6. l \in Nat
      BY <3>1
    <3>7. QED
      BY <3>4, <3>5, <3>6
  <2>8. Ns(exported[i].ts) = t
    <3>1. exported[i].ts.sec = 0
      BY <2>5 DEF Timely
    <3>2. SecNs \in Nat
      BY ImportAssumption
    <3>3. 0 * SecNs = 0
      BY <3>2
    <3>4. QED
      BY <2>7, <3>1, <3>3 DEF Ns
  <2>9. /\ a \in Nat /\ b \in Nat
        /\ 5 * (b - a) <= 32 * l /\ 32 * l < 5 * (b - a) + 64
        /\ 5 * t <= 32 * l /\ 5 * t >= 32 * l - 5 * (i - 1)
    BY <2>5, <2>6 DEF Punctual, Timely
  <2> HIDE DEF a, b, l, t
  <2>10. t >= b - a - (i - 1) /\ t <= b - a + 12
    BY <2>7, <2>9
  <2>11. t \in b - a - (i - 1) .. b - a + 12
    BY <2>7, <2>9, <2>10
  <2>12. QED
    BY <2>8, <2>11 DEF a, b
<1>2. QED
  BY <1>1, PathInvariant, PTL
=============================================================================
