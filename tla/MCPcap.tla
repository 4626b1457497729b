------------------------------- MODULE MCPcap -------------------------------
(* Instances of PcapPath: a second of 4000 ns that carries at 1000 in place *)
(* of a million.                                                            *)
EXTENDS PcapPath

Sizes == {<<3, 3>>, <<8, 8>>, <<5, 12>>, <<0, 4>>, <<17, 17>>, <<30, 30>>}

At(ns, size) ==
  [sec |-> ns \div SecNs, nsec |-> ns % SecNs, caplen |-> size[1], len |-> size[2]]

(* Pcaps of up to four packets at increasing times.                         *)
AtTimes(times, sizes) == {[i \in 1 .. Len(times) |-> At(times[i], s[i])] :
                            s \in [1 .. Len(times) -> sizes]}

Gaps == {0, 1, 7, 32, 50, 201}

ShortPcaps ==
  {<<>>}
    \cup UNION {AtTimes(<<100>>, Sizes)}
    \cup UNION {AtTimes(<<100, 100 + g>>, Sizes) : g \in Gaps}
    \cup UNION {AtTimes(<<100, 100 + g, 100 + g + h>>, {<<8, 8>>, <<5, 12>>}) :
                  g, h \in Gaps}
    \cup UNION {AtTimes(<<100, 100 + g, 100 + g + h, 100 + g + h + k>>, {<<3, 3>>}) :
                  g, h, k \in Gaps}

(* Gaps that end in the next second.                                        *)
LongPcaps ==
  UNION {AtTimes(<<100, t>>, {<<8, 8>>}) : t \in {950, 3990, 4010, 4100}}
    \cup UNION {AtTimes(<<3990, t>>, {<<8, 8>>}) : t \in {3999, 4005, 4100}}
    \cup UNION {AtTimes(<<3000 + 10 * k, 4000 + k>>, Sizes) : k \in 1 .. 30}

MCPcaps == ShortPcaps \cup LongPcaps
=============================================================================
