------------------------------- MODULE Ranges -------------------------------
(***************************************************************************)
(* CIDR ranges and the sets built from them (net.go, scan.go).  An address *)
(* is a pair of family and number; a range gives an address in it and the  *)
(* length of the prefix.  The IPv4 loop counts in machine words, the IPv6  *)
(* loop in integers of any size.                                           *)
(***************************************************************************)
EXTENDS Integers, Sequences, SequencesExt

CONSTANTS
    Width,          \* bits of an address: 32, or 128 for IPv6
    MaxHostBits,    \* 8: IPv6 ranges of more host bits are not enumerated
    NoCIDR          \* what net.ParseCIDR does not parse

Word == 2 ^ Width
CIDRs == [family : {"v4", "v6"}, addr : 0..(Word - 1), ones : 0..Width]

\* The addresses a range covers.
Size(c) == 2 ^ (Width - c.ones)
Lowest(c) == (c.addr \div Size(c)) * Size(c)
Highest(c) == Lowest(c) + Size(c) - 1
Covered(c) == {<<c.family, a>> : a \in Lowest(c)..Highest(c)}

\* The addresses from lo to hi in order, none if lo > hi.
FromTo(family, lo, hi) == [i \in 1..((hi + 1) - lo) |-> <<family, lo + i - 1>>]

\* start+1 and finish-1 are words; the loop ends because finish-1 is not the
\* greatest one, which NoWrap says.
CreateHostRangeV4(c) == FromTo("v4", (Lowest(c) + 1) % Word, (Highest(c) + Word - 1) % Word)

CreateHostRangeV6(c) ==
    IF Width - c.ones > MaxHostBits \/ Size(c) =< 2 THEN <<>>
    ELSE FromTo("v6", Lowest(c) + 1, Highest(c) - 1)

CreateHostRange(c) ==
    CASE c = NoCIDR -> <<>>
      [] c # NoCIDR /\ c.family = "v4" -> CreateHostRangeV4(c)
      [] OTHER -> CreateHostRangeV6(c)

\* The single IPv4 addresses 0 and Word-1 as ranges: with the first the loop
\* never ends, with the second it yields every other address there is.
NoWrap(c) ==
    c # NoCIDR => ~(c.family = "v4" /\ c.ones = Width /\ c.addr \in {0, Word - 1})

\* The exclusions: addresses, and ranges of which the hosts are excluded.
buildExcludeSet(ranges, addrs) == addrs \cup UNION {ToSet(CreateHostRange(c)) : c \in ranges}

-----------------------------------------------------------------------------
\* What the enumeration is to yield, stated without the loops: the addresses
\* strictly between the first and the last of the range, in order.
Inside(c) ==
    IF c = NoCIDR \/ (c.family = "v6" /\ Width - c.ones > MaxHostBits) THEN {}
    ELSE Covered(c) \ {<<c.family, Lowest(c)>>, <<c.family, Highest(c)>>}

InOrder(s) == \A i, j \in 1..Len(s) : i < j => s[i][2] < s[j][2]

HostRangeCorrect ==
    \A c \in CIDRs \cup {NoCIDR} :
        NoWrap(c) => LET s == CreateHostRange(c) IN InOrder(s) /\ ToSet(s) = Inside(c)

ASSUME RangesAssumption ==
    /\ Width \in Nat \ {0}
    /\ MaxHostBits \in 0..Width
    /\ NoCIDR \notin CIDRs
=============================================================================
