-------------------------- MODULE RangeScanProofs --------------------------
(***************************************************************************)
(* Ranges of any width and the scans of them.  First the enumeration: the  *)
(* arithmetic of powers of two and of words gives what CreateHostRange     *)
(* yields.  Then the loop: LoopInv says which hosts have been tried when   *)
(* it stands at a given index.  Last the interface: LinkInv says how it    *)
(* stands at each point of the call; as long as the call has not returned  *)
(* no command has failed, for a failed one ends the call.                  *)
(***************************************************************************)
EXTENDS RangeScan, FiniteSetTheorems, SequenceTheorems, TLAPS

\* A power of two is the number of subsets of a set.
LEMMA Pow2Type == ASSUME NEW n \in Nat PROVE 2^n \in Nat \ {0} /\ Cardinality(SUBSET (1..n)) = 2^n /\ IsFiniteSet(SUBSET (1..n))
<1>1. IsFiniteSet(1..n) /\ Cardinality(1..n) = n
  BY FS_Interval
<1>2. IsFiniteSet(SUBSET (1..n)) /\ Cardinality(SUBSET (1..n)) = 2^n
  BY <1>1, FS_SUBSET
<1>3. 2^n \in Nat
  BY <1>2, FS_CardinalityType
<1>4. SUBSET (1..n) # {}
  OBVIOUS
<1>5. 2^n # 0
  BY <1>2, <1>4, FS_EmptySet
<1>. QED BY <1>2, <1>3, <1>5

\* Subsets of n + m elements are pairs of subsets of n and of m.
LEMMA Pow2Sum == ASSUME NEW n \in Nat, NEW m \in Nat PROVE 2^(n + m) = 2^n * 2^m
<1>. DEFINE S == 1..n
            T == (n + 1)..(n + m)
            A == (SUBSET S) \X (SUBSET T)
            f == [p \in A |-> p[1] \cup p[2]]
<1>1. IsFiniteSet(S) /\ Cardinality(S) = n /\ IsFiniteSet(T) /\ Cardinality(T) = m
  BY FS_Interval
<1>2. S \cup T = 1..(n + m) /\ S \cap T = {}
  OBVIOUS
<1>3. /\ IsFiniteSet(SUBSET S) /\ Cardinality(SUBSET S) = 2^n
      /\ IsFiniteSet(SUBSET T) /\ Cardinality(SUBSET T) = 2^m
  BY <1>1, FS_SUBSET
<1>4. IsFiniteSet(A) /\ Cardinality(A) = 2^n * 2^m
  BY <1>3, FS_Product
<1>5. Cardinality(SUBSET (S \cup T)) = 2^(n + m)
  BY <1>2, Pow2Type
<1>. HIDE DEF S, T
<1>6. f \in [A -> SUBSET (S \cup T)]
  OBVIOUS
<1>7. ASSUME NEW p \in A, NEW q \in A, f[p] = f[q] PROVE p = q
  <2>1. p[1] \cup p[2] = q[1] \cup q[2] /\ p = <<p[1], p[2]>> /\ q = <<q[1], q[2]>>
    BY <1>7
  <2>2. p[1] = q[1] 
    <3>1. p[1] \subseteq S /\ q[1] \subseteq S /\ p[2] \subseteq T /\ q[2] \subseteq T 
       OBVIOUS
    <3>. QED BY <1>2, <2>1, <3>1
  <2>3. p[2] = q[2]
    <3>1. p[1] \subseteq S /\ q[1] \subseteq S /\ p[2] \subseteq T /\ q[2] \subseteq T 
       OBVIOUS
    <3>. QED BY <1>2, <2>1, <3>1
  <2>. QED BY <2>1, <2>2, <2>3
<1>8. ASSUME NEW U \in SUBSET (S \cup T) PROVE \E p \in A : f[p] = U
  <2>1. <<U \cap S, U \cap T>> \in A /\ (U \cap S) \cup (U \cap T) = U
    OBVIOUS
  <2>. QED BY <2>1
<1>9. f \in Bijection(A, SUBSET (S \cup T))
  BY <1>6, <1>7, <1>8 DEF Bijection, Injection, Surjection, IsInjective
<1>10. ExistsBijection(A, SUBSET (S \cup T))
  BY <1>9 DEF ExistsBijection
<1>11. Cardinality(SUBSET (S \cup T)) = Cardinality(A)
  BY <1>4, <1>10, FS_Bijection
<1>. QED BY <1>4, <1>5, <1>11

LEMMA Division ==
    ASSUME NEW a \in Nat, NEW s \in Nat \ {0}
    PROVE  a \div s \in Nat /\ (a \div s) * s =< a /\ a < (a \div s) * s + s
<1>1. a \div s \in Int /\ a % s \in 0..(s - 1) /\ a = s * (a \div s) + (a % s)
      OBVIOUS
<1>. QED BY <1>1

LEMMA RangeBounds ==
    ASSUME NEW c \in CIDRs
    PROVE  /\ Size(c) \in Nat \ {0} /\ Word \in Nat \ {0}
           /\ Lowest(c) \in Nat /\ Highest(c) \in Nat
           /\ Lowest(c) =< c.addr /\ c.addr =< Highest(c)
           /\ Highest(c) = Lowest(c) + Size(c) - 1 /\ Highest(c) < Word
<1>. DEFINE S == Size(c)
            K == 2 ^ c.ones
            q == c.addr \div S
<1>1. /\ c.ones \in Nat /\ Width - c.ones \in Nat /\ c.addr \in 0..(Word - 1) /\ Width \in Nat
      BY RangesAssumption DEF CIDRs
<1>2. S \in Nat \ {0} /\ K \in Nat \ {0} /\ Word \in Nat \ {0}
      BY <1>1, Pow2Type DEF Size, Word
<1>3. Word = K * S
      <2>1. c.ones + (Width - c.ones) = Width
            BY <1>1
      <2>. QED BY <1>1, <2>1, Pow2Sum DEF Size, Word
<1>. HIDE DEF S, K
<1>4. q \in Nat /\ q * S =< c.addr /\ c.addr < q * S + S
      BY <1>1, <1>2, Division
<1>. HIDE DEF q
<1>5. q < K
      <2>. SUFFICES ASSUME K =< q PROVE FALSE
            BY <1>2, <1>4
      <2>1. K * S =< q * S
            BY <1>2, <1>4
      <2>2. q * S \in Nat /\ K * S \in Nat
            BY <1>2, <1>4
      <2>. QED BY <1>1, <1>2, <1>3, <1>4, <2>1, <2>2
<1>6. (q + 1) * S =< K * S
      BY <1>2, <1>4, <1>5
<1>7. (q + 1) * S = q * S + S /\ q * S \in Nat
      BY <1>2, <1>4
<1>8. Lowest(c) = q * S /\ Highest(c) = q * S + S - 1
      BY DEF Lowest, Highest, S, q
<1>. QED BY <1>1, <1>2, <1>3, <1>4, <1>6, <1>7, <1>8 DEF S

LEMMA FromToElements ==
    ASSUME NEW f, NEW lo \in Int, NEW hi \in Int
    PROVE  LET s == FromTo(f, lo, hi) IN
           /\ s \in Seq({<<f, a>> : a \in lo..hi})
           /\ Len(s) = (IF hi < lo THEN 0 ELSE hi - lo + 1)
           /\ \A i \in 1..Len(s) : s[i] = <<f, lo + i - 1>>
<1>. DEFINE A == {<<f, a>> : a \in lo..hi}
            n == IF hi < lo THEN 0 ELSE hi - lo + 1
            g == [i \in 1..n |-> <<f, lo + i - 1>>]
<1>1. n \in Nat /\ 1..((hi + 1) - lo) = 1..n
      OBVIOUS
<1>2. FromTo(f, lo, hi) = g
      BY <1>1 DEF FromTo
<1>3. \A i \in 1..n : <<f, lo + i - 1>> \in A
      OBVIOUS
<1>4. g \in Seq(A) /\ Len(g) = n
      BY <1>1, <1>3
<1>5. \A i \in 1..n : g[i] = <<f, lo + i - 1>>
      OBVIOUS
<1>. HIDE DEF g, n
<1>. QED BY <1>2, <1>4, <1>5 DEF n

\* The elements of the loop from lo to hi, in its order.
LEMMA FromToInOrder ==
    ASSUME NEW f, NEW lo \in Int, NEW hi \in Int
    PROVE  InOrder(FromTo(f, lo, hi)) /\ ToSet(FromTo(f, lo, hi)) = {<<f, a>> : a \in lo..hi}
<1>. DEFINE s == FromTo(f, lo, hi)
            A == {<<f, a>> : a \in lo..hi}
<1>1. /\ s \in Seq(A) /\ Len(s) = (IF hi < lo THEN 0 ELSE hi - lo + 1)
      /\ \A i \in 1..Len(s) : s[i] = <<f, lo + i - 1>>
      BY FromToElements
<1>. HIDE DEF s
<1>2. \A i \in 1..Len(s) : s[i][2] = lo + i - 1
      BY <1>1
<1>3. InOrder(s)
      BY <1>1, <1>2 DEF InOrder
<1>4. DOMAIN s = 1..Len(s)
      BY <1>1
<1>5. ToSet(s) \subseteq A
      BY <1>1, <1>4 DEF ToSet
<1>6. ASSUME NEW a \in lo..hi PROVE <<f, a>> \in ToSet(s)
      <2>1. a - lo + 1 \in 1..Len(s) /\ lo + (a - lo + 1) - 1 = a
            BY <1>1
      <2>2. s[a - lo + 1] = <<f, a>>
            BY <1>1, <2>1
      <2>. QED BY <1>4, <2>1, <2>2 DEF ToSet
<1>7. A \subseteq ToSet(s)
      BY <1>6
<1>8. ToSet(s) = A
      BY <1>5, <1>7
<1>. QED BY <1>3, <1>8 DEF s

\* What is left of a range without its first and its last address.
LEMMA InsideIs ==
    ASSUME NEW c \in CIDRs, ~(c.family = "v6" /\ Width - c.ones > MaxHostBits)
    PROVE  Inside(c) = {<<c.family, a>> : a \in (Lowest(c) + 1)..(Highest(c) - 1)}
<1>1. c # NoCIDR
      BY RangesAssumption
<1>2. Inside(c) = {<<c.family, a>> : a \in Lowest(c)..Highest(c)} \ {<<c.family, Lowest(c)>>, <<c.family, Highest(c)>>}
      BY <1>1 DEF Inside, Covered
<1>3. Lowest(c) \in Nat /\ Highest(c) \in Nat
      BY RangeBounds
<1>4. ASSUME NEW x PROVE x \in Inside(c) <=> \E a \in (Lowest(c) + 1)..(Highest(c) - 1) : x = <<c.family, a>>
      <2>1. ASSUME x \in Inside(c) PROVE \E a \in (Lowest(c) + 1)..(Highest(c) - 1) : x = <<c.family, a>>
            <3>1. PICK a \in Lowest(c)..Highest(c) : x = <<c.family, a>>
                  BY <1>2, <2>1
            <3>2. a # Lowest(c) /\ a # Highest(c)
                  BY <1>2, <2>1, <3>1
            <3>3. a \in (Lowest(c) + 1)..(Highest(c) - 1)
                  BY <1>3, <3>2
            <3>. QED BY <3>1, <3>3
      <2>2. ASSUME NEW a \in (Lowest(c) + 1)..(Highest(c) - 1), x = <<c.family, a>> PROVE x \in Inside(c)
            <3>1. a \in Lowest(c)..Highest(c) /\ a # Lowest(c) /\ a # Highest(c)
                  BY <1>3
            <3>2. x # <<c.family, Lowest(c)>> /\ x # <<c.family, Highest(c)>>
                  BY <2>2, <3>1
            <3>. QED BY <1>2, <2>2, <3>1, <3>2
      <2>. QED BY <2>1, <2>2
<1>. QED BY <1>4

\* Adding a word's worth changes no word.
LEMMA WordWraps ==
    ASSUME NEW w \in Nat \ {0}, NEW a \in 0..(w - 1)
    PROVE  a % w = a /\ (a + w) % w = a
<1>. DEFINE q == (a + w) \div w
            r == (a + w) % w
<1>1. q \in Int /\ r \in 0..(w - 1) /\ a + w = w * q + r
      OBVIOUS
<1>2. a % w = a
      OBVIOUS
<1>. HIDE DEF q, r
<1>3. q > 0
      <2>. SUFFICES ASSUME q =< 0 PROVE FALSE
            BY <1>1
      <2>1. w * q =< 0
            BY <1>1
      <2>. QED BY <1>1, <2>1
<1>4. q < 2
      <2>. SUFFICES ASSUME q >= 2 PROVE FALSE
            BY <1>1
      <2>1. w * q >= w * 2
            BY <1>1
      <2>. QED BY <1>1, <2>1
<1>5. q = 1
      BY <1>1, <1>3, <1>4
<1>6. r = a
      BY <1>1, <1>5
<1>. QED BY <1>2, <1>6 DEF r

\* A single address is not the first or the last one there is, so neither end
\* of the IPv4 loop wraps around.
LEMMA RangeV4 ==
    ASSUME NEW c \in CIDRs, NoWrap(c), c.family = "v4"
    PROVE  CreateHostRangeV4(c) = FromTo("v4", Lowest(c) + 1, Highest(c) - 1)
<1>. DEFINE L == Lowest(c)
            H == Highest(c)
            W == Word
<1>0. /\ L \in Nat /\ H \in Nat /\ W \in Nat \ {0} /\ L =< c.addr /\ c.addr =< H /\ H < W
      /\ Size(c) \in Nat \ {0} /\ H = L + Size(c) - 1
      BY RangeBounds
<1>1. CreateHostRangeV4(c) = FromTo("v4", (L + 1) % W, (H + W - 1) % W)
      BY DEF CreateHostRangeV4
<1>2. Size(c) = 1 => c.addr \notin {0, W - 1}
      <2>. SUFFICES ASSUME Size(c) = 1 PROVE c.addr \notin {0, W - 1}
            OBVIOUS
      <2>1. c.ones = Width
            <3>. SUFFICES ASSUME c.ones < Width PROVE FALSE
                  BY RangesAssumption DEF CIDRs
            <3>1. Width - c.ones - 1 \in Nat /\ 1 + (Width - c.ones - 1) = Width - c.ones
                  BY RangesAssumption DEF CIDRs
            <3>2. Size(c) = 2 ^ 1 * 2 ^ (Width - c.ones - 1)
                  BY <3>1, Pow2Sum DEF Size
            <3>3. 2 ^ (Width - c.ones - 1) \in Nat \ {0}
                  BY <3>1, Pow2Type
            <3>4. 2 ^ 1 = 2
                  OBVIOUS
            <3>. QED BY <3>2, <3>3, <3>4
      <2>2. c # NoCIDR
            BY RangesAssumption
      <2>. QED BY <2>1, <2>2 DEF NoWrap
<1>. HIDE DEF L, H, W
<1>3. H - 1 \in 0..(W - 1) /\ L + 1 \in 0..(W - 1)
      <2>1. c.addr \in Nat /\ Size(c) \in Nat \ {0}
            BY <1>0, RangesAssumption DEF CIDRs, Word
      <2>2. CASE Size(c) = 1
            BY <1>0, <1>2, <2>1, <2>2
      <2>3. CASE Size(c) # 1
            BY <1>0, <2>1, <2>3
      <2>. QED BY <2>2, <2>3
<1>4. (L + 1) % W = L + 1 /\ ((H - 1) + W) % W = H - 1
      BY <1>0, <1>3, WordWraps
<1>5. H + W - 1 = (H - 1) + W
      BY <1>0
<1>. QED BY <1>1, <1>4, <1>5 DEF L, H

\* CreateHostRange yields each address strictly inside the range once and in
\* order, and no other, whatever the width of an address (net.go:90-134).  The
\* two single IPv4 addresses that NoWrap names are excepted.
THEOREM HostsOfRange == HostRangeCorrect
<1>. SUFFICES ASSUME NEW c \in CIDRs \cup {NoCIDR}, NoWrap(c)
              PROVE  InOrder(CreateHostRange(c)) /\ ToSet(CreateHostRange(c)) = Inside(c)
      BY DEF HostRangeCorrect
<1>0. InOrder(<<>>) /\ ToSet(<<>>) = {}
      BY DEF InOrder, ToSet
<1>1. CASE c = NoCIDR
      BY <1>0, <1>1 DEF CreateHostRange, Inside
<1>2. CASE c \in CIDRs
      <2>. USE <1>2
      <2>1. c # NoCIDR /\ c.family \in {"v4", "v6"}
            BY RangesAssumption DEF CIDRs
      <2>2. /\ Lowest(c) \in Nat /\ Highest(c) \in Nat
            /\ Size(c) \in Nat /\ Highest(c) = Lowest(c) + Size(c) - 1
            BY RangeBounds
      <2>. DEFINE s == FromTo(c.family, Lowest(c) + 1, Highest(c) - 1)
      <2>3. InOrder(s) /\ ToSet(s) = {<<c.family, a>> : a \in (Lowest(c) + 1)..(Highest(c) - 1)}
            BY <2>2, FromToInOrder
      <2>4. CASE c.family = "v4"
            <3>1. CreateHostRange(c) = s
                  BY <2>1, <2>4, RangeV4 DEF CreateHostRange
            <3>2. Inside(c) = ToSet(s)
                  BY <2>3, <2>4, InsideIs
            <3>. QED BY <2>3, <3>1, <3>2
      <2>5. CASE c.family = "v6" /\ Width - c.ones > MaxHostBits
            <3>1. CreateHostRange(c) = <<>> /\ Inside(c) = {}
                  BY <2>1, <2>5 DEF CreateHostRange, CreateHostRangeV6, Inside
            <3>. QED BY <1>0, <3>1
      <2>6. CASE c.family = "v6" /\ ~(Width - c.ones > MaxHostBits)
            <3>1. Inside(c) = ToSet(s)
                  BY <2>3, <2>6, InsideIs
            <3>2. CASE Size(c) =< 2
                  <4>1. CreateHostRange(c) = <<>>
                        BY <2>1, <2>6, <3>2 DEF CreateHostRange, CreateHostRangeV6
                  <4>2. (Lowest(c) + 1)..(Highest(c) - 1) = {}
                        BY <2>2, <3>2
                  <4>3. Inside(c) = {}
                        BY <2>3, <3>1, <4>2
                  <4>. QED BY <1>0, <4>1, <4>3
            <3>3. CASE ~(Size(c) =< 2)
                  <4>1. CreateHostRange(c) = s
                        BY <2>1, <2>6, <3>3 DEF CreateHostRange, CreateHostRangeV6
                  <4>. QED BY <2>3, <3>1, <4>1
            <3>. QED BY <3>2, <3>3
      <2>. QED BY <2>1, <2>4, <2>5, <2>6
<1>. QED BY <1>1, <1>2

\* What is enumerated is a sequence of addresses.
LEMMA HostRangeType ==
    ASSUME NEW c \in CIDRs \cup {NoCIDR}, NoWrap(c)
    PROVE  CreateHostRange(c) \in Seq({"v4", "v6"} \X Int)
<1>1. \A f \in {"v4", "v6"}, lo, hi \in Int : FromTo(f, lo, hi) \in Seq({"v4", "v6"} \X Int)
      <2>. SUFFICES ASSUME NEW f \in {"v4", "v6"}, NEW lo \in Int, NEW hi \in Int
                    PROVE  FromTo(f, lo, hi) \in Seq({"v4", "v6"} \X Int)
            OBVIOUS
      <2>1. FromTo(f, lo, hi) \in Seq({<<f, a>> : a \in lo..hi})
            BY FromToElements
      <2>2. {<<f, a>> : a \in lo..hi} \subseteq {"v4", "v6"} \X Int
            OBVIOUS
      <2>. QED BY <2>1, <2>2
<1>2. CASE c = NoCIDR
      BY <1>2 DEF CreateHostRange
<1>3. CASE c \in CIDRs
      <2>1. c # NoCIDR /\ c.family \in {"v4", "v6"}
            BY <1>3, RangesAssumption DEF CIDRs
      <2>2. Lowest(c) + 1 \in Int /\ Highest(c) - 1 \in Int
            BY <1>3, RangeBounds
      <2>3. CASE c.family = "v4"
            <3>1. CreateHostRange(c) = FromTo("v4", Lowest(c) + 1, Highest(c) - 1)
                  BY <1>3, <2>1, <2>3, RangeV4 DEF CreateHostRange
            <3>. QED BY <1>1, <2>2, <3>1
      <2>4. CASE c.family = "v6"
            BY <1>1, <2>1, <2>2, <2>4 DEF CreateHostRange, CreateHostRangeV6
      <2>. QED BY <2>1, <2>3, <2>4
<1>. QED BY <1>2, <1>3
-----------------------------------------------------------------------------
(* The loop over the hosts. *)

Addresses == {"v4", "v6"} \X Int

\* The index of the last host that the loop has looked at.
Seen == IF pc = "scan" THEN next ELSE next - 1

\* The indices of the hosts that it does not skip.
Due == {i \in 1..Len(hosts) : ~Skips(hosts[i])}

\* What the loop has done when it stands at an index: the hosts before it have
\* been tried except those it skips, and those with a result are among them.
LoopInv ==
    /\ TypeOK
    /\ InOrder(tried)
    /\ ToSet(tried) = {hosts[i] : i \in Due \cap (1..Seen)}
    /\ InOrder(results)
    /\ ToSet(results) \subseteq ToSet(tried) \cap {hosts[i] : i \in 1..(next - 1)}
    /\ pc \in {"start", "loop", "scan"} => doing = "spoof"
    /\ doing = "spoof" /\ pc # "returned" => err = "nil"
    /\ doing = "restore" /\ err = "nil" => next > Len(hosts) /\ pc # "scan"
    /\ pc = "returned" /\ err = "nil" => doing = "restore"
    /\ err = "context" => ctxDone

\* The hosts of the call: addresses in order, those inside the range.
LEMMA HostsAre ==
    ASSUME cidr \in Calls \cup LocalRanges, hosts = CreateHostRange(cidr)
    PROVE  /\ hosts \in Seq(Addresses) /\ InOrder(hosts) /\ ToSet(hosts) = Inside(cidr)
           /\ \A i \in 1..Len(hosts) : hosts[i] \in ToSet(hosts)
<1>1. cidr \in CIDRs \cup {NoCIDR} /\ NoWrap(cidr)
      BY RangeAssumption
<1>2. hosts \in Seq(Addresses) /\ InOrder(hosts) /\ ToSet(hosts) = Inside(cidr)
      BY <1>1, HostRangeType, HostsOfRange DEF HostRangeCorrect, Addresses
<1>. QED BY <1>2 DEF ToSet

\* The hosts a call does try, as the code has it: ScanRange excludes none.
Targets == {h \in Inside(cidr) :
               \/ call = "ScanRange"
               \/ h \notin ExcludeAddrs /\ \A c \in ExcludeRanges : h \notin Inside(c)}

\* A host is skipped when it is no target, and only then.
LEMMA SkipsOthers ==
    ASSUME call \in {"ScanCIDR", "ScanRange"}, NEW h \in Inside(cidr)
    PROVE  Skips(h) <=> h \notin Targets
<1>1. \A c \in ExcludeRanges : ToSet(CreateHostRange(c)) = Inside(c)
      BY RangeAssumption, HostsOfRange DEF HostRangeCorrect
<1>2. h \in buildExcludeSet(ExcludeRanges, ExcludeAddrs)
      <=> h \in ExcludeAddrs \/ \E c \in ExcludeRanges : h \in Inside(c)
      BY <1>1 DEF buildExcludeSet
<1>. QED BY <1>2 DEF Skips, Targets

\* One more address at the end.
LEMMA AppendAddress ==
    ASSUME NEW S \in SUBSET Addresses, NEW s \in Seq(S), InOrder(s), NEW x \in S,
           \A y \in ToSet(s) : y[2] < x[2]
    PROVE  /\ Append(s, x) \in Seq(S) /\ InOrder(Append(s, x))
           /\ ToSet(Append(s, x)) = ToSet(s) \cup {x}
           /\ Append(s, x) # <<>> /\ Append(s, x)[Len(Append(s, x))] = x
<1>. DEFINE t == Append(s, x)
<1>1. /\ t \in Seq(S) /\ Len(t) = Len(s) + 1 /\ Len(s) \in Nat
      /\ \A i \in 1..Len(s) : t[i] = s[i]
      /\ t[Len(s) + 1] = x
      BY AppendProperties
<1>. HIDE DEF t
<1>2. DOMAIN s = 1..Len(s) /\ DOMAIN t = 1..Len(t)
      BY <1>1
<1>3. \A i \in 1..Len(s) : s[i] \in ToSet(s) /\ s[i] \in S
      BY <1>2 DEF ToSet
<1>4. InOrder(t)
      <2>. SUFFICES ASSUME NEW i \in 1..Len(t), NEW j \in 1..Len(t), i < j
                    PROVE  t[i][2] < t[j][2]
            BY DEF InOrder
      <2>1. i \in 1..Len(s) /\ t[i] = s[i]
            BY <1>1
      <2>2. CASE j = Len(s) + 1
            BY <1>1, <1>3, <2>1, <2>2
      <2>3. CASE j # Len(s) + 1
            <3>1. j \in 1..Len(s) /\ t[j] = s[j]
                  BY <1>1, <2>3
            <3>. QED BY <2>1, <3>1 DEF InOrder
      <2>. QED BY <2>2, <2>3
<1>5. ToSet(t) = ToSet(s) \cup {x}
      <2>1. ASSUME NEW y \in ToSet(t) PROVE y \in ToSet(s) \cup {x}
            <3>1. PICK i \in 1..Len(t) : y = t[i]
                  BY <1>2 DEF ToSet
            <3>2. i \in 1..Len(s) \/ i = Len(s) + 1
                  BY <1>1
            <3>. QED BY <1>1, <1>3, <3>1, <3>2
      <2>2. ASSUME NEW i \in 1..Len(s) PROVE s[i] \in ToSet(t)
            <3>1. i \in 1..Len(t) /\ t[i] = s[i]
                  BY <1>1
            <3>. QED BY <1>2, <3>1 DEF ToSet
      <2>3. x \in ToSet(t)
            <3>1. Len(t) \in 1..Len(t) /\ t[Len(t)] = x
                  BY <1>1
            <3>. QED BY <1>2, <3>1 DEF ToSet
      <2>4. ToSet(s) \subseteq ToSet(t)
            BY <1>2, <2>2 DEF ToSet
      <2>. QED BY <2>1, <2>3, <2>4
<1>6. t # <<>> /\ t[Len(t)] = x
      BY <1>1
<1>. QED BY <1>1, <1>4, <1>5, <1>6 DEF t

LEMMA LoopInit == Init => LoopInv
<1>. SUFFICES ASSUME Init PROVE LoopInv
     OBVIOUS
<1>1. hosts \in Seq(Addresses) /\ Len(hosts) \in Nat
      BY HostsAre DEF Init
<1>2. TypeOK
      <2>1. <<>> \in Seq(ToSet(hosts)) /\ 1 \in 1..(Len(hosts) + 1)
            BY <1>1
      <2>. QED BY <2>1 DEF Init, TypeOK, Errors
<1>3. InOrder(<<>>) /\ ToSet(<<>>) = {}
      BY DEF InOrder, ToSet
<1>4. 1..Seen = {}
      BY DEF Init, Seen
<1>. QED BY <1>2, <1>3, <1>4 DEF Init, LoopInv

LEMMA LoopStep ==
    ASSUME LoopInv, [Next]_vars
    PROVE  LoopInv'
<1>. USE DEF callVars, loopVars, linkVars
<1>0. /\ hosts \in Seq(Addresses) /\ Len(hosts) \in Nat /\ InOrder(hosts)
      /\ \A i \in 1..Len(hosts) : hosts[i] \in ToSet(hosts) /\ hosts[i] \in Addresses
      /\ ToSet(hosts) \subseteq Addresses
      <2>1. hosts \in Seq(Addresses) /\ InOrder(hosts) /\ \A i \in 1..Len(hosts) : hosts[i] \in ToSet(hosts)
            BY HostsAre DEF LoopInv, TypeOK
      <2>2. ToSet(hosts) \subseteq Addresses
            BY <2>1 DEF ToSet
      <2>. QED BY <2>1, <2>2
<1>1. ASSUME UNCHANGED <<callVars, tried, results>>, Seen' = Seen, next' = next,
             pc' \in {"start", "down", "address", "up", "loop", "returned"}, pc # "scan",
             doing' \in {"spoof", "restore"}, err' \in Errors,
             mac' \in {Original, Spoofed}, {up', ipFailed', ctxDone'} \subseteq BOOLEAN,
             pc' \in {"start", "loop"} => doing' = "spoof",
             doing' = "spoof" /\ pc' # "returned" => err' = "nil",
             doing' = "restore" /\ err' = "nil" => next > Len(hosts),
             pc' = "returned" /\ err' = "nil" => doing' = "restore",
             err' = "context" => ctxDone'
      PROVE  LoopInv'
      <2>1. TypeOK'
            BY <1>1 DEF LoopInv, TypeOK
      <2>2. Due' = Due
            BY <1>1 DEF Due, Skips
      <2>3. ToSet(tried)' = ToSet(tried) /\ ToSet(results)' = ToSet(results)
            BY <1>1 DEF ToSet
      <2>4. InOrder(tried)' /\ InOrder(results)'
            BY <1>1 DEF LoopInv, InOrder
      <2>. QED BY <1>1, <2>1, <2>2, <2>3, <2>4 DEF LoopInv
<1>2. CASE Skip
      <2>1. /\ next \in 1..Len(hosts) /\ pc = "loop" /\ pc' = "loop" /\ next \notin Due
            /\ Seen = next - 1 /\ Seen' = next
            /\ UNCHANGED <<callVars, pc, doing, tried, results, err, linkVars, ctxDone>> /\ next' = next + 1
            BY <1>0, <1>2 DEF LoopInv, TypeOK, Skip, Seen, Due
      <2>2. TypeOK'
            BY <1>0, <2>1 DEF LoopInv, TypeOK
      <2>3. Due' = Due
            BY <2>1 DEF Due, Skips
      <2>4. Due \cap (1..(next - 1)) = Due \cap (1..next)
            BY <1>0, <2>1 DEF Due
      <2>5. ToSet(tried)' = ToSet(tried) /\ ToSet(results)' = ToSet(results)
            BY <2>1 DEF ToSet
      <2>6. InOrder(tried)' /\ InOrder(results)'
            BY <2>1 DEF LoopInv, InOrder
      <2>7. {hosts[i] : i \in 1..(next - 1)} \subseteq {hosts[i] : i \in 1..((next + 1) - 1)}
            BY <2>1
      <2>. QED BY <2>1, <2>2, <2>3, <2>4, <2>5, <2>6, <2>7 DEF LoopInv
<1>3. CASE ScanHost
      <2>1. /\ next \in 1..Len(hosts) /\ pc = "loop" /\ pc' = "scan" /\ next \in Due
            /\ Seen = next - 1 /\ Seen' = next
            /\ UNCHANGED <<callVars, doing, next, results, err, linkVars, ctxDone>>
            /\ tried' = Append(tried, hosts[next]) /\ tried \in Seq(ToSet(hosts))
            /\ doing = "spoof" /\ err = "nil"
            BY <1>0, <1>3 DEF LoopInv, TypeOK, ScanHost, Seen, Due
      <2>2. ASSUME NEW y \in ToSet(tried) PROVE y[2] < hosts[next][2]
            <3>1. PICK i \in Due \cap (1..(next - 1)) : y = hosts[i]
                  BY <2>1 DEF LoopInv
            <3>2. i \in 1..Len(hosts) /\ i < next
                  BY <2>1, <3>1 DEF Due
            <3>. QED BY <2>1, <3>1, <3>2, <1>0 DEF InOrder
      <2>3. /\ tried' \in Seq(ToSet(hosts)) /\ InOrder(tried')
            /\ ToSet(tried') = ToSet(tried) \cup {hosts[next]}
            /\ tried' # <<>> /\ tried'[Len(tried')] = hosts[next]
            BY <1>0, <2>1, <2>2, AppendAddress DEF LoopInv
      <2>4. TypeOK'
            BY <1>0, <2>1, <2>3 DEF LoopInv, TypeOK
      <2>5. Due' = Due
            BY <2>1 DEF Due, Skips
      <2>6. Due \cap (1..next) = (Due \cap (1..(next - 1))) \cup {next}
            BY <1>0, <2>1 DEF Due
      <2>7. ToSet(tried') = {hosts[i] : i \in Due \cap (1..next)}
            BY <2>1, <2>3, <2>6 DEF LoopInv
      <2>8. ToSet(results)' = ToSet(results) /\ InOrder(results)'
            BY <2>1 DEF LoopInv, ToSet, InOrder
      <2>9. ToSet(tried)' = ToSet(tried') /\ InOrder(tried)' = InOrder(tried')
            BY DEF ToSet, InOrder
      <2>. QED BY <2>1, <2>3, <2>4, <2>5, <2>7, <2>8, <2>9 DEF LoopInv
<1>4. CASE HostFails \/ HostScanned
      <2>1. /\ next \in 1..Len(hosts) /\ pc = "scan" /\ pc' = "loop" /\ next' = next + 1
            /\ Seen = next /\ Seen' = next
            /\ UNCHANGED <<callVars, doing, tried, err, linkVars, ctxDone>>
            /\ results \in Seq(ToSet(hosts))
            /\ doing = "spoof" /\ err = "nil"
            BY <1>0, <1>4 DEF LoopInv, TypeOK, HostFails, HostScanned, Seen
      <2>2. hosts[next] \in ToSet(tried)
            <3>1. Len(tried) \in 1..Len(tried) /\ tried[Len(tried)] = hosts[next] /\ DOMAIN tried = 1..Len(tried)
                  BY <2>1 DEF LoopInv, TypeOK
            <3>. QED BY <3>1 DEF ToSet
      <2>. DEFINE before == {hosts[i] : i \in 1..(next - 1)}
                  upto == {hosts[i] : i \in 1..((next + 1) - 1)}
      <2>3. ToSet(results) \subseteq before /\ before \subseteq upto /\ hosts[next] \in upto
            BY <2>1 DEF LoopInv
      <2>4. ASSUME NEW y \in ToSet(results) PROVE y[2] < hosts[next][2]
            <3>1. PICK i \in 1..(next - 1) : y = hosts[i]
                  BY <2>3
            <3>2. i \in 1..Len(hosts) /\ i < next
                  BY <2>1, <3>1
            <3>. QED BY <2>1, <3>1, <3>2, <1>0 DEF InOrder
      <2>5. /\ results' \in Seq(ToSet(hosts)) /\ InOrder(results')
            /\ ToSet(results') \subseteq ToSet(results) \cup {hosts[next]}
            <3>1. CASE HostFails
                  BY <2>1, <3>1 DEF HostFails, LoopInv
            <3>2. CASE HostScanned
                  <4>1. results' = Append(results, hosts[next])
                        BY <3>2 DEF HostScanned
                  <4>. QED BY <1>0, <2>1, <2>4, <4>1, AppendAddress DEF LoopInv
            <3>. QED BY <1>4, <3>1, <3>2
      <2>6. TypeOK'
            BY <1>0, <2>1, <2>5 DEF LoopInv, TypeOK
      <2>7. Due' = Due
            BY <2>1 DEF Due, Skips
      <2>8. ToSet(tried)' = ToSet(tried) /\ InOrder(tried)'
            BY <2>1 DEF LoopInv, ToSet, InOrder
      <2>9. ToSet(results)' = ToSet(results') /\ InOrder(results)' = InOrder(results')
            BY DEF ToSet, InOrder
      <2>10. ToSet(results') \subseteq ToSet(tried) \cap upto
            BY <2>2, <2>3, <2>5 DEF LoopInv
      <2>. QED BY <2>1, <2>5, <2>6, <2>7, <2>8, <2>9, <2>10 DEF LoopInv
<1>5. CASE Refuse
      BY <1>1, <1>5 DEF Refuse, LoopInv, TypeOK, Seen, Errors
<1>6. CASE Begin
      BY <1>1, <1>6 DEF Begin, LoopInv, TypeOK, Seen, Errors
<1>7. CASE Exhausted
      BY <1>1, <1>7 DEF Exhausted, Leave, LoopInv, TypeOK, Seen, Errors
<1>8. CASE Canceled
      BY <1>1, <1>8 DEF Canceled, Leave, LoopInv, TypeOK, Seen, Errors
<1>9. CASE Down
      BY <1>1, <1>9 DEF Down, Fail, LoopInv, TypeOK, Seen, Errors
<1>10. CASE Address
      BY <1>1, <1>10 DEF Address, Fail, LoopInv, TypeOK, Seen, Errors
<1>11. CASE Up
      BY <1>1, <1>11 DEF Up, Fail, LoopInv, TypeOK, Seen, Errors
<1>12. CASE Cancel \/ Returned \/ UNCHANGED vars
      <2>1. UNCHANGED <<callVars, pc, doing, loopVars, err, linkVars>> /\ (ctxDone' = ctxDone \/ ctxDone' = TRUE)
            BY <1>12 DEF Cancel, Returned, vars
      <2>2. TypeOK'
            BY <2>1 DEF LoopInv, TypeOK
      <2>3. Due' = Due
            BY <2>1 DEF Due, Skips
      <2>4. ToSet(tried)' = ToSet(tried) /\ ToSet(results)' = ToSet(results) /\ Seen' = Seen
            BY <2>1 DEF ToSet, Seen
      <2>5. InOrder(tried)' /\ InOrder(results)'
            BY <2>1 DEF LoopInv, InOrder
      <2>. QED BY <2>1, <2>2, <2>3, <2>4, <2>5 DEF LoopInv
<1>. QED
     BY <1>2, <1>3, <1>4, <1>5, <1>6, <1>7, <1>8, <1>9, <1>10, <1>11, <1>12 DEF Next, Step

LEMMA LoopInvariance == Spec => []LoopInv
<1>. QED BY LoopInit, LoopStep, PTL DEF Spec

\* The state of a range scan has its shape: in particular the host that is
\* being scanned is the last one tried.
THEOREM TypeCorrect == Spec => []TypeOK
<1>1. LoopInv => TypeOK
      BY DEF LoopInv
<1>. QED BY <1>1, LoopInvariance, PTL

LEMMA WantedAreTargets ==
    ASSUME call \in {"ScanCIDR", "ScanRange"}
    PROVE  Wanted \subseteq Targets /\ Targets \subseteq Inside(cidr)
<1>1. ASSUME NEW c \in ExcludeRanges PROVE Inside(c) \subseteq Excluded
      <2>1. CASE c = NoCIDR
            BY <2>1 DEF Inside
      <2>2. CASE c # NoCIDR
            BY <1>1, <2>2 DEF Inside, Excluded
      <2>. QED BY <2>1, <2>2
<1>2. ExcludeAddrs \subseteq Excluded
      BY DEF Excluded
<1>. QED BY <1>1, <1>2 DEF Wanted, Targets

LEMMA LoopTriesAll ==
    ASSUME LoopInv
    PROVE  TriesAllOrFails
<1>1. /\ hosts \in Seq(Addresses) /\ InOrder(hosts) /\ ToSet(hosts) = Inside(cidr)
      /\ \A i \in 1..Len(hosts) : hosts[i] \in ToSet(hosts) /\ hosts[i] \in Addresses
      /\ DOMAIN hosts = 1..Len(hosts) /\ Len(hosts) \in Nat
      BY HostsAre DEF LoopInv, TypeOK
<1>2. \A i \in 1..Len(hosts) : i \in Due <=> hosts[i] \in Targets
      BY <1>1, SkipsOthers DEF Due, LoopInv, TypeOK
<1>3. /\ Due \subseteq 1..Len(hosts) /\ Seen \in Int
      /\ ToSet(tried) = {hosts[i] : i \in Due \cap (1..Seen)}
      BY <1>1 DEF LoopInv, TypeOK, Seen, Due
<1>4. ASSUME NEW h \in Targets PROVE \E j \in Due : hosts[j] = h
      <2>1. PICK j \in 1..Len(hosts) : hosts[j] = h
            BY <1>1, <1>4 DEF Targets, ToSet
      <2>. QED BY <1>2, <1>4, <2>1
<1>5. ToSet(tried) \subseteq Targets
      BY <1>2, <1>3
<1>6. ASSUME NEW t \in ToSet(tried), NEW h \in Targets, h[2] < t[2] PROVE h \in ToSet(tried)
      <2>1. PICK i \in Due \cap (1..Seen) : t = hosts[i]
            BY <1>3
      <2>2. PICK j \in Due : h = hosts[j]
            BY <1>4
      <2>3. j < i
            <3>1. i \in 1..Len(hosts) /\ j \in 1..Len(hosts) /\ hosts[i][2] \in Int /\ hosts[j][2] \in Int
                  BY <1>1, <1>3, <2>1, <2>2 DEF Addresses
            <3>2. i < j => hosts[i][2] < hosts[j][2]
                  BY <1>1, <3>1 DEF InOrder
            <3>. QED BY <1>6, <2>1, <2>2, <3>1, <3>2
      <2>4. j \in Due \cap (1..Seen)
            BY <1>1, <1>3, <2>3
      <2>. QED BY <1>3, <2>2, <2>4
<1>7. ASSUME pc = "returned", err = "nil" PROVE Targets \subseteq ToSet(tried)
      <2>1. Len(hosts) =< Seen
            BY <1>1, <1>7 DEF LoopInv, TypeOK, Seen
      <2>2. \A i \in Due : i \in 1..Seen
            <3>1. \A i \in Due : i \in 1..Len(hosts)
                  BY <1>3
            <3>. QED BY <1>1, <1>3, <2>1, <3>1
      <2>. QED BY <1>3, <1>4, <2>2
<1>8. Wanted \subseteq Targets /\ Targets \subseteq Inside(cidr)
      BY WantedAreTargets DEF LoopInv, TypeOK
<1>9. ASSUME call = "ScanCIDR", NEW t \in ToSet(tried)
      PROVE  t \notin ExcludeAddrs /\ \A c \in ExcludeRanges : t \notin Inside(c)
      BY <1>5, <1>9 DEF Targets
<1>. QED BY <1>5, <1>6, <1>7, <1>8, <1>9 DEF TriesAllOrFails, LoopInv

\* For a range of any width and for any exclusions: a call tries addresses
\* strictly inside the range, in order and once, and leaves out one that
\* nothing excludes only if it was refused or canceled; ScanCIDR tries no
\* excluded address and no host of an excluded range (scan.go:391-413,
\* :421-440, :561-576).
THEOREM TriesAll == Spec => []TriesAllOrFails
<1>. QED BY LoopInvariance, LoopTriesAll, PTL

-----------------------------------------------------------------------------
(* The interface. *)

Points == {"start", "down", "address", "up", "loop", "scan", "returned"}

\* The address that setMAC is to set.
Wants == IF doing = "spoof" THEN Spoofed ELSE Original

LinkInv ==
    /\ pc \in Points
    /\ doing \in {"spoof", "restore"}
    /\ {spoofMAC, up, ipFailed} \subseteq BOOLEAN
    /\ pc # "returned" => ~ipFailed
    /\ pc \in {"start", "loop", "scan"} => doing = "spoof" /\ up
    /\ pc = "start" => mac = Original
    /\ pc \in {"loop", "scan"} => mac = (IF spoofMAC THEN Spoofed ELSE Original)
    /\ pc \in {"down", "address", "up"} => spoofMAC
    /\ pc = "down" => up /\ mac = (IF doing = "spoof" THEN Original ELSE Spoofed)
    /\ pc = "up" => mac = Wants
    /\ pc = "returned" /\ ~ipFailed => mac = Original /\ up

LEMMA LinkStep ==
    ASSUME LinkInv, [Next]_vars
    PROVE  LinkInv'
<1>. USE DEF LinkInv, Points, Wants, callVars, loopVars, linkVars
<1>1. CASE Refuse
      BY <1>1 DEF Refuse
<1>2. CASE Begin
      BY <1>2 DEF Begin
<1>3. CASE Exhausted \/ Canceled
      <2>1. pc = "loop" /\ doing' = "restore" /\ UNCHANGED <<spoofMAC, mac, up, ipFailed>>
            BY <1>3 DEF Exhausted, Canceled, Leave
      <2>2. pc' = IF spoofMAC THEN "down" ELSE "returned"
            BY <1>3 DEF Exhausted, Canceled, Leave
      <2>. QED BY <2>1, <2>2
<1>4. CASE Skip \/ ScanHost \/ HostFails \/ HostScanned
      BY <1>4 DEF Skip, ScanHost, HostFails, HostScanned
<1>5. CASE Down
      <2>1. CASE up' = FALSE /\ pc' = "address" /\ UNCHANGED <<err, ipFailed>>
            BY <1>5, <2>1 DEF Down
      <2>2. CASE Fail /\ UNCHANGED up
            BY <1>5, <2>2 DEF Down, Fail
      <2>. QED BY <1>5, <2>1, <2>2 DEF Down
<1>6. CASE Address
      <2>1. CASE mac' = Wants /\ pc' = "up" /\ UNCHANGED <<up, err, ipFailed>>
            BY <1>6, <2>1 DEF Address
      <2>2. CASE Fail /\ up' \in BOOLEAN /\ UNCHANGED mac
            BY <1>6, <2>2 DEF Address, Fail
      <2>. QED BY <1>6, <2>1, <2>2 DEF Address
<1>7. CASE Up
      <2>1. CASE up' = TRUE /\ pc' = (IF doing = "spoof" THEN "loop" ELSE "returned")
                   /\ UNCHANGED <<err, ipFailed>>
            BY <1>7, <2>1 DEF Up
      <2>2. CASE Fail /\ UNCHANGED up
            BY <1>7, <2>2 DEF Up, Fail
      <2>. QED BY <1>7, <2>1, <2>2 DEF Up
<1>8. CASE Cancel
      BY <1>8 DEF Cancel
<1>9. CASE Returned \/ UNCHANGED vars
      BY <1>9 DEF Returned, vars
<1>. QED
     BY <1>1, <1>2, <1>3, <1>4, <1>5, <1>6, <1>7, <1>8, <1>9 DEF Next, Step

LEMMA LinkInvariance == Spec => []LinkInv
<1>1. Init => LinkInv
      BY DEF Init, LinkInv, Points, Wants
<1>. QED BY <1>1, LinkStep, PTL DEF Spec

\* Every probe of a call that spoofs its address leaves from the spoofed
\* address, and every probe from an interface that is up
\* (spoofmac_linux.go:51-61).
THEOREM AlwaysSpoofed == Spec => []ScansSpoofed
<1>1. LinkInv => ScansSpoofed
      BY DEF LinkInv, ScansSpoofed
<1>. QED BY <1>1, LinkInvariance, PTL

\* However the call ends, the interface has its own address again unless a
\* command failed (spoofmac_linux.go:16).
THEOREM AddressRestored == Spec => []MACRestored
<1>1. LinkInv => MACRestored
      BY DEF LinkInv, MACRestored
<1>. QED BY <1>1, LinkInvariance, PTL

-----------------------------------------------------------------------------
(* The length of a call.  A host costs two steps, the commands of setMAC one *)
(* each, before and after.                                                   *)

HostSteps == 2 * (Len(hosts) + 1 - next)

StepsLeft ==
    CASE pc = "start" -> HostSteps + 8
      [] pc = "loop" -> HostSteps + 4
      [] pc = "scan" -> HostSteps + 3
      [] pc \in {"down", "address", "up"} ->
            (CASE pc = "down" -> 3 [] pc = "address" -> 2 [] pc = "up" -> 1)
            + (IF doing = "spoof" THEN HostSteps + 4 ELSE 0)
      [] pc = "returned" -> 0

Bounded == StepsLeft \in 0..(2 * Len(hosts) + 8)

StepsRunOut ==
    [][(Step => StepsLeft' < StepsLeft) /\ (~Step => StepsLeft' = StepsLeft)]_vars

LEMMA StepsType ==
    ASSUME LoopInv
    PROVE  /\ Len(hosts) \in Nat /\ HostSteps \in 0..(2 * Len(hosts))
           /\ Bounded
           /\ pc \in Points /\ doing \in {"spoof", "restore"}
           /\ pc = "scan" => HostSteps >= 2
<1>1. Len(hosts) \in Nat
      BY HostsAre DEF LoopInv, TypeOK
<1>2. next \in 1..(Len(hosts) + 1) /\ (pc = "scan" => next =< Len(hosts))
      /\ pc \in Points /\ doing \in {"spoof", "restore"}
      BY DEF LoopInv, TypeOK, Points
<1>3. HostSteps \in 0..(2 * Len(hosts)) /\ (pc = "scan" => HostSteps >= 2)
      BY <1>1, <1>2 DEF HostSteps
<1>4. StepsLeft \in 0..(2 * Len(hosts) + 8)
      BY <1>1, <1>2, <1>3 DEF StepsLeft, Points
<1>. QED BY <1>1, <1>2, <1>3, <1>4 DEF Bounded

LEMMA StepsFall ==
    ASSUME LoopInv, LoopInv', LinkInv, Next
    PROVE  (Step => StepsLeft' < StepsLeft) /\ (~Step => StepsLeft' = StepsLeft)
<1>1. /\ Len(hosts) \in Nat /\ next \in Nat /\ HostSteps \in Nat
      /\ pc \in Points /\ doing \in {"spoof", "restore"}
      /\ pc = "scan" => HostSteps >= 2
      BY StepsType DEF LoopInv, TypeOK
<1>2. ASSUME Step PROVE StepsLeft' < StepsLeft /\ UNCHANGED ctxDone /\ pc # "returned"
      <2>. USE DEF Points, StepsLeft, HostSteps, callVars, loopVars
      <2>1. CASE Refuse \/ Begin
            BY <1>1, <2>1 DEF Refuse, Begin, LinkInv
      <2>2. CASE Exhausted \/ Canceled
            <3>1. pc = "loop" /\ doing' = "restore" /\ pc' \in {"down", "returned"} /\ UNCHANGED ctxDone
                  BY <2>2 DEF Exhausted, Canceled, Leave
            <3>. QED BY <1>1, <3>1
      <2>3. CASE Skip
            BY <1>1, <2>3 DEF Skip
      <2>4. CASE ScanHost
            BY <1>1, <2>4 DEF ScanHost
      <2>5. CASE HostFails \/ HostScanned
            BY <1>1, <2>5 DEF HostFails, HostScanned
      <2>6. CASE Down \/ Address \/ Up
            <3>1. /\ UNCHANGED <<hosts, next, doing, ctxDone>>
                  /\ \/ pc \in {"down", "address", "up"} /\ pc' = "returned"
                     \/ pc = "down" /\ pc' = "address"
                     \/ pc = "address" /\ pc' = "up"
                     \/ pc = "up" /\ pc' = IF doing = "spoof" THEN "loop" ELSE "returned"
                  BY <2>6 DEF Down, Address, Up, Fail
            <3>. QED BY <1>1, <3>1
      <2>. QED BY <1>2, <2>1, <2>2, <2>3, <2>4, <2>5, <2>6 DEF Step
<1>3. CASE Cancel
      <2>1. ctxDone' # ctxDone /\ UNCHANGED <<pc, doing, hosts, next>>
            BY <1>3 DEF Cancel, callVars, loopVars
      <2>2. UNCHANGED StepsLeft
            BY <2>1 DEF StepsLeft, HostSteps
      <2>. QED BY <1>2, <2>1, <2>2
<1>4. CASE Returned
      <2>1. pc = "returned" /\ UNCHANGED <<pc, doing, hosts, next>>
            BY <1>4 DEF Returned, vars
      <2>2. UNCHANGED StepsLeft
            BY <2>1 DEF StepsLeft, HostSteps
      <2>. QED BY <1>2, <2>1, <2>2
<1>. QED BY <1>2, <1>3, <1>4 DEF Next

\* A call makes at most two steps for each host and eight besides, whatever
\* the hosts, the commands and the caller do: every step brings its end nearer
\* and the end of the context puts it off by none (scan.go:391-440).
THEOREM CallIsBounded == Spec => []Bounded /\ StepsRunOut
<1>1. LoopInv => Bounded
      BY StepsType
<1>2. LoopInv /\ LoopInv' /\ LinkInv /\ [Next]_vars =>
          [(Step => StepsLeft' < StepsLeft) /\ (~Step => StepsLeft' = StepsLeft)]_vars
      BY StepsFall
<1>3. Spec => []LoopInv /\ []LinkInv
      BY LoopInvariance, LinkInvariance, PTL
<1>4. Spec => [][Next]_vars
      BY PTL DEF Spec
<1>. QED BY <1>1, <1>2, <1>3, <1>4, PTL DEF StepsRunOut
=============================================================================
