---------------------------- MODULE IpIterProofs ----------------------------
(***************************************************************************)
(* What new_iter and Iter::next do on every range set that                 *)
(* load_ipam_config accepts with its ranges in order.                      *)
(***************************************************************************)
EXTENDS IpIter, WellFoundedInduction, TLAPS

\* A set of positions has a first one.
LEMMA FirstOfPositions ==
  ASSUME NEW S, S \subseteq Nat, S # {}
  PROVE  \E m \in S : \A k \in S : m <= k
<1>1. PICK m \in S : \A y \in S : ~(<<y, m>> \in OpToRel(<, Nat))
  BY NatLessThanWellFounded, WFMin
<1>2. \A y \in S : ~(y < m)
  BY <1>1 DEF OpToRel
<1>3. QED
  BY <1>2

\* The type of a range of a usable set and of its bounds, and that bounds lie
\* in order in the subnet.
LEMMA RangeOfSet ==
  ASSUME NEW rs, UsableSet(rs), NEW i \in DOMAIN rs
  PROVE  /\ rs[i] \in CanonicalRanges
         /\ network(rs[i].subnet) \in Int
         /\ rs[i].range_start \in Addr /\ rs[i].range_end \in Addr
         /\ rs[i].gateway \in Addr
         /\ RangeContains(rs[i], rs[i].range_start)
         /\ RangeContains(rs[i], rs[i].range_end)
<1>1. rs \in Seq(CanonicalRanges)
  BY DEF UsableSet
<1>2. rs[i] \in CanonicalRanges
  BY <1>1
<1>3. network(rs[i].subnet) \in Int
  BY <1>2, MaxAddrAssumption DEF CanonicalRanges, network, Addr
<1>4. QED
  BY <1>2, <1>3 DEF UsableSet, CanonicalRanges

\* The iterator that new_iter answers stands in its range, whatever the store
\* remembers, and has somewhere to start from (allocator.rs:117-147).
LEMMA NewIterInItsRange ==
  ASSUME NEW rs, UsableSet(rs), NEW last \in Addr \cup {NoIp}
  PROVE  /\ new_iter(rs, last) \in Iters
         /\ InItsRange(rs, new_iter(rs, last))
<1>1. rs \in Seq(CanonicalRanges) /\ rs # <<>> /\ DOMAIN rs = 1 .. Len(rs) /\ Len(rs) \in Nat
  BY DEF UsableSet
<1>2. 1 \in DOMAIN rs
  BY <1>1
<1>3. CASE last # NoIp /\ ContainsIp(rs, last)
  <2> DEFINE holds == {i \in DOMAIN rs : RangeContains(rs[i], last)}
             first(i) == /\ RangeContains(rs[i], last)
                         /\ \A j \in DOMAIN rs : j < i => ~RangeContains(rs[j], last)
  <2>1. holds \subseteq Nat /\ holds # {}
    BY <1>1, <1>3 DEF ContainsIp
  <2>2. PICK m \in holds : \A k \in holds : m <= k
    <3> HIDE DEF holds
    <3> QED BY <2>1, FirstOfPositions
  <2>3. \E i \in DOMAIN rs : first(i)
    BY <2>2, <1>1
  <2>4. (CHOOSE i \in DOMAIN rs : first(i)) \in DOMAIN rs /\ first(CHOOSE i \in DOMAIN rs : first(i))
    <3> HIDE DEF first
    <3> QED BY <2>3
  <2>5. QED
    BY <2>4, <1>1, <1>3 DEF new_iter, InItsRange, Iters
<1>4. CASE ~(last # NoIp /\ ContainsIp(rs, last))
  BY <1>1, <1>2, <1>4, RangeOfSet DEF new_iter, InItsRange, Iters
<1>5. QED
  BY <1>3, <1>4

\* Iter::next keeps the iterator in its range, always arrives at an address,
\* and so never unwraps a None (allocator.rs:195-240).
LEMMA NextIterInItsRange ==
  ASSUME NEW rs, UsableSet(rs), NEW it \in Iters, InItsRange(rs, it)
  PROVE  /\ NextIter(rs, it) \in Iters
         /\ InItsRange(rs, NextIter(rs, it))
         /\ NextIter(rs, it).cur # NoIp
         /\ NextOutcome(rs, it) # "panic"
<1> DEFINE r == rs[it.range_index]
           n == (it.range_index % Len(rs)) + 1
           moved == Moved(rs, it)
<1>1. rs \in Seq(CanonicalRanges) /\ DOMAIN rs = 1 .. Len(rs) /\ Len(rs) \in Nat \ {0}
  BY DEF UsableSet
<1>2. it.range_index \in DOMAIN rs /\ it.range_index \in Nat \ {0}
  BY DEF InItsRange, Iters
<1>3. n \in DOMAIN rs /\ n \in Nat \ {0}
  BY <1>1, <1>2
<1>4. /\ moved \in Iters
      /\ moved.range_index \in DOMAIN rs
      /\ moved.cur \in Addr
      /\ RangeContains(rs[moved.range_index], moved.cur)
  <2>1. CASE it.cur = NoIp
    <3>1. moved = [it EXCEPT !.cur = r.range_start, !.start_ip = r.range_start]
      BY <2>1 DEF Moved
    <3>2. r.range_start \in Addr /\ RangeContains(r, r.range_start)
      BY <1>2, RangeOfSet
    <3>3. QED
      BY <1>2, <3>1, <3>2 DEF Iters
  <2>2. CASE it.cur # NoIp /\ it.cur = r.range_end
    <3>1. moved = [it EXCEPT !.range_index = n, !.cur = rs[n].range_start]
      BY <2>2 DEF Moved
    <3>2. rs[n].range_start \in Addr /\ RangeContains(rs[n], rs[n].range_start)
      BY <1>3, RangeOfSet
    <3> HIDE DEF n
    <3>3. QED
      BY <1>3, <3>1, <3>2 DEF Iters
  <2>3. CASE it.cur # NoIp /\ it.cur # r.range_end
    <3>1. moved = [it EXCEPT !.cur = next_ip(it.cur)]
      BY <2>3 DEF Moved
    <3>2. it.cur \in Addr /\ RangeContains(r, it.cur)
      BY <2>3 DEF Iters, InItsRange
    <3>3. /\ network(r.subnet) \in Int
          /\ r \in CanonicalRanges
          /\ r.range_end \in Addr /\ r.range_start \in Addr
          /\ RangeContains(r, r.range_end)
      BY <1>2, RangeOfSet
    <3> HIDE DEF r
    <3>4. it.cur < r.range_end
      BY <2>3, <3>2, <3>3, MaxAddrAssumption DEF RangeContains, Addr, NoIp
    <3>5. next_ip(it.cur) = it.cur + 1 /\ it.cur + 1 \in Addr
      BY <3>2, <3>3, <3>4, MaxAddrAssumption DEF next_ip, Addr
    <3>6. RangeContains(r, it.cur + 1)
      BY <3>2, <3>3, <3>4, MaxAddrAssumption DEF RangeContains, InSubnet, Addr, CanonicalRanges
    <3>7. QED
      BY <1>2, <3>1, <3>5, <3>6 DEF Iters, r
  <2>4. QED
    BY <2>1, <2>2, <2>3
<1>5. moved.cur # NoIp
  BY <1>4, MaxAddrAssumption DEF Addr, NoIp
<1>6. /\ NextIter(rs, it) \in Iters
      /\ NextIter(rs, it).range_index = moved.range_index
      /\ NextIter(rs, it).cur = moved.cur
  BY <1>4 DEF NextIter, Anchored, Iters
<1>7. NextOutcome(rs, it) # "panic"
  BY <1>5 DEF NextOutcome
<1>8. QED
  BY <1>4, <1>5, <1>6, <1>7 DEF InItsRange

----------------------------------------------------------------------------
(* Ranges that do not overlap.                                             *)

LEMMA SharedAddressOverlaps ==
  ASSUME NEW r \in CanonicalRanges, NEW other \in CanonicalRanges,
         RangeContains(r, r.range_start), RangeContains(r, r.range_end),
         RangeContains(other, other.range_start), RangeContains(other, other.range_end),
         network(r.subnet) \in Int, network(other.subnet) \in Int,
         NEW a \in Addr, RangeContains(r, a), RangeContains(other, a)
  PROVE  Overlap(r, other)
<1>1. /\ {r.range_start, r.range_end, other.range_start, other.range_end} \subseteq Addr
      /\ r.subnet.size \in Nat /\ other.subnet.size \in Nat
  BY DEF CanonicalRanges
<1>2. \A x \in Addr : x \in Int /\ x # NoIp
  BY MaxAddrAssumption DEF Addr, NoIp
<1>3. CASE r.range_start <= other.range_start
  <2>1. RangeContains(r, other.range_start)
    BY <1>1, <1>2, <1>3 DEF RangeContains, InSubnet
  <2>. QED
    BY <1>1, <1>2, <2>1 DEF Overlap
<1>4. CASE ~(r.range_start <= other.range_start)
  <2>1. RangeContains(other, r.range_start)
    BY <1>1, <1>2, <1>4 DEF RangeContains, InSubnet
  <2>. QED
    BY <1>1, <1>2, <2>1 DEF Overlap
<1>. QED
  BY <1>3, <1>4

\* range.rs:115-141: the end points that Range::overlaps compares decide
\* whether two ranges share an address, whichever lies in the other.
THEOREM OverlapIsShared ==
  ASSUME NEW rs, UsableSet(rs), NEW os, UsableSet(os), NEW i \in DOMAIN rs, NEW j \in DOMAIN os
  PROVE  Overlap(rs[i], os[j]) <=> \E a \in Addr : RangeContains(rs[i], a) /\ RangeContains(os[j], a)
<1>1. ASSUME NEW a \in Addr, RangeContains(rs[i], a), RangeContains(os[j], a)
      PROVE  Overlap(rs[i], os[j])
  BY <1>1, RangeOfSet, SharedAddressOverlaps
<1>2. ASSUME Overlap(rs[i], os[j])
      PROVE  \E a \in Addr : RangeContains(rs[i], a) /\ RangeContains(os[j], a)
  BY <1>2, RangeOfSet DEF Overlap
<1>. QED
  BY <1>1, <1>2


\* Bounds decide: the subnet has no part in it.
LEMMA InBounds ==
  ASSUME NEW rs, UsableSet(rs), NEW i \in DOMAIN rs, NEW y \in Int
  PROVE  /\ RangeContains(rs[i], y) <=> rs[i].range_start <= y /\ y <= rs[i].range_end
         /\ rs[i].range_start \in Nat /\ rs[i].range_end \in Nat
         /\ rs[i].range_start <= rs[i].range_end
<1>. DEFINE r == rs[i]
<1>1. /\ r \in CanonicalRanges /\ network(r.subnet) \in Int
      /\ RangeContains(r, r.range_start) /\ RangeContains(r, r.range_end)
  BY RangeOfSet
<1>2. /\ r.range_start \in Nat /\ r.range_end \in Nat /\ r.subnet.size \in Nat
      /\ r.range_start # NoIp /\ r.range_end # NoIp
  BY <1>1, MaxAddrAssumption DEF CanonicalRanges, Addr, NoIp
<1>. HIDE DEF r
<1>3. /\ RangeContains(r, y) <=> r.range_start <= y /\ y <= r.range_end
      /\ r.range_start <= r.range_end
  BY <1>1, <1>2 DEF RangeContains, InSubnet
<1>. QED
  BY <1>2, <1>3 DEF r

\* An address lies in at most one range of a set.
LEMMA OneRange ==
  ASSUME NEW rs, UsableSet(rs), NEW y \in Addr,
         NEW i \in DOMAIN rs, NEW j \in DOMAIN rs,
         RangeContains(rs[i], y), RangeContains(rs[j], y)
  PROVE  i = j
<1>1. i \in Nat /\ j \in Nat
  BY DEF UsableSet
<1>2. Overlap(rs[i], rs[j]) /\ Overlap(rs[j], rs[i])
  BY OverlapIsShared
<1>3. ~(i < j) /\ ~(j < i)
  BY <1>2 DEF UsableSet
<1>. QED
  BY <1>1, <1>3

----------------------------------------------------------------------------
(* How far a scan has come.                                                *)

\* Where Iter::next moves an iterator that has a current address.
LEMMA MovedOn ==
  ASSUME NEW rs, UsableSet(rs), NEW it \in Iters, InItsRange(rs, it), it.cur # NoIp
  PROVE  LET m == Moved(rs, it) IN
         /\ m.start_ip = it.start_ip
         /\ \/ /\ it.cur < rs[it.range_index].range_end
               /\ m.range_index = it.range_index /\ m.cur = it.cur + 1
            \/ /\ it.cur = rs[it.range_index].range_end
               /\ m.range_index = IF it.range_index = Len(rs) THEN 1 ELSE it.range_index + 1
               /\ m.range_index \in DOMAIN rs
               /\ m.cur = rs[m.range_index].range_start
<1>. DEFINE r == rs[it.range_index]
            n == (it.range_index % Len(rs)) + 1
<1>1. DOMAIN rs = 1 .. Len(rs) /\ Len(rs) \in Nat \ {0}
  BY DEF UsableSet
<1>2. it.range_index \in 1 .. Len(rs) /\ it.cur \in Addr
  BY <1>1 DEF InItsRange, Iters
<1>3. n \in DOMAIN rs /\ n = IF it.range_index = Len(rs) THEN 1 ELSE it.range_index + 1
  BY <1>1, <1>2
<1>4. /\ RangeContains(r, it.cur) /\ it.cur \in Nat
      /\ it.cur <= r.range_end /\ r.range_end \in Addr
  BY <1>1, <1>2, InBounds, RangeOfSet, MaxAddrAssumption DEF InItsRange, Addr
<1>5. CASE it.cur = r.range_end
  <2>1. Moved(rs, it) = [it EXCEPT !.range_index = n, !.cur = rs[n].range_start]
    BY <1>5 DEF Moved
  <2>. HIDE DEF n
  <2>. QED
    BY <1>3, <1>5, <2>1 DEF Iters
<1>6. CASE it.cur # r.range_end
  <2>1. Moved(rs, it) = [it EXCEPT !.cur = next_ip(it.cur)]
    BY <1>6 DEF Moved
  <2>2. next_ip(it.cur) = it.cur + 1 /\ it.cur < r.range_end
    BY <1>4, <1>6, MaxAddrAssumption DEF next_ip, Addr
  <2>. QED
    BY <2>1, <2>2 DEF Iters
<1>. QED
  BY <1>5, <1>6

\* One call of Iter::next comes by one position more, a new one.
LEMMA CameByNext ==
  ASSUME NEW rs, UsableSet(rs), NEW it \in Iters, InItsRange(rs, it), ~BackAtStart(rs, it),
         it.cur # NoIp, it.start_ip # NoIp, NEW i \in DOMAIN rs, StartsIn(rs, it, i),
         NEW j \in DOMAIN rs, NEW y \in Addr, RangeContains(rs[j], y)
  PROVE  LET next == NextIter(rs, it) IN
         /\ next.start_ip = it.start_ip
         /\ CameBy(next, i, j, y)
              <=> CameBy(it, i, j, y) \/ (j = next.range_index /\ y = next.cur)
         /\ ~CameBy(it, i, next.range_index, next.cur)
<1>. DEFINE m == Moved(rs, it)
            next == NextIter(rs, it)
<1>1. next \in Iters /\ InItsRange(rs, next) /\ next.cur \in Addr /\ next.range_index \in DOMAIN rs
  BY NextIterInItsRange DEF Iters, InItsRange
<1>2. next.range_index = m.range_index /\ next.cur = m.cur
  BY DEF NextIter, Anchored, Moved, Iters
<1>3. Addr \subseteq Nat /\ DOMAIN rs = 1 .. Len(rs) /\ Len(rs) \in Nat \ {0}
  BY MaxAddrAssumption DEF Addr, UsableSet
<1>4. m.start_ip = it.start_ip /\ next.start_ip = it.start_ip /\ it.start_ip \in Addr
  BY MovedOn DEF NextIter, Anchored, Iters
<1>5. m.cur # it.start_ip
  BY DEF BackAtStart
<1>6. PICK s, c, ri, ni, d :
        /\ s = it.start_ip /\ c = it.cur /\ ri = it.range_index
        /\ ni = next.range_index /\ d = next.cur
  OBVIOUS
<1>7. /\ s \in Nat /\ c \in Nat /\ d \in Nat /\ y \in Nat
      /\ ri \in DOMAIN rs /\ ni \in DOMAIN rs /\ d # s
  BY <1>1, <1>2, <1>3, <1>4, <1>5, <1>6 DEF InItsRange, Iters
<1>8. /\ rs[i].range_start <= s /\ s <= rs[i].range_end
      /\ rs[ri].range_start <= c /\ c <= rs[ri].range_end
      /\ rs[j].range_start <= y /\ y <= rs[j].range_end
      /\ \A k \in DOMAIN rs : rs[k].range_start \in Nat /\ rs[k].range_end \in Nat
  <2>1. RangeContains(rs[i], s) /\ RangeContains(rs[ri], c)
    BY <1>6 DEF StartsIn, InItsRange
  <2>2. \A k \in DOMAIN rs, z \in Nat : RangeContains(rs[k], z) =>
          rs[k].range_start <= z /\ z <= rs[k].range_end
    BY InBounds
  <2>3. \A k \in DOMAIN rs : rs[k].range_start \in Nat /\ rs[k].range_end \in Nat
    BY InBounds
  <2>. QED
    BY <1>7, <2>1, <2>2, <2>3
<1>9. \/ c < rs[ri].range_end /\ ni = ri /\ d = c + 1
      \/ /\ c = rs[ri].range_end
         /\ ni = IF ri = Len(rs) THEN 1 ELSE ri + 1
         /\ d = rs[ni].range_start
  BY <1>2, <1>6, MovedOn
<1>10. CameBy(next, i, j, y) <=>
         IF NotAfter(i, s, ni, d) THEN NotAfter(i, s, j, y) /\ NotAfter(j, y, ni, d)
                                  ELSE NotAfter(i, s, j, y) \/ NotAfter(j, y, ni, d)
  BY <1>4, <1>6 DEF CameBy
<1>11. \A l, z : CameBy(it, i, l, z) <=>
         IF NotAfter(i, s, ri, c) THEN NotAfter(i, s, l, z) /\ NotAfter(l, z, ri, c)
                                  ELSE NotAfter(i, s, l, z) \/ NotAfter(l, z, ri, c)
  BY <1>6 DEF CameBy
<1>12. CameBy(next, i, j, y) => CameBy(it, i, j, y) \/ (j = ni /\ y = d)
  BY <1>3, <1>7, <1>8, <1>9, <1>10, <1>11 DEF NotAfter
<1>13. CameBy(it, i, j, y) => CameBy(next, i, j, y)
  BY <1>3, <1>7, <1>8, <1>9, <1>10, <1>11 DEF NotAfter
<1>14. j = ni /\ y = d => CameBy(next, i, j, y)
  BY <1>3, <1>7, <1>10 DEF NotAfter
<1>15. ~CameBy(it, i, ni, d)
  BY <1>3, <1>7, <1>8, <1>9, <1>11 DEF NotAfter
<1>. QED
  BY <1>4, <1>6, <1>12, <1>13, <1>14, <1>15

\* One call of Iter::next passes one position.
LEMMA PassesOne ==
  ASSUME NEW rs, UsableSet(rs), NEW it \in Iters, InItsRange(rs, it), ~BackAtStart(rs, it),
         NEW j \in DOMAIN rs, NEW y \in Addr, RangeContains(rs[j], y),
         Passed(rs, NextIter(rs, it), j, y)
  PROVE  \/ Passed(rs, it, j, y)
         \/ j = NextIter(rs, it).range_index /\ y = NextIter(rs, it).cur
<1>. DEFINE m == Moved(rs, it)
            next == NextIter(rs, it)
<1>1. next \in Iters /\ InItsRange(rs, next) /\ next.cur \in Addr /\ next.range_index \in DOMAIN rs
  BY NextIterInItsRange DEF Iters, InItsRange
<1>2. next.range_index = m.range_index /\ next.cur = m.cur
  BY DEF NextIter, Anchored, Moved, Iters
<1>3. PICK i \in DOMAIN rs : StartsIn(rs, next, i) /\ CameBy(next, i, j, y)
  BY DEF Passed
<1>4. Addr \subseteq Nat /\ DOMAIN rs = 1 .. Len(rs) /\ Len(rs) \in Nat \ {0}
  BY MaxAddrAssumption DEF Addr, UsableSet
<1>5. CASE it.cur = NoIp \/ it.start_ip = NoIp
  <2>1. next.start_ip = next.cur
    BY <1>5 DEF NextIter, Anchored, Moved, Iters
  <2>. HIDE DEF next
  <2>2. /\ RangeContains(rs[i], next.cur)
        /\ RangeContains(rs[next.range_index], next.cur)
    BY <1>1, <1>3, <1>4, <2>1, MaxAddrAssumption DEF StartsIn, InItsRange, Addr, NoIp
  <2>3. i = next.range_index
    BY <1>1, <2>2, OneRange
  <2>4. PICK c \in Nat : c = next.cur
    BY <1>1, <1>4
  <2>5. /\ next.start_ip = c /\ next.range_index = i /\ next.cur = c
        /\ NotAfter(i, c, i, c)
    BY <2>1, <2>3, <2>4 DEF NotAfter
  <2>6. NotAfter(i, c, j, y) /\ NotAfter(j, y, i, c)
    BY <1>3, <2>5 DEF CameBy
  <2>7. j = i /\ y = c
    BY <1>4, <2>4, <2>6 DEF NotAfter
  <2>. QED
    BY <2>3, <2>4, <2>7 DEF next
<1>6. CASE it.cur # NoIp /\ it.start_ip # NoIp
  <2>1. next.start_ip = it.start_ip
    BY <1>6, MovedOn DEF NextIter, Anchored
  <2>2. StartsIn(rs, it, i)
    BY <1>3, <2>1 DEF StartsIn
  <2>. QED
    BY <1>3, <1>6, <2>2, CameByNext DEF Passed
<1>. QED
  BY <1>5, <1>6

\* An iterator that would come back to its start has passed every position.
LEMMA PassedAll ==
  ASSUME NEW rs, UsableSet(rs), NEW it \in Iters, InItsRange(rs, it), BackAtStart(rs, it),
         NEW i \in DOMAIN rs, StartsIn(rs, it, i),
         NEW j \in DOMAIN rs, NEW y \in Addr, RangeContains(rs[j], y)
  PROVE  Passed(rs, it, j, y)
<1>. DEFINE m == Moved(rs, it)
<1>1. it.cur # NoIp /\ it.start_ip # NoIp /\ m.cur = it.start_ip
  BY DEF BackAtStart
<1>2. Addr \subseteq Nat /\ DOMAIN rs = 1 .. Len(rs) /\ Len(rs) \in Nat \ {0}
  BY MaxAddrAssumption DEF Addr, UsableSet
<1>3. m.range_index \in DOMAIN rs /\ RangeContains(rs[m.range_index], m.cur)
  <2>1. NextIter(rs, it).range_index = m.range_index /\ NextIter(rs, it).cur = m.cur
    BY DEF NextIter, Anchored, Moved, Iters
  <2>. QED
    BY <2>1, NextIterInItsRange DEF InItsRange
<1>4. i = m.range_index
  BY <1>1, <1>3, OneRange DEF StartsIn, Iters
<1>5. PICK s, c, ri : s = it.start_ip /\ c = it.cur /\ ri = it.range_index
  OBVIOUS
<1>6. s \in Nat /\ c \in Nat /\ y \in Nat /\ ri \in DOMAIN rs
  BY <1>1, <1>2, <1>5 DEF InItsRange, Iters
<1>7. /\ rs[i].range_start <= s /\ s <= rs[i].range_end
      /\ rs[ri].range_start <= c /\ c <= rs[ri].range_end
      /\ rs[j].range_start <= y /\ y <= rs[j].range_end
      /\ \A n \in DOMAIN rs : rs[n].range_start \in Nat /\ rs[n].range_end \in Nat
  <2>1. RangeContains(rs[i], s) /\ RangeContains(rs[ri], c)
    BY <1>1, <1>5 DEF StartsIn, InItsRange
  <2>2. \A n \in DOMAIN rs, z \in Nat : RangeContains(rs[n], z) =>
          rs[n].range_start <= z /\ z <= rs[n].range_end
    BY InBounds
  <2>3. \A n \in DOMAIN rs : rs[n].range_start \in Nat /\ rs[n].range_end \in Nat
    BY InBounds
  <2>. QED
    BY <1>6, <2>1, <2>2, <2>3
<1>8. \/ c < rs[ri].range_end /\ i = ri /\ s = c + 1
      \/ /\ c = rs[ri].range_end
         /\ i = IF ri = Len(rs) THEN 1 ELSE ri + 1
         /\ s = rs[i].range_start
  BY <1>1, <1>4, <1>5, MovedOn
<1>9. CameBy(it, i, j, y)
  BY <1>2, <1>5, <1>6, <1>7, <1>8 DEF CameBy, NotAfter
<1>. QED
  BY <1>1, <1>9 DEF Passed

\* An iterator that has no start yet, or no current address, has passed
\* nothing.
LEMMA NothingPassed ==
  ASSUME NEW rs, UsableSet(rs), NEW it \in Iters, it.cur = NoIp \/ it.start_ip = NoIp,
         NEW j, NEW y
  PROVE  ~Passed(rs, it, j, y)
<1>1. \A i \in DOMAIN rs : ~RangeContains(rs[i], NoIp)
  BY InBounds DEF NoIp
<1>. QED
  BY <1>1 DEF Passed, StartsIn

\* What a scan has passed stays passed until it is back at its start.
LEMMA PassesOn ==
  ASSUME NEW rs, UsableSet(rs), NEW it \in Iters, InItsRange(rs, it), ~BackAtStart(rs, it),
         NEW j \in DOMAIN rs, NEW y \in Addr, RangeContains(rs[j], y), Passed(rs, it, j, y)
  PROVE  Passed(rs, NextIter(rs, it), j, y)
<1>1. it.cur # NoIp /\ it.start_ip # NoIp
  BY NothingPassed
<1>2. PICK i \in DOMAIN rs : StartsIn(rs, it, i) /\ CameBy(it, i, j, y)
  BY DEF Passed
<1>3. NextIter(rs, it).start_ip = it.start_ip /\ CameBy(NextIter(rs, it), i, j, y)
  BY <1>1, <1>2, CameByNext
<1>. QED
  BY <1>2, <1>3, NextIterInItsRange DEF Passed, StartsIn

\* The position that a call of Iter::next comes to was not passed before.
LEMMA PassesNew ==
  ASSUME NEW rs, UsableSet(rs), NEW it \in Iters, InItsRange(rs, it), ~BackAtStart(rs, it),
         it.cur # NoIp /\ it.start_ip # NoIp => \E i \in DOMAIN rs : StartsIn(rs, it, i)
  PROVE  LET next == NextIter(rs, it) IN
         /\ \E i \in DOMAIN rs : StartsIn(rs, next, i)
         /\ Passed(rs, next, next.range_index, next.cur)
         /\ ~Passed(rs, it, next.range_index, next.cur)
<1>. DEFINE next == NextIter(rs, it)
<1>1. /\ next \in Iters /\ InItsRange(rs, next) /\ next.cur # NoIp
      /\ next.cur \in Addr /\ next.range_index \in DOMAIN rs
      /\ RangeContains(rs[next.range_index], next.cur)
  BY NextIterInItsRange DEF Iters, InItsRange
<1>2. CASE it.cur = NoIp \/ it.start_ip = NoIp
  <2>1. next.start_ip = next.cur
    BY <1>2 DEF NextIter, Anchored, Moved, Iters
  <2>. HIDE DEF next
  <2>2. StartsIn(rs, next, next.range_index)
    BY <1>1, <2>1 DEF StartsIn
  <2>3. PICK c \in Nat, r \in Nat : c = next.cur /\ r = next.range_index
    BY <1>1, MaxAddrAssumption DEF Addr, Iters
  <2>4. CameBy(next, next.range_index, next.range_index, next.cur)
    BY <2>1, <2>3 DEF CameBy, NotAfter
  <2>5. Passed(rs, next, next.range_index, next.cur)
    BY <1>1, <2>2, <2>4 DEF Passed
  <2>. QED
    BY <1>1, <1>2, <2>2, <2>5, NothingPassed DEF next
<1>3. CASE it.cur # NoIp /\ it.start_ip # NoIp
  <2>1. PICK i \in DOMAIN rs : StartsIn(rs, it, i)
    BY <1>3
  <2>2. /\ next.start_ip = it.start_ip
        /\ CameBy(next, i, next.range_index, next.cur)
    BY <1>1, <1>3, <2>1, CameByNext
  <2>3. ASSUME NEW l \in DOMAIN rs, StartsIn(rs, it, l)
        PROVE  ~CameBy(it, l, next.range_index, next.cur)
    BY <1>1, <1>3, <2>3, CameByNext
  <2>. QED
    BY <1>1, <2>1, <2>2, <2>3 DEF Passed, StartsIn
<1>. QED
  BY <1>2, <1>3

\* Two iterators that move to the same address stand on the same address.
LEMMA MovedFromOne ==
  ASSUME NEW rs, UsableSet(rs),
         NEW it \in Iters, InItsRange(rs, it), it.cur # NoIp,
         NEW o \in Iters, InItsRange(rs, o), o.cur # NoIp,
         Moved(rs, it).cur = Moved(rs, o).cur
  PROVE  it.cur = o.cur
<1>1. PICK m, k : m = Moved(rs, it) /\ k = Moved(rs, o)
  OBVIOUS
<1>2. /\ m.range_index \in DOMAIN rs /\ m.cur \in Addr
      /\ RangeContains(rs[m.range_index], m.cur)
  <2>1. NextIter(rs, it).range_index = m.range_index /\ NextIter(rs, it).cur = m.cur
    BY <1>1 DEF NextIter, Anchored, Moved, Iters
  <2>. QED
    BY <2>1, NextIterInItsRange DEF InItsRange, Iters
<1>3. /\ k.range_index \in DOMAIN rs /\ k.cur \in Addr
      /\ RangeContains(rs[k.range_index], k.cur)
  <2>1. NextIter(rs, o).range_index = k.range_index /\ NextIter(rs, o).cur = k.cur
    BY <1>1 DEF NextIter, Anchored, Moved, Iters
  <2>. QED
    BY <2>1, NextIterInItsRange DEF InItsRange, Iters
<1>4. m.range_index = k.range_index
  BY <1>1, <1>2, <1>3, OneRange
<1>5. PICK c, d, ri, qi : c = it.cur /\ d = o.cur /\ ri = it.range_index /\ qi = o.range_index
  OBVIOUS
<1>6. /\ DOMAIN rs = 1 .. Len(rs) /\ Len(rs) \in Nat \ {0}
      /\ c \in Nat /\ d \in Nat /\ ri \in DOMAIN rs /\ qi \in DOMAIN rs
  BY <1>5, MaxAddrAssumption DEF UsableSet, InItsRange, Iters, Addr
<1>7. /\ rs[ri].range_start <= c /\ c <= rs[ri].range_end
      /\ rs[qi].range_start <= d /\ d <= rs[qi].range_end
      /\ \A j \in DOMAIN rs : rs[j].range_start \in Nat /\ rs[j].range_end \in Nat
  BY <1>5, <1>6, InBounds DEF InItsRange
<1>8. \/ c < rs[ri].range_end /\ m.range_index = ri /\ m.cur = c + 1
      \/ /\ c = rs[ri].range_end
         /\ m.range_index = IF ri = Len(rs) THEN 1 ELSE ri + 1
         /\ m.cur = rs[m.range_index].range_start
  BY <1>1, <1>5, MovedOn
<1>9. \/ d < rs[qi].range_end /\ k.range_index = qi /\ k.cur = d + 1
      \/ /\ d = rs[qi].range_end
         /\ k.range_index = IF qi = Len(rs) THEN 1 ELSE qi + 1
         /\ k.cur = rs[k.range_index].range_start
  BY <1>1, <1>5, MovedOn
<1>10. PICK x \in Nat, l \in DOMAIN rs :
         x = m.cur /\ x = k.cur /\ l = m.range_index /\ l = k.range_index
  BY <1>1, <1>2, <1>4, MaxAddrAssumption DEF Addr
<1>11. CASE c < rs[ri].range_end /\ l = ri /\ x = c + 1
  <2>1. CASE d < rs[qi].range_end /\ l = qi /\ x = d + 1
    BY <1>5, <1>6, <1>11, <2>1
  <2>2. CASE x = rs[l].range_start
    BY <1>6, <1>7, <1>11, <2>2
  <2>. QED
    BY <1>9, <1>10, <2>1, <2>2
<1>12. CASE /\ c = rs[ri].range_end
            /\ l = IF ri = Len(rs) THEN 1 ELSE ri + 1
            /\ x = rs[l].range_start
  <2>1. CASE d < rs[qi].range_end /\ l = qi /\ x = d + 1
    <3>1. x = rs[qi].range_start
      BY <1>12, <2>1
    <3>. QED
      BY <1>6, <1>7, <2>1, <3>1
  <2>2. CASE d = rs[qi].range_end /\ l = IF qi = Len(rs) THEN 1 ELSE qi + 1
    <3>1. ri = qi
      BY <1>6, <1>12, <2>2
    <3>. QED
      BY <1>5, <1>12, <2>2, <3>1
  <2>. QED
    BY <1>9, <1>10, <2>1, <2>2
<1>. QED
  BY <1>8, <1>10, <1>11, <1>12
=============================================================================
