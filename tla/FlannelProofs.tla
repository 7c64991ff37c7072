---------------------------- MODULE FlannelProofs ----------------------------
(***************************************************************************)
(* What becomes of a configuration, for any list of range sets and any     *)
(* file of flanneld: the verdict of host-local and of flannel before it,   *)
(* and the addresses a scan of an accepted range set offers.               *)
(***************************************************************************)
EXTENDS Flannel, IpIterProofs, FiniteSetTheorems, SequenceTheorems

----------------------------------------------------------------------------
(* One range.                                                              *)

LEMMA BlockBounds ==
  ASSUME NEW b \in Blocks
  PROVE  /\ b.ip \in Addr /\ b.size \in Nat \ {0, 3}
         /\ network(b) \in Nat /\ network(b) <= b.ip /\ b.ip < network(b) + b.size
         /\ network(b) + b.size - 1 <= MaxAddr
         /\ network(b) = b.ip <=> b.ip % b.size = 0
<1>1. b.ip \in Addr /\ b.size \in Nat \ {0, 3} /\ network(b) + b.size - 1 <= MaxAddr
  BY DEF Blocks
<1>2. PICK x \in Nat, s \in Nat \ {0} : x = b.ip /\ s = b.size
  BY <1>1, MaxAddrAssumption DEF Addr
<1>3. x % s \in 0 .. s - 1 /\ x % s <= x
  <2>1. x = s * (x \div s) + (x % s) /\ x \div s \in Nat /\ x % s \in 0 .. s - 1
    OBVIOUS
  <2>2. s * (x \div s) \in Nat
    BY <2>1
  <2>. QED
    BY <2>1, <2>2
<1>. QED
  BY <1>1, <1>2, <1>3 DEF network

\* The block that Subnet makes of another, written by its first address.
LEMMA SubnetIsBlock ==
  ASSUME NEW b \in Blocks
  PROVE  /\ Subnet(b) \in Blocks
         /\ Subnet(b).ip = network(b) /\ Subnet(b).size = b.size
         /\ Subnet(b).ip % Subnet(b).size = 0
<1>1. PICK x \in Nat, s \in Nat \ {0, 3} : x = b.ip /\ s = b.size
  BY BlockBounds, MaxAddrAssumption DEF Addr
<1>2. PICK q \in Nat, m \in 0 .. s - 1 : q = x \div s /\ m = x % s /\ x = s * q + m
  <2>1. x = s * (x \div s) + (x % s) /\ x \div s \in Nat /\ x % s \in 0 .. s - 1
    OBVIOUS
  <2>. QED
    BY <2>1
<1>3. network(b) = s * q
  <2>1. s * q \in Int
    OBVIOUS
  <2>. QED
    BY <1>1, <1>2, <2>1 DEF network
<1>4. (s * q) % s = 0
  OBVIOUS
<1>5. PICK net \in Nat : net = network(b)
  BY BlockBounds
<1>6. net % s = 0 /\ net <= x /\ net + s - 1 <= MaxAddr /\ x <= MaxAddr
  BY <1>1, <1>3, <1>4, <1>5, BlockBounds DEF Addr
<1>7. PICK c : c = Subnet(b)
  OBVIOUS
<1>8. c = [ip |-> net, size |-> s]
  BY <1>1, <1>5, <1>7 DEF Subnet
<1>9. network(c) = net
  BY <1>6, <1>8 DEF network
<1>10. net \in Addr
  BY <1>1, <1>6, MaxAddrAssumption DEF Addr
<1>11. c \in Blocks
  BY <1>6, <1>8, <1>9, <1>10 DEF Blocks
<1>. QED
  BY <1>1, <1>5, <1>6, <1>7, <1>8, <1>11

\* The fields that Range::canonicalize leaves.
LEMMA CanonicalFields ==
  ASSUME NEW r \in GivenRanges
  PROVE  /\ CanonicalRange(r).subnet = r.subnet
         /\ CanonicalRange(r).range_start =
              IF r.range_start = NoIp THEN next_ip(r.subnet.ip) ELSE r.range_start
         /\ CanonicalRange(r).range_end =
              IF r.range_end = NoIp THEN last_ip(r.subnet) ELSE r.range_end
         /\ CanonicalRange(r).gateway =
              IF r.gateway = NoIp THEN next_ip(r.subnet.ip) ELSE r.gateway
         /\ DOMAIN CanonicalRange(r) = {"subnet", "range_start", "range_end", "gateway"}
         /\ CanonicalRange(r) =
              [subnet |-> CanonicalRange(r).subnet, range_start |-> CanonicalRange(r).range_start,
               range_end |-> CanonicalRange(r).range_end, gateway |-> CanonicalRange(r).gateway]
<1>1. WithGateway(r) \in [subnet : Blocks, range_start : Addr \cup {NoIp},
                          range_end : Addr \cup {NoIp}, gateway : {WithGateway(r).gateway}]
  BY DEF WithGateway, GivenRanges
<1>. QED
  BY <1>1 DEF CanonicalRange, WithEnd, WithStart, WithGateway, GivenRanges

\* What is looked for does not depend on the gateway, nor on the order of the
\* bounds when the end is filled in.
Passable(r) == Sensible(r) \/ Overlooked(r)

LEMMA PassableIs ==
  ASSUME NEW r
  PROVE  Passable(r) <=> Bounded(r) /\ (StartOf(r) <= EndOf(r) \/ Inverted(r))
BY DEF Passable, Sensible, Overlooked

\* Range::canonicalize accepts what makes sense and what it overlooks, and
\* nothing else (range.rs:46-80).
LEMMA AcceptedIsPassable ==
  ASSUME NEW r \in GivenRanges
  PROVE  RangeAccepted(r) <=> Passable(r)
<1>1. PICK b \in Blocks, s \in Addr \cup {NoIp}, e \in Addr \cup {NoIp} :
        b = r.subnet /\ s = r.range_start /\ e = r.range_end
  BY DEF GivenRanges
<1>2. PICK net \in Nat, ip \in Nat, size \in Nat \ {0, 3} :
        net = network(b) /\ ip = b.ip /\ size = b.size
  BY BlockBounds, MaxAddrAssumption DEF Addr
<1>3. /\ net <= ip /\ ip < net + size /\ net + size - 1 <= MaxAddr
      /\ net = ip <=> ip % size = 0
  BY <1>2, BlockBounds
<1>4. PICK start \in Int : start = WithStart(r).range_start
  BY <1>1, <1>2, MaxAddrAssumption DEF WithStart, next_ip, Addr, NoIp, GivenRanges
<1>5. /\ WithStart(r).subnet = b /\ WithStart(r).range_end = e
      /\ start = IF s = NoIp THEN next_ip(ip) ELSE s
  BY <1>1, <1>2, <1>4 DEF WithStart, GivenRanges
<1>6. RangeAccepted(r) <=>
        /\ size > 2 /\ ip = net
        /\ s # NoIp => net <= s /\ s < net + size /\ (e # NoIp => s <= e)
        /\ e # NoIp => net <= e /\ e < net + size /\ (start # NoIp => start <= e)
  BY <1>1, <1>2, <1>4, <1>5, MaxAddrAssumption DEF RangeAccepted, RangeContains, InSubnet, Addr, NoIp
<1>7. PICK from \in Int, to \in Int : from = StartOf(r) /\ to = EndOf(r)
  BY <1>1, <1>2, MaxAddrAssumption
     DEF StartOf, EndOf, FirstHost, LastHost, Addr, NoIp
<1>8. Passable(r) <=>
        /\ size >= 4 /\ net = ip
        /\ ip <= from /\ from <= ip + size - 1
        /\ ip <= to /\ to <= ip + size - 1
        /\ from <= to \/ (e = NoIp /\ s = ip + size - 1)
  <2>1. Bounded(r) <=>
          /\ size >= 4 /\ net = ip
          /\ ip <= from /\ from <= ip + size - 1
          /\ ip <= to /\ to <= ip + size - 1
    BY <1>1, <1>2, <1>3, <1>7 DEF Bounded, SubnetOf
  <2>2. Inverted(r) <=> e = NoIp /\ s = ip + size - 1
    BY <1>1, <1>2 DEF Inverted
  <2>. QED
    BY <1>7, <2>1, <2>2, PassableIs
<1>9. /\ from = IF s = NoIp THEN ip + 1 ELSE s
      /\ to = IF e = NoIp THEN ip + size - 2 ELSE e
  BY <1>1, <1>2, <1>7 DEF StartOf, EndOf, FirstHost, LastHost
<1>10. s \in Int /\ e \in Int /\ (s # NoIp => s >= 0) /\ (e # NoIp => e >= 0)
  BY MaxAddrAssumption DEF Addr, NoIp
<1>11. size > 2 /\ ip = net => next_ip(ip) = ip + 1
  BY <1>2, <1>3, MaxAddrAssumption DEF next_ip
<1>12. CASE s = NoIp
  BY <1>2, <1>3, <1>5, <1>6, <1>8, <1>9, <1>10, <1>11, <1>12 DEF NoIp
<1>13. CASE s # NoIp
  <2>1. /\ start = s /\ from = s /\ s \in Nat
        /\ RangeAccepted(r) <=>
             /\ size > 2 /\ ip = net
             /\ net <= s /\ s < net + size
             /\ e # NoIp => s <= e /\ net <= e /\ e < net + size
    BY <1>5, <1>6, <1>9, <1>10, <1>13
  <2>2. CASE e = NoIp
    BY <1>2, <1>8, <1>9, <2>1, <2>2
  <2>3. CASE e # NoIp
    BY <1>2, <1>8, <1>9, <1>10, <2>1, <2>3
  <2>. QED
    BY <2>2, <2>3
<1>. QED
  BY <1>12, <1>13

\* What the fields are in a range that is accepted.
LEMMA CanonicalIsMeant ==
  ASSUME NEW r \in GivenRanges, Bounded(r)
  PROVE  /\ CanonicalRange(r).range_start = StartOf(r)
         /\ CanonicalRange(r).range_end = EndOf(r)
         /\ CanonicalRange(r).gateway = GatewayOf(r)
         /\ StartOf(r) \in Addr /\ EndOf(r) \in Addr /\ GatewayOf(r) \in Addr
         /\ CanonicalRange(r) \in CanonicalRanges
         /\ \A a \in Int : RangeContains(CanonicalRange(r), a) <=> a \in Span(r)
<1>1. PICK b \in Blocks, s \in Addr \cup {NoIp}, e \in Addr \cup {NoIp}, g \in Addr \cup {NoIp} :
        b = r.subnet /\ s = r.range_start /\ e = r.range_end /\ g = r.gateway
  BY DEF GivenRanges
<1>2. PICK net \in Nat, ip \in Nat, size \in Nat \ {0, 3} :
        net = network(b) /\ ip = b.ip /\ size = b.size
  BY BlockBounds, MaxAddrAssumption DEF Addr
<1>3. /\ ip + size - 1 <= MaxAddr /\ net = ip /\ size >= 4
      /\ StartOf(r) \in ip .. ip + size - 1
      /\ EndOf(r) \in ip .. ip + size - 1
  BY <1>1, <1>2, BlockBounds DEF Bounded, SubnetOf
<1>4. /\ next_ip(ip) = ip + 1 /\ last_ip(b) = ip + size - 2
      /\ ip + 1 \in Addr /\ ip + size - 2 \in Addr
  BY <1>2, <1>3, MaxAddrAssumption DEF next_ip, last_ip, Addr
<1>5. PICK c : c = CanonicalRange(r)
  OBVIOUS
<1>6. /\ c.subnet = b /\ c.range_start = StartOf(r) /\ c.range_end = EndOf(r)
      /\ c.gateway = GatewayOf(r)
      /\ c = [subnet |-> c.subnet, range_start |-> c.range_start,
              range_end |-> c.range_end, gateway |-> c.gateway]
  BY <1>1, <1>2, <1>4, <1>5, CanonicalFields DEF StartOf, EndOf, GatewayOf, FirstHost, LastHost
<1>7. StartOf(r) \in Addr /\ EndOf(r) \in Addr /\ GatewayOf(r) \in Addr
  BY <1>1, <1>2, <1>3, <1>4, MaxAddrAssumption DEF Addr, GatewayOf, FirstHost
<1>8. c \in CanonicalRanges
  <2>1. b \in [ip : Addr, size : Nat \ {0}]
    BY DEF Blocks
  <2>. QED
    BY <1>6, <1>7, <2>1 DEF CanonicalRanges
<1>9. ASSUME NEW a \in Int
      PROVE  RangeContains(c, a) <=> a \in Span(r)
  <2>1. StartOf(r) # NoIp /\ EndOf(r) # NoIp
    BY <1>7, MaxAddrAssumption DEF Addr, NoIp
  <2>2. RangeContains(c, a) <=> net <= a /\ a < net + size /\ StartOf(r) <= a /\ a <= EndOf(r)
    BY <1>2, <1>6, <2>1 DEF RangeContains, InSubnet
  <2>. QED
    BY <1>2, <1>3, <2>2 DEF Span
<1>. QED
  BY <1>3, <1>5, <1>6, <1>7, <1>8, <1>9

\* The end points that Range::overlaps compares decide, also for ranges that
\* are not in order (range.rs:98-120).
LEMMA OverlapIsMeant ==
  ASSUME NEW r \in GivenRanges, Passable(r), NEW o \in GivenRanges, Passable(o)
  PROVE  Overlap(CanonicalRange(r), CanonicalRange(o)) <=> ~Apart(r, o)
<1>. USE PassableIs
<1>1. PICK c, d : c = CanonicalRange(r) /\ d = CanonicalRange(o)
  OBVIOUS
<1>2. /\ c.range_start = StartOf(r) /\ c.range_end = EndOf(r)
      /\ d.range_start = StartOf(o) /\ d.range_end = EndOf(o)
      /\ \A a \in Int : RangeContains(c, a) <=> a \in Span(r)
      /\ \A a \in Int : RangeContains(d, a) <=> a \in Span(o)
  BY <1>1, CanonicalIsMeant
<1>3. PICK s \in Addr, e \in Addr, t \in Addr, f \in Addr :
        /\ s = StartOf(r) /\ e = EndOf(r) /\ t = StartOf(o) /\ f = EndOf(o)
  BY CanonicalIsMeant
<1>4. /\ s \in Nat /\ e \in Nat /\ t \in Nat /\ f \in Nat
      /\ s # NoIp /\ e # NoIp /\ t # NoIp /\ f # NoIp
      /\ Span(r) = s .. e /\ Span(o) = t .. f
  BY <1>3, MaxAddrAssumption DEF Span, Addr, NoIp
<1>5. Overlap(c, d) <=> t \in s .. e \/ f \in s .. e \/ s \in t .. f \/ e \in t .. f
  BY <1>2, <1>3, <1>4 DEF Overlap
<1>6. ASSUME NEW a \in s .. e, a \in t .. f
      PROVE  t \in s .. e \/ s \in t .. f
  BY <1>4, <1>6
<1>7. /\ Named(r) = (s .. e) \cup {s, e}
      /\ Named(o) = (t .. f) \cup {t, f}
  BY <1>3, <1>4 DEF Named
<1>8. ~Apart(r, o) <=> t \in s .. e \/ f \in s .. e \/ s \in t .. f \/ e \in t .. f
  <2>1. Apart(r, o) <=> /\ (s .. e) \cap ((t .. f) \cup {t, f}) = {}
                        /\ ((s .. e) \cup {s, e}) \cap (t .. f) = {}
    BY <1>4, <1>7 DEF Apart
  <2>. QED
    BY <1>6, <2>1
<1>. QED
  BY <1>1, <1>5, <1>8

----------------------------------------------------------------------------
(* Range sets.                                                             *)

LEMMA CanonicalSetIs ==
  ASSUME NEW rs \in Seq(GivenRanges)
  PROVE  /\ DOMAIN rs = 1 .. Len(rs) /\ Len(rs) \in Nat
         /\ DOMAIN CanonicalSet(rs) = DOMAIN rs
         /\ \A j \in DOMAIN rs :
              rs[j] \in GivenRanges /\ CanonicalSet(rs)[j] = CanonicalRange(rs[j])
BY DEF CanonicalSet

\* Ranges that pass and share no address with one another.
SetIsMeant(rs) ==
  /\ rs # <<>>
  /\ \A j \in DOMAIN rs : Passable(rs[j])
  /\ \A j, k \in DOMAIN rs : j # k => Apart(rs[j], rs[k])

LEMMA ApartIsSymmetric ==
  ASSUME NEW r, NEW o
  PROVE  Apart(r, o) <=> Apart(o, r)
<1>1. \A A, B : A \cap B = B \cap A
  OBVIOUS
<1>. QED
  BY <1>1 DEF Apart

LEMMA SetAcceptedIsMeant ==
  ASSUME NEW rs \in Seq(GivenRanges)
  PROVE  SetAccepted(rs) <=> SetIsMeant(rs)
<1>1. \A j \in DOMAIN rs : RangeAccepted(rs[j]) <=> Passable(rs[j])
  BY CanonicalSetIs, AcceptedIsPassable
<1>2. ASSUME \A j \in DOMAIN rs : Passable(rs[j]), NEW j \in DOMAIN rs, NEW k \in DOMAIN rs
      PROVE  Overlap(CanonicalSet(rs)[j], CanonicalSet(rs)[k]) <=> ~Apart(rs[j], rs[k])
  BY <1>2, CanonicalSetIs, OverlapIsMeant
<1>3. DOMAIN rs \subseteq Nat
  BY CanonicalSetIs
<1>4. ASSUME SetAccepted(rs)
      PROVE  SetIsMeant(rs)
  <2>1. \A j \in DOMAIN rs : Passable(rs[j])
    BY <1>1, <1>4 DEF SetAccepted
  <2>2. ASSUME NEW j \in DOMAIN rs, NEW k \in DOMAIN rs, j # k
        PROVE  Apart(rs[j], rs[k])
    <3>1. j < k \/ k < j
      BY <1>3, <2>2
    <3>2. Apart(rs[j], rs[k]) <=> Apart(rs[k], rs[j])
      BY ApartIsSymmetric
    <3>. QED
      BY <1>2, <1>4, <2>1, <3>1, <3>2 DEF SetAccepted
  <2>. QED
    BY <1>4, <2>1, <2>2 DEF SetIsMeant, SetAccepted
<1>5. ASSUME SetIsMeant(rs)
      PROVE  SetAccepted(rs)
  <2>1. ASSUME NEW j \in DOMAIN rs, NEW k \in DOMAIN rs, j < k
        PROVE  ~Overlap(CanonicalSet(rs)[j], CanonicalSet(rs)[k])
    BY <1>2, <1>3, <1>5, <2>1 DEF SetIsMeant
  <2>. QED
    BY <1>1, <1>5, <2>1 DEF SetIsMeant, SetAccepted
<1>. QED
  BY <1>4, <1>5

\* What is left of a set that load_ipam_config accepts, if it is in order.
LEMMA AcceptedIsUsable ==
  ASSUME NEW rs \in Seq(GivenRanges), SetAccepted(rs), InOrder(CanonicalSet(rs))
  PROVE  /\ UsableSet(CanonicalSet(rs))
         /\ \A j \in DOMAIN rs : \A a \in Int :
              RangeContains(CanonicalSet(rs)[j], a) <=> a \in Span(rs[j])
         /\ \A j \in DOMAIN rs : CanonicalSet(rs)[j].gateway = GatewayOf(rs[j])
<1>. DEFINE cs == CanonicalSet(rs)
<1>1. /\ DOMAIN rs = 1 .. Len(rs) /\ Len(rs) \in Nat /\ DOMAIN cs = DOMAIN rs
      /\ \A j \in DOMAIN rs : rs[j] \in GivenRanges /\ cs[j] = CanonicalRange(rs[j])
  BY CanonicalSetIs
<1>2. \A j \in DOMAIN rs : Bounded(rs[j])
  BY SetAcceptedIsMeant, PassableIs DEF SetIsMeant
<1>3. \A j \in DOMAIN rs :
        /\ cs[j] \in CanonicalRanges /\ cs[j].gateway = GatewayOf(rs[j])
        /\ \A a \in Int : RangeContains(cs[j], a) <=> a \in Span(rs[j])
  BY <1>1, <1>2, CanonicalIsMeant
<1>4. \A j \in DOMAIN rs :
        RangeContains(cs[j], cs[j].range_start) /\ RangeContains(cs[j], cs[j].range_end)
  <2>1. ASSUME NEW j \in DOMAIN rs
        PROVE  /\ cs[j].range_start \in Int /\ cs[j].range_start \in Span(rs[j])
               /\ cs[j].range_end \in Int /\ cs[j].range_end \in Span(rs[j])
    <3>1. PICK r \in GivenRanges : /\ r = rs[j] /\ Bounded(r) /\ cs[j] = CanonicalRange(r)
                                   /\ cs[j].range_start <= cs[j].range_end
      BY <1>1, <1>2 DEF InOrder
    <3>2. /\ cs[j].range_start = StartOf(r) /\ cs[j].range_end = EndOf(r)
          /\ StartOf(r) \in Addr /\ EndOf(r) \in Addr /\ StartOf(r) <= EndOf(r)
      BY <3>1, CanonicalIsMeant
    <3>. QED
      BY <3>1, <3>2, MaxAddrAssumption DEF Span, Addr
  <2>. QED
    BY <1>3, <2>1
<1>5. cs \in Seq(CanonicalRanges)
  <2>1. cs \in [1 .. Len(rs) -> CanonicalRanges]
    <3>1. cs = [j \in 1 .. Len(rs) |-> cs[j]]
      BY <1>1 DEF CanonicalSet
    <3>. HIDE DEF cs
    <3>. QED
      BY <1>1, <1>3, <3>1
  <2>. HIDE DEF cs
  <2>. QED
    BY <1>1, <2>1
<1>6. cs # <<>> /\ \A j, k \in DOMAIN cs : j < k => ~Overlap(cs[j], cs[k])
  <2>1. 1 \in DOMAIN cs
    BY <1>1 DEF SetAccepted
  <2>. QED
    BY <1>1, <2>1 DEF SetAccepted
<1>. QED
  BY <1>1, <1>3, <1>4, <1>5, <1>6 DEF UsableSet

----------------------------------------------------------------------------
(* Lists of range sets.                                                    *)

Lists == Seq(Seq(GivenRanges))

Canonical(sets) == [j \in DOMAIN sets |-> CanonicalSet(sets[j])]

\* What load_ipam_config accepts.
ListAccepted(sets) ==
  /\ sets # <<>>
  /\ \A j \in DOMAIN sets : SetAccepted(sets[j])
  /\ SetsDisjoint(Canonical(sets))

LEMMA ListOf ==
  ASSUME NEW sets \in Lists
  PROVE  /\ DOMAIN sets = 1 .. Len(sets) /\ Len(sets) \in Nat
         /\ \A j \in DOMAIN sets : sets[j] \in Seq(GivenRanges)
         /\ sets = <<>> <=> Len(sets) = 0
BY DEF Lists

LEMMA PlacesAre ==
  ASSUME NEW sets
  PROVE  /\ \A j \in DOMAIN sets : \A k \in DOMAIN sets[j] : <<j, k>> \in Places(sets)
         /\ \A p \in Places(sets) :
              p[1] \in DOMAIN sets /\ p[2] \in DOMAIN sets[p[1]] /\ p = <<p[1], p[2]>>
BY DEF Places

\* Two sets overlap when ranges of them share an address.
LEMMA SetOverlapIsMeant ==
  ASSUME NEW rs \in Seq(GivenRanges), SetIsMeant(rs),
         NEW os \in Seq(GivenRanges), SetIsMeant(os)
  PROVE  SetOverlap(CanonicalSet(rs), CanonicalSet(os))
           <=> \E j \in DOMAIN rs, k \in DOMAIN os : ~Apart(rs[j], os[k])
<1>1. ASSUME NEW j \in DOMAIN rs, NEW k \in DOMAIN os
      PROVE  Overlap(CanonicalSet(rs)[j], CanonicalSet(os)[k]) <=> ~Apart(rs[j], os[k])
  BY CanonicalSetIs, OverlapIsMeant DEF SetIsMeant
<1>. QED
  BY <1>1, CanonicalSetIs DEF SetOverlap

LEMMA AcceptedIsMeant ==
  ASSUME NEW sets \in Lists
  PROVE  ListAccepted(sets) <=> Acceptable(sets)
<1>1. \A j \in DOMAIN sets :
        /\ sets[j] \in Seq(GivenRanges)
        /\ SetAccepted(sets[j]) <=> SetIsMeant(sets[j])
  BY ListOf, SetAcceptedIsMeant
<1>2. DOMAIN sets \subseteq Nat
  BY ListOf
<1>3. ASSUME \A j \in DOMAIN sets : SetIsMeant(sets[j]),
             NEW j \in DOMAIN sets, NEW k \in DOMAIN sets
      PROVE  SetOverlap(Canonical(sets)[j], Canonical(sets)[k])
               <=> \E l \in DOMAIN sets[j], m \in DOMAIN sets[k] :
                     ~Apart(sets[j][l], sets[k][m])
  BY <1>1, <1>3, SetOverlapIsMeant DEF Canonical
<1>4. ASSUME ListAccepted(sets)
      PROVE  Acceptable(sets)
  <2>1. \A j \in DOMAIN sets : SetIsMeant(sets[j])
    BY <1>1, <1>4 DEF ListAccepted
  <2>2. ASSUME NEW p \in Places(sets), NEW q \in Places(sets), p # q
        PROVE  Apart(sets[p[1]][p[2]], sets[q[1]][q[2]])
    <3>1. PICK j \in DOMAIN sets, l \in DOMAIN sets[p[1]] : j = p[1] /\ l = p[2] /\ p = <<j, l>>
      BY PlacesAre
    <3>2. PICK k \in DOMAIN sets, m \in DOMAIN sets[q[1]] : k = q[1] /\ m = q[2] /\ q = <<k, m>>
      BY PlacesAre
    <3>3. CASE j = k
      <4>1. l # m
        BY <2>2, <3>1, <3>2, <3>3
      <4>. QED
        BY <2>1, <3>1, <3>2, <3>3, <4>1 DEF SetIsMeant
    <3>4. CASE j < k
      <4>1. ~SetOverlap(Canonical(sets)[j], Canonical(sets)[k])
        BY <1>4, <3>4 DEF ListAccepted, SetsDisjoint, Canonical
      <4>. QED
        BY <1>3, <2>1, <3>1, <3>2, <4>1
    <3>5. CASE k < j
      <4>1. ~SetOverlap(Canonical(sets)[k], Canonical(sets)[j])
        BY <1>4, <3>5 DEF ListAccepted, SetsDisjoint, Canonical
      <4>2. Apart(sets[k][m], sets[j][l])
        BY <1>3, <2>1, <3>1, <3>2, <4>1
      <4>. QED
        BY <3>1, <3>2, <4>2, ApartIsSymmetric
    <3>. QED
      BY <1>2, <3>3, <3>4, <3>5
  <2>3. \A p \in Places(sets) : Passable(sets[p[1]][p[2]])
    BY <2>1, PlacesAre DEF SetIsMeant
  <2>. QED
    BY <1>4, <2>1, <2>2, <2>3 DEF Acceptable, ListAccepted, SetIsMeant, Passable
<1>5. ASSUME Acceptable(sets)
      PROVE  ListAccepted(sets)
  <2>1. ASSUME NEW j \in DOMAIN sets
        PROVE  SetIsMeant(sets[j])
    <3>1. \A k \in DOMAIN sets[j] : Passable(sets[j][k])
      <4>. SUFFICES ASSUME NEW k \in DOMAIN sets[j]
                    PROVE  Passable(sets[j][k])
        OBVIOUS
      <4>1. <<j, k>> \in Places(sets)
        BY PlacesAre
      <4>. QED
        BY <1>5, <4>1 DEF Acceptable, Passable
    <3>2. ASSUME NEW k \in DOMAIN sets[j], NEW l \in DOMAIN sets[j], k # l
          PROVE  Apart(sets[j][k], sets[j][l])
      <4>1. <<j, k>> \in Places(sets) /\ <<j, l>> \in Places(sets) /\ <<j, k>> # <<j, l>>
        BY <3>2, PlacesAre
      <4>. QED
        BY <1>5, <4>1 DEF Acceptable
    <3>. QED
      BY <1>5, <3>1, <3>2 DEF Acceptable, SetIsMeant
  <2>2. ASSUME NEW j \in DOMAIN sets, NEW k \in DOMAIN sets, j < k
        PROVE  ~SetOverlap(Canonical(sets)[j], Canonical(sets)[k])
    <3>1. ASSUME NEW l \in DOMAIN sets[j], NEW m \in DOMAIN sets[k]
          PROVE  Apart(sets[j][l], sets[k][m])
      <4>1. <<j, l>> \in Places(sets) /\ <<k, m>> \in Places(sets) /\ <<j, l>> # <<k, m>>
        BY <1>2, <2>2, PlacesAre
      <4>. QED
        BY <1>5, <4>1 DEF Acceptable
    <3>. QED
      BY <1>3, <2>1, <3>1
  <2>3. DOMAIN Canonical(sets) = DOMAIN sets
    BY DEF Canonical
  <2>. QED
    BY <1>1, <1>5, <2>1, <2>2, <2>3 DEF ListAccepted, Acceptable, SetsDisjoint
<1>. QED
  BY <1>4, <1>5

----------------------------------------------------------------------------
(* The way to the verdict.                                                 *)

\* The sets before i are canonical and the others as they were given; and
\* the verdict is about the sets that were given.
ConfigInv ==
  /\ given \in Lists
  /\ stage \in {"reading", "rejected", "accepted", "scanning", "end", "panic"}
  /\ stage \in {"reading", "rejected", "accepted"} => offered = <<>>
  /\ stage = "reading" =>
       /\ i \in Nat \ {0}
       /\ ranges \in Seq({given[j] : j \in DOMAIN given} \cup
                         {CanonicalSet(given[j]) : j \in DOMAIN given})
       /\ Len(ranges) = Len(given)
       /\ \A j \in DOMAIN given :
            IF j < i THEN SetAccepted(given[j]) /\ ranges[j] = CanonicalSet(given[j])
                     ELSE ranges[j] = given[j]
  /\ stage = "rejected" => ~ListAccepted(given)
  /\ stage \notin {"reading", "rejected"} => ListAccepted(given) /\ ranges = Canonical(given)
  /\ stage \in {"scanning", "end", "panic"} => \E m \in DOMAIN ranges : set = ranges[m]

\* A list of which nothing has been read.
Unread ==
  given \in Lists /\ ranges = given /\ i = 1 /\ stage = "reading" /\ offered = <<>>

LEMMA ConfigStart == Unread => ConfigInv
<1>. SUFFICES ASSUME NEW sets \in Lists, given = sets, ranges = sets, i = 1, stage = "reading",
                     offered = <<>>
              PROVE  ConfigInv
  BY DEF Unread
<1>1. sets \in Seq({sets[j] : j \in DOMAIN sets} \cup {CanonicalSet(sets[j]) : j \in DOMAIN sets})
  <2>. DEFINE S == {sets[j] : j \in DOMAIN sets} \cup {CanonicalSet(sets[j]) : j \in DOMAIN sets}
  <2>1. /\ Len(sets) \in Nat /\ \A j \in 1 .. Len(sets) : sets[j] \in S
        /\ sets \in [1 .. Len(sets) -> Seq(GivenRanges)]
    BY ListOf DEF Lists
  <2>2. sets \in [1 .. Len(sets) -> S]
    <3>. HIDE DEF S
    <3>. QED
      BY <2>1
  <2>. HIDE DEF S
  <2>. QED
    BY <2>1, <2>2
<1>2. \A j \in DOMAIN sets : j \in Nat /\ ~(j < 1)
  BY ListOf
<1>. QED
  BY <1>1, <1>2 DEF ConfigInv

LEMMA CanonicalizeConfig ==
  ASSUME ConfigInv, Canonicalize
  PROVE  ConfigInv'
<1>1. /\ stage = "reading" /\ i \in Nat /\ i \in DOMAIN ranges /\ given' = given
      /\ offered' = offered /\ offered = <<>>
  BY DEF ConfigInv, Canonicalize, scan
<1>2. DOMAIN given = 1 .. Len(given) /\ DOMAIN ranges = DOMAIN given /\ i \in DOMAIN given
  BY <1>1, ListOf DEF ConfigInv
<1>3. ranges[i] = given[i]
  BY <1>1, <1>2 DEF ConfigInv
<1>4. CASE SetAccepted(ranges[i]) /\ stage' = stage
  <2>1. ranges' = [ranges EXCEPT ![i] = CanonicalSet(given[i])] /\ i' = i + 1
    BY <1>3, <1>4 DEF Canonicalize
  <2>. DEFINE S == {given[j] : j \in DOMAIN given} \cup {CanonicalSet(given[j]) : j \in DOMAIN given}
  <2>2. ranges \in Seq(S) /\ i \in 1 .. Len(ranges) /\ CanonicalSet(given[i]) \in S
    BY <1>1, <1>2 DEF ConfigInv
  <2>3. /\ ranges' \in Seq(S) /\ Len(ranges') = Len(ranges)
        /\ \A j \in 1 .. Len(ranges) :
             ranges'[j] = IF j = i THEN CanonicalSet(given[i]) ELSE ranges[j]
    <3>. HIDE DEF S
    <3>. QED
      BY <2>1, <2>2, ExceptSeq
  <2>4. ASSUME NEW j \in DOMAIN given
        PROVE  IF j < i + 1 THEN SetAccepted(given[j]) /\ ranges'[j] = CanonicalSet(given[j])
                            ELSE ranges'[j] = given[j]
    <3>1. ranges'[j] = IF j = i THEN CanonicalSet(given[i]) ELSE ranges[j]
      BY <1>1, <1>2, <2>2, <2>3
    <3>2. IF j < i THEN SetAccepted(given[j]) /\ ranges[j] = CanonicalSet(given[j])
                   ELSE ranges[j] = given[j]
      BY <1>1 DEF ConfigInv
    <3>3. j \in Nat /\ i \in Nat
      BY <1>1, <1>2
    <3>4. j < i + 1 <=> j < i \/ j = i
      BY <3>3
    <3>. QED
      BY <1>3, <1>4, <3>1, <3>2, <3>3, <3>4
  <2>5. i + 1 \in Nat \ {0}
    BY <1>1
  <2>6. Len(ranges') = Len(given) /\ given \in Lists
    BY <1>1, <2>3 DEF ConfigInv
  <2>. QED
    BY <1>1, <1>4, <2>1, <2>3, <2>4, <2>5, <2>6 DEF ConfigInv
<1>5. CASE ~SetAccepted(ranges[i]) /\ stage' = "rejected"
  <2>1. ~ListAccepted(given)
    BY <1>2, <1>3, <1>5 DEF ListAccepted
  <2>. QED
    BY <1>1, <1>5, <2>1 DEF ConfigInv
<1>. QED
  BY <1>4, <1>5 DEF Canonicalize

LEMMA ConfigNext ==
  ASSUME ConfigInv, Next
  PROVE  ConfigInv'
<1>1. CASE NoRanges
  <2>1. given = <<>>
    BY <1>1, ListOf DEF ConfigInv, NoRanges
  <2>. QED
    BY <1>1, <2>1 DEF ConfigInv, NoRanges, ListAccepted, config, scan
<1>2. CASE CompareSets
  <2>1. /\ stage = "reading" /\ ranges # <<>> /\ i > Len(ranges)
        /\ UNCHANGED <<given, ranges, offered>>
    BY <1>2 DEF CompareSets, config, scan
  <2>2. /\ DOMAIN given = 1 .. Len(given) /\ DOMAIN ranges = DOMAIN given /\ Len(given) \in Nat
        /\ i \in Nat /\ \A j \in DOMAIN given : j < i
    BY <2>1, ListOf DEF ConfigInv
  <2>3. \A j \in DOMAIN given : SetAccepted(given[j]) /\ ranges[j] = CanonicalSet(given[j])
    BY <2>1, <2>2 DEF ConfigInv
  <2>4. ranges = Canonical(given)
    <3>1. ranges = [j \in DOMAIN ranges |-> ranges[j]]
      BY <2>1 DEF ConfigInv
    <3>. QED
      BY <2>2, <2>3, <3>1 DEF Canonical
  <2>5. given # <<>>
    BY <2>1, <2>2 DEF ConfigInv
  <2>6. ListAccepted(given) <=> SetsDisjoint(ranges)
    BY <2>3, <2>4, <2>5 DEF ListAccepted
  <2>. QED
    BY <1>2, <2>1, <2>4, <2>6 DEF ConfigInv, CompareSets
<1>3. CASE StartScan \/ SkipGateway \/ Offer \/ End
  <2>1. /\ stage \in {"accepted", "scanning"} /\ UNCHANGED <<given, ranges>>
        /\ stage' \in {"scanning", "end", "panic"}
    BY <1>3 DEF StartScan, SkipGateway, Offer, End, config
  <2>2. \E m \in DOMAIN ranges' : set' = ranges'[m]
    <3>1. CASE StartScan
      BY <2>1, <3>1 DEF StartScan
    <3>2. CASE SkipGateway \/ Offer \/ End
      BY <2>1, <3>2 DEF SkipGateway, Offer, End, ConfigInv, scan
    <3>. QED
      BY <1>3, <3>1, <3>2
  <2>. QED
    BY <2>1, <2>2 DEF ConfigInv
<1>. QED
  BY <1>1, <1>2, <1>3, CanonicalizeConfig DEF Next

----------------------------------------------------------------------------
(* The scan of an accepted set.                                            *)

\* The address stands in range j of the set, where it is no gateway, and the
\* iterator came by.
Visited(j, y) ==
  RangeContains(set[j], y) /\ y # set[j].gateway /\ Passed(set, iter, j, y)

\* The iterator stands on the address reserved last, or has set out from the
\* address after it.
FromLast ==
  last # NoIp /\ ContainsIp(set, last) =>
    /\ iter.cur # NoIp
    /\ \E o \in Iters :
         /\ InItsRange(set, o) /\ o.cur = last
         /\ \/ iter = o /\ iter.start_ip = NoIp
            \/ Moved(set, o).cur = iter.start_ip

\* The addresses offered are those that the iterator came by.
ScanInv ==
  InOrder(set) /\ stage \in {"scanning", "end", "panic"} =>
    /\ stage # "panic"
    /\ \E m \in DOMAIN given : set = ranges[m]
    /\ iter \in Iters /\ InItsRange(set, iter)
    /\ iter.cur # NoIp /\ iter.start_ip # NoIp => \E l \in DOMAIN set : StartsIn(set, iter, l)
    /\ offered \in Seq(Addr)
    /\ \A y \in Addr : y \in Offered <=> \E j \in DOMAIN set : Visited(j, y)
    /\ IsFiniteSet(Offered) /\ Len(offered) = Cardinality(Offered)
    /\ iter.cur # NoIp /\ iter.start_ip # NoIp /\ iter.cur # set[iter.range_index].gateway =>
         offered # <<>> /\ offered[Len(offered)] = iter.cur
    /\ FromLast
    /\ stage = "end" => BackAtStart(set, iter)

\* Every set of an accepted list that is in order is as Iter needs it.
LEMMA SetOfList ==
  ASSUME ConfigInv, stage \notin {"reading", "rejected"}, NEW m \in DOMAIN given,
         InOrder(ranges[m])
  PROVE  /\ ranges[m] = CanonicalSet(given[m]) /\ UsableSet(ranges[m])
         /\ \A j \in DOMAIN given[m] : \A a \in Int :
              RangeContains(ranges[m][j], a) <=> a \in Span(given[m][j])
         /\ \A j \in DOMAIN given[m] : ranges[m][j].gateway = GatewayOf(given[m][j])
         /\ DOMAIN ranges[m] = DOMAIN given[m]
<1>1. given \in Lists /\ ranges = Canonical(given) /\ SetAccepted(given[m])
  BY DEF ConfigInv, ListAccepted
<1>2. given[m] \in Seq(GivenRanges) /\ ranges[m] = CanonicalSet(given[m])
  BY <1>1, ListOf DEF Canonical
<1>. QED
  BY <1>1, <1>2, AcceptedIsUsable, CanonicalSetIs

LEMMA AppendOffers ==
  ASSUME NEW s \in Seq(Addr), NEW x \in Addr
  PROVE  /\ Append(s, x) \in Seq(Addr) /\ Len(Append(s, x)) = Len(s) + 1 /\ Append(s, x) # <<>>
         /\ Append(s, x)[Len(s) + 1] = x
         /\ {Append(s, x)[m] : m \in DOMAIN Append(s, x)} = {s[m] : m \in DOMAIN s} \cup {x}
<1>1. /\ Append(s, x) \in Seq(Addr) /\ Len(Append(s, x)) = Len(s) + 1 /\ Append(s, x) # <<>>
      /\ Append(s, x)[Len(s) + 1] = x /\ Len(s) \in Nat
      /\ \A m \in 1 .. Len(s) : Append(s, x)[m] = s[m]
  OBVIOUS
<1>2. DOMAIN Append(s, x) = 1 .. Len(s) + 1 /\ DOMAIN s = 1 .. Len(s)
  BY <1>1
<1>3. PICK t : t = Append(s, x)
  OBVIOUS
<1>4. ASSUME NEW m \in DOMAIN t
      PROVE  t[m] \in {s[l] : l \in DOMAIN s} \cup {x}
  BY <1>1, <1>2, <1>3
<1>5. ASSUME NEW m \in DOMAIN s
      PROVE  s[m] \in {t[l] : l \in DOMAIN t}
  BY <1>1, <1>2, <1>3
<1>6. x \in {t[l] : l \in DOMAIN t}
  BY <1>1, <1>2, <1>3
<1>. QED
  BY <1>1, <1>3, <1>4, <1>5, <1>6

LEMMA StartsScan ==
  ASSUME ConfigInv, StartScan
  PROVE  ScanInv'
<1>. SUFFICES ASSUME InOrder(set')
              PROVE  ScanInv'
  BY DEF ScanInv, InOrder
<1>1. PICK m \in DOMAIN ranges, ip \in Addr \cup {NoIp} :
        set' = ranges[m] /\ last' = ip /\ iter' = new_iter(ranges[m], ip)
  BY DEF StartScan
<1>2. /\ stage = "accepted" /\ stage' = "scanning" /\ UNCHANGED <<given, ranges, offered>>
      /\ offered = <<>> /\ ranges = Canonical(given)
  BY DEF StartScan, config, ConfigInv
<1>3. InOrder(ranges[m])
  BY <1>1
<1>4. m \in DOMAIN given /\ UsableSet(ranges[m])
  BY <1>1, <1>2, <1>3, SetOfList DEF Canonical
<1>5. PICK rs, it : rs = ranges[m] /\ it = new_iter(rs, ip)
  OBVIOUS
<1>6. it \in Iters /\ InItsRange(rs, it)
  BY <1>4, <1>5, NewIterInItsRange
<1>7. it.cur = NoIp \/ it.start_ip = NoIp
  BY <1>5 DEF new_iter
<1>8. \A j, y : ~Passed(rs, it, j, y)
  BY <1>4, <1>5, <1>6, <1>7, NothingPassed
<1>9. ip # NoIp /\ ContainsIp(rs, ip) => it.cur = ip /\ it.start_ip = NoIp
  BY <1>5 DEF new_iter
<1>10. rs = set' /\ it = iter' /\ ip = last'
  BY <1>1, <1>5
<1>11. FromLast'
  BY <1>6, <1>9, <1>10 DEF FromLast
<1>12. offered' = <<>> /\ Offered' = {}
  BY <1>2 DEF Offered
<1>13. \A j, y : ~Visited(j, y)'
  BY <1>8, <1>10 DEF Visited
<1>14. IsFiniteSet({}) /\ Cardinality({}) = 0 /\ Len(<<>>) = 0 /\ <<>> \in Seq(Addr)
  BY FS_EmptySet
<1>15. \E l \in DOMAIN given' : set' = ranges'[l]
  BY <1>1, <1>2, <1>4
<1>. QED
  BY <1>2, <1>6, <1>7, <1>10, <1>11, <1>12, <1>13, <1>14, <1>15 DEF ScanInv

\* A call of Iter::next that does not come back to the start comes by one
\* address more, which was not offered yet.
LEMMA ScanGoesOn ==
  ASSUME ConfigInv, ScanInv, InOrder(set), stage = "scanning", ~BackAtStart(set, iter),
         iter' = NextIter(set, iter), UNCHANGED <<set, last>>
  PROVE  /\ iter' \in Iters /\ InItsRange(set, iter') /\ iter'.cur \in Addr
         /\ \E l \in DOMAIN set : StartsIn(set, iter', l)
         /\ FromLast'
         /\ iter'.cur \notin Offered
         /\ \A y \in Addr :
              (\E j \in DOMAIN set : Visited(j, y)') <=>
                \/ \E j \in DOMAIN set : Visited(j, y)
                \/ y = iter'.cur /\ y # set[iter'.range_index].gateway
<1>1. /\ iter \in Iters /\ InItsRange(set, iter) /\ FromLast
      /\ iter.cur # NoIp /\ iter.start_ip # NoIp => \E l \in DOMAIN set : StartsIn(set, iter, l)
      /\ \A y \in Addr : y \in Offered <=> \E j \in DOMAIN set : Visited(j, y)
      /\ UsableSet(set)
  BY SetOfList DEF ScanInv
<1>2. PICK rs, it, next : rs = set /\ it = iter /\ next = NextIter(rs, it)
  OBVIOUS
<1>3. /\ next \in Iters /\ InItsRange(rs, next) /\ next.cur \in Addr
      /\ next.range_index \in DOMAIN rs /\ RangeContains(rs[next.range_index], next.cur)
  BY <1>1, <1>2, NextIterInItsRange DEF Iters, InItsRange
<1>4. /\ \E l \in DOMAIN rs : StartsIn(rs, next, l)
      /\ Passed(rs, next, next.range_index, next.cur)
      /\ ~Passed(rs, it, next.range_index, next.cur)
  BY <1>1, <1>2, PassesNew
<1>5. ASSUME NEW j \in DOMAIN rs, NEW y \in Addr, RangeContains(rs[j], y)
      PROVE  Passed(rs, next, j, y) <=>
               Passed(rs, it, j, y) \/ (j = next.range_index /\ y = next.cur)
  BY <1>1, <1>2, <1>4, <1>5, PassesOn, PassesOne
<1>6. next = iter' /\ rs = set'
  BY <1>2
<1>7. next.cur \notin Offered
  <2>. SUFFICES ASSUME NEW j \in DOMAIN rs, RangeContains(rs[j], next.cur), Passed(rs, it, j, next.cur)
                PROVE  FALSE
    BY <1>1, <1>2, <1>3 DEF Visited
  <2>1. j = next.range_index
    BY <1>1, <1>2, <1>3, OneRange
  <2>. QED
    BY <1>4, <2>1
<1>8. ASSUME NEW y \in Addr
      PROVE  (\E j \in DOMAIN rs : Visited(j, y)') <=>
               \/ \E j \in DOMAIN rs : Visited(j, y)
               \/ y = next.cur /\ y # rs[next.range_index].gateway
  <2>1. ASSUME NEW j \in DOMAIN rs
        PROVE  Visited(j, y)' <=>
                 \/ Visited(j, y)
                 \/ j = next.range_index /\ y = next.cur /\ y # rs[j].gateway
    BY <1>2, <1>3, <1>5, <1>6 DEF Visited
  <2>. QED
    BY <1>3, <2>1
<1>9. FromLast'
  <2>. SUFFICES ASSUME last # NoIp, ContainsIp(set, last)
                PROVE  \E o \in Iters : /\ InItsRange(set, o) /\ o.cur = last
                                        /\ Moved(set, o).cur = iter'.start_ip
    <3>1. iter'.cur # NoIp
      BY <1>3, <1>6, MaxAddrAssumption DEF Addr, NoIp
    <3>. QED
      BY <3>1 DEF FromLast
  <2>1. iter.cur # NoIp
    BY <1>1 DEF FromLast
  <2>2. PICK o \in Iters : /\ InItsRange(set, o) /\ o.cur = last
                           /\ \/ iter = o /\ iter.start_ip = NoIp
                              \/ Moved(set, o).cur = iter.start_ip
    BY <1>1 DEF FromLast
  <2>3. CASE iter = o /\ iter.start_ip = NoIp
    <3>1. Moved(rs, it).start_ip = NoIp
      BY <1>1, <1>2, <2>2, <2>3, MovedOn
    <3>2. next.start_ip = Moved(rs, it).cur
      <4>1. PICK m : m = Moved(rs, it)
        OBVIOUS
      <4>2. DOMAIN m = {"range_index", "cur", "start_ip"}
        BY <4>1, <1>1, <1>2 DEF Moved, Iters
      <4>. QED
        BY <1>2, <3>1, <4>1, <4>2 DEF NextIter, Anchored
    <3>. QED
      BY <1>2, <1>6, <2>2, <2>3, <3>2
  <2>4. CASE iter.start_ip # NoIp /\ Moved(set, o).cur = iter.start_ip
    <3>1. next.start_ip = it.start_ip
      BY <1>1, <1>2, <2>4, <2>1, MovedOn DEF NextIter, Anchored
    <3>. QED
      BY <1>2, <1>6, <2>2, <2>4, <3>1
  <2>5. Moved(set, o).cur # NoIp
    <3>1. NextIter(set, o).cur = Moved(set, o).cur
      BY DEF NextIter, Anchored, Moved, Iters
    <3>. QED
      BY <1>1, <2>2, <3>1, NextIterInItsRange
  <2>. QED
    BY <2>2, <2>3, <2>4, <2>5
<1>. QED
  BY <1>2, <1>3, <1>4, <1>6, <1>7, <1>8, <1>9

LEMMA Offers ==
  ASSUME ConfigInv, ScanInv, Offer
  PROVE  ScanInv'
<1>. SUFFICES ASSUME InOrder(set')
              PROVE  ScanInv'
  BY DEF ScanInv, InOrder
<1>1. /\ stage = "scanning" /\ NextOutcome(set, iter) = "address" /\ iter' = NextIter(set, iter)
      /\ offered' = Append(offered, iter'.cur)
      /\ UNCHANGED <<given, ranges, stage, set, last>>
  BY DEF Offer, config
<1>2. InOrder(set)
  BY <1>1
<1>3. ~BackAtStart(set, iter) /\ Moved(set, iter).cur # set[Moved(set, iter).range_index].gateway
  BY <1>1 DEF NextOutcome
<1>4. iter'.cur = Moved(set, iter).cur /\ iter'.range_index = Moved(set, iter).range_index
  BY <1>1, <1>2 DEF NextIter, Anchored, Moved, Iters, ScanInv
<1>5. /\ offered \in Seq(Addr) /\ IsFiniteSet(Offered) /\ Len(offered) = Cardinality(Offered)
      /\ \A y \in Addr : y \in Offered <=> \E j \in DOMAIN set : Visited(j, y)
      /\ \E m \in DOMAIN given : set = ranges[m]
  BY <1>1, <1>2 DEF ScanInv
<1>6. PICK d : d = iter'.cur
  OBVIOUS
<1>7. /\ d \in Addr /\ d \notin Offered /\ FromLast'
      /\ iter' \in Iters /\ InItsRange(set, iter')
      /\ \E l \in DOMAIN set : StartsIn(set, iter', l)
      /\ \A y \in Addr : (\E j \in DOMAIN set : Visited(j, y)') <=>
           (\E j \in DOMAIN set : Visited(j, y)) \/ y = d
  BY <1>1, <1>2, <1>3, <1>4, <1>6, ScanGoesOn
<1>8. /\ offered' \in Seq(Addr) /\ Len(offered') = Len(offered) + 1 /\ offered' # <<>>
      /\ offered'[Len(offered')] = d /\ Offered' = Offered \cup {d}
  <2>1. /\ Append(offered, d) \in Seq(Addr) /\ Append(offered, d) # <<>>
        /\ Len(Append(offered, d)) = Len(offered) + 1
        /\ Append(offered, d)[Len(offered) + 1] = d
        /\ {Append(offered, d)[m] : m \in DOMAIN Append(offered, d)}
             = {offered[m] : m \in DOMAIN offered} \cup {d}
    BY <1>5, <1>7, AppendOffers
  <2>2. offered' = Append(offered, d)
    BY <1>1, <1>6
  <2>3. Offered' = {offered'[m] : m \in DOMAIN offered'} /\ Offered = {offered[m] : m \in DOMAIN offered}
    BY DEF Offered
  <2>. QED
    BY <2>1, <2>2, <2>3
<1>9. IsFiniteSet(Offered') /\ Len(offered') = Cardinality(Offered')
  BY <1>5, <1>7, <1>8, FS_AddElement
<1>10. \A y \in Addr : y \in Offered' <=> \E j \in DOMAIN set' : Visited(j, y)'
  BY <1>1, <1>5, <1>7, <1>8
<1>. QED
  BY <1>1, <1>5, <1>6, <1>7, <1>8, <1>9, <1>10 DEF ScanInv

LEMMA Skips ==
  ASSUME ConfigInv, ScanInv, SkipGateway
  PROVE  ScanInv'
<1>. SUFFICES ASSUME InOrder(set')
              PROVE  ScanInv'
  BY DEF ScanInv, InOrder
<1>1. /\ stage = "scanning" /\ NextOutcome(set, iter) = "skip" /\ iter' = NextIter(set, iter)
      /\ UNCHANGED <<given, ranges, stage, set, last, offered>>
  BY DEF SkipGateway, config
<1>2. InOrder(set)
  BY <1>1
<1>3. ~BackAtStart(set, iter) /\ Moved(set, iter).cur = set[Moved(set, iter).range_index].gateway
  BY <1>1 DEF NextOutcome
<1>4. iter'.cur = Moved(set, iter).cur /\ iter'.range_index = Moved(set, iter).range_index
  BY <1>1, <1>2 DEF NextIter, Anchored, Moved, Iters, ScanInv
<1>5. /\ offered \in Seq(Addr) /\ IsFiniteSet(Offered) /\ Len(offered) = Cardinality(Offered)
      /\ \A y \in Addr : y \in Offered <=> \E j \in DOMAIN set : Visited(j, y)
      /\ \E m \in DOMAIN given : set = ranges[m]
      /\ Offered' = Offered
  BY <1>1, <1>2 DEF ScanInv, Offered
<1>6. /\ FromLast'
      /\ iter' \in Iters /\ InItsRange(set, iter')
      /\ \E l \in DOMAIN set : StartsIn(set, iter', l)
      /\ \A y \in Addr : (\E j \in DOMAIN set : Visited(j, y)') <=>
           (\E j \in DOMAIN set : Visited(j, y))
  BY <1>1, <1>2, <1>3, <1>4, ScanGoesOn
<1>7. \A y \in Addr : y \in Offered' <=> \E j \in DOMAIN set' : Visited(j, y)'
  BY <1>1, <1>5, <1>6
<1>8. iter'.cur = set'[iter'.range_index].gateway
  BY <1>1, <1>3, <1>4
<1>. QED
  BY <1>1, <1>5, <1>6, <1>7, <1>8 DEF ScanInv

LEMMA Ends ==
  ASSUME ConfigInv, ScanInv, End
  PROVE  ScanInv'
<1>. SUFFICES ASSUME InOrder(set')
              PROVE  ScanInv'
  BY DEF ScanInv, InOrder
<1>1. /\ stage = "scanning" /\ stage' = NextOutcome(set, iter)
      /\ UNCHANGED <<given, ranges, set, last, iter, offered>>
  BY DEF End, config, scan
<1>2. InOrder(set)
  BY <1>1
<1>3. UsableSet(set) /\ iter \in Iters /\ InItsRange(set, iter)
  BY <1>1, <1>2, SetOfList DEF ScanInv
<1>4. stage' = "end" /\ BackAtStart(set, iter)
  BY <1>1, <1>3, NextIterInItsRange DEF End, NextOutcome
<1>5. \A j, y : Visited(j, y)' <=> Visited(j, y)
  BY <1>1 DEF Visited
<1>. QED
  BY <1>1, <1>2, <1>4, <1>5 DEF ScanInv, FromLast, Offered

LEMMA ScanNext ==
  ASSUME ConfigInv, ScanInv, Next
  PROVE  ScanInv'
<1>1. CASE NoRanges \/ Canonicalize \/ CompareSets
  BY <1>1 DEF NoRanges, Canonicalize, CompareSets, ScanInv, ConfigInv
<1>. QED
  BY <1>1, StartsScan, Offers, Skips, Ends DEF Next

\* What a finished scan has offered.
LEMMA ScanIsMeant ==
  ASSUME ConfigInv, ScanInv
  PROVE  ScanIsExact
<1>. SUFFICES ASSUME stage \in {"end", "panic"}, InOrder(set)
              PROVE  /\ stage = "end"
                     /\ \E m \in DOMAIN given : set = ranges[m] /\ Offered = Meant(given[m])
                     /\ Len(offered) = Cardinality(Offered)
  BY DEF ScanIsExact
<1>1. PICK m \in DOMAIN given : set = ranges[m] /\ stage = "end"
  BY DEF ScanInv
<1>2. /\ UsableSet(set) /\ DOMAIN set = DOMAIN given[m]
      /\ \A j \in DOMAIN given[m] : \A a \in Int : RangeContains(set[j], a) <=> a \in Span(given[m][j])
      /\ \A j \in DOMAIN given[m] : set[j].gateway = GatewayOf(given[m][j])
  BY <1>1, SetOfList
<1>3. iter \in Iters /\ InItsRange(set, iter) /\ BackAtStart(set, iter)
  BY <1>1 DEF ScanInv
<1>4. PICK l \in DOMAIN set : StartsIn(set, iter, l)
  BY <1>3 DEF ScanInv, BackAtStart
<1>5. ASSUME NEW y \in Addr, NEW j \in DOMAIN set, RangeContains(set[j], y)
      PROVE  Passed(set, iter, j, y)
  BY <1>2, <1>3, <1>4, <1>5, PassedAll
<1>6. Offered \subseteq Addr
  BY DEF ScanInv, Offered
<1>7. \A y \in Addr : y \in Offered <=>
        \E j \in DOMAIN set : RangeContains(set[j], y) /\ y # set[j].gateway
  BY <1>5 DEF ScanInv, Visited
<1>8. Addr \subseteq Int
  BY MaxAddrAssumption DEF Addr
<1>9. Offered \subseteq Meant(given[m])
  BY <1>2, <1>6, <1>7, <1>8 DEF Meant
<1>10. ASSUME NEW j \in DOMAIN given[m], NEW y \in Span(given[m][j]), y # GatewayOf(given[m][j])
       PROVE  y \in Offered
  <2>1. y \in Int
    <3>1. Span(given[m][j]) \subseteq Int
      BY DEF Span
    <3>. QED
      BY <3>1
  <2>2. RangeContains(set[j], y) /\ y # set[j].gateway
    BY <1>2, <1>10, <2>1
  <2>3. y \in Addr
    <3>1. set[j].range_start \in Addr /\ set[j].range_end \in Addr
      BY <1>2, RangeOfSet
    <3>2. set[j].range_start <= y /\ y <= set[j].range_end
      BY <1>2, <2>1, <2>2, InBounds
    <3>. QED
      BY <1>8, <2>1, <3>1, <3>2, MaxAddrAssumption DEF Addr
  <2>. QED
    BY <1>2, <1>7, <2>2, <2>3
<1>11. Meant(given[m]) \subseteq Offered
  BY <1>10 DEF Meant
<1>12. Offered = Meant(given[m])
  BY <1>9, <1>11
<1>13. Len(offered) = Cardinality(Offered)
  BY DEF ScanInv
<1>. QED
  BY <1>1, <1>12, <1>13

LEMMA LastIsLast ==
  ASSUME ConfigInv, ScanInv
  PROVE  LastComesLast
<1>. SUFFICES ASSUME stage = "end", InOrder(set), last \in Offered
              PROVE  offered[Len(offered)] = last
  BY DEF LastComesLast
<1>1. /\ UsableSet(set) /\ iter \in Iters /\ InItsRange(set, iter) /\ BackAtStart(set, iter)
      /\ last \in Addr
  BY SetOfList DEF ScanInv, Offered
<1>2. PICK j \in DOMAIN set : Visited(j, last)
  BY <1>1 DEF ScanInv
<1>3. last # NoIp /\ ContainsIp(set, last)
  BY <1>1, <1>2, MaxAddrAssumption DEF Visited, ContainsIp, Addr, NoIp
<1>4. /\ iter.cur # NoIp /\ iter.start_ip # NoIp /\ Moved(set, iter).cur = iter.start_ip
  BY <1>1 DEF BackAtStart
<1>5. PICK o \in Iters : /\ InItsRange(set, o) /\ o.cur = last
                         /\ Moved(set, o).cur = iter.start_ip
  BY <1>3, <1>4 DEF ScanInv, FromLast
<1>6. iter.cur = last
  BY <1>1, <1>3, <1>4, <1>5, MovedFromOne
<1>7. iter.range_index = j
  BY <1>1, <1>2, <1>3, <1>6, OneRange DEF InItsRange, Visited
<1>8. iter.cur # set[iter.range_index].gateway
  BY <1>2, <1>6, <1>7 DEF Visited
<1>. QED
  BY <1>4, <1>6, <1>8 DEF ScanInv

----------------------------------------------------------------------------
(* flannel before it.                                                      *)

\* One of the first lines has the key.
Says(key) == \E m \in DOMAIN file : m < n /\ file[m].k = key

\* What has been read so far: the last line of each key counts.
EnvIs ==
  /\ DOMAIN env = {"nws", "sn", "mtu", "ipmasq"}
  /\ env.sn = None <=> ~Says("FLANNEL_SUBNET")
  /\ env.sn # None =>
       \E m \in DOMAIN file :
         /\ m < n /\ file[m].k = "FLANNEL_SUBNET" /\ file[m].v \in Blocks
         /\ env.sn = Subnet(file[m].v)
         /\ \A l \in DOMAIN file : m < l /\ l < n => file[l].k # "FLANNEL_SUBNET"
  /\ env.mtu = None <=> ~Says("FLANNEL_MTU")
  /\ env.ipmasq = None <=> ~Says("FLANNEL_IPMASQ")

NodeRange == [subnet |-> env.sn, range_start |-> NoIp, range_end |-> NoIp, gateway |-> NoIp]
NodeSets == IF env.sn = None THEN <<>> ELSE <<<<NodeRange>>>>

\* What flannel asks for beside a subnet.
Wanted ==
  /\ \A m \in DOMAIN file : ~Unreadable(file[m])
  /\ LinesOf("FLANNEL_MTU") # {}
  /\ net_conf.delegate # None => Checked(net_conf.delegate)
  /\ LinesOf("FLANNEL_IPMASQ") # {} \/ Asked("ipMasq")
  /\ net_conf.cni_version # "" \/ Asked("cniVersion")

\* What the configuration handed on holds.
DelegateIs ==
  /\ LinesOf("FLANNEL_MTU") # {}
  /\ LinesOf("FLANNEL_IPMASQ") # {} \/ Asked("ipMasq")
  /\ delegate["ipam"]["ranges"] = NodeSets
  /\ "name" \in DOMAIN delegate
  /\ "cniVersion" \in DOMAIN delegate <=> net_conf.cni_version # "" \/ Asked("cniVersion")

\* Nothing has happened to host-local yet.
Untouched ==
  stage = "reading" /\ given = <<>> /\ ranges = <<>> /\ i = 1 /\ offered = <<>>

FileIs ==
  /\ DOMAIN file = 1 .. Len(file) /\ Len(file) \in Nat
  /\ \A m \in DOMAIN file : file[m].v = Bad \/ Readable(file[m])

\* The file has been read, up to n or all of it.
ReadTo ==
  /\ n \in Nat \ {0}
  /\ \A m \in DOMAIN file : m < n => ~Unreadable(file[m])
  /\ EnvIs

ReadAll == ReadTo /\ n \notin DOMAIN file

FlannelInv ==
  /\ step \in {"env", "check", "merge", "delegate", "over"}
  /\ net_conf = None => step = "over"
  /\ net_conf # None =>
       /\ FileIs
       /\ step # "over" => Untouched
       /\ step = "env" => ReadTo
       /\ step \in {"check", "merge", "delegate"} => ReadAll
       /\ step \in {"merge", "delegate"} /\ net_conf.delegate # None =>
            Checked(net_conf.delegate)
       /\ step = "merge" =>
            delegate = IF net_conf.delegate = None THEN <<>> ELSE net_conf.delegate
       /\ step = "delegate" => DelegateIs
       /\ step = "over" =>
            \/ stage = "rejected" /\ given = <<>> /\ ~Wanted
            \/ Wanted /\ ReadAll /\ given = NodeSets

LEMMA FlannelStart ==
  ASSUME FlannelInit
  PROVE  FlannelInv
<1>1. CASE step = "over" /\ net_conf = None
  BY <1>1 DEF FlannelInv
<1>2. CASE step = "env" /\ given = <<>> /\ \E input \in Inputs : file = input[1] /\ net_conf = input[2]
  <2>1. FileIs /\ net_conf # None
    BY <1>2, FlannelAssumption DEF FileIs
  <2>2. Untouched
    BY <1>2 DEF FlannelInit, Init, Untouched
  <2>3. n = 1 /\ env = NoEnv /\ \A m \in DOMAIN file : ~(m < 1)
    BY <2>1 DEF FlannelInit, FileIs
  <2>4. ReadTo
    BY <2>3 DEF ReadTo, EnvIs, Says, NoEnv
  <2>. QED
    BY <1>2, <2>1, <2>2, <2>4 DEF FlannelInv
<1>. QED
  BY <1>1, <1>2 DEF FlannelInit

\* The lines before the next one, and the next one.
LEMMA OneMoreLine ==
  ASSUME FileIs, n \in Nat, n \in DOMAIN file
  PROVE  \A m \in DOMAIN file : m < n + 1 <=> m < n \/ m = n
BY DEF FileIs

LEMMA Reads ==
  ASSUME FlannelInv, ReadLine
  PROVE  FlannelInv'
<1>1. /\ step = "env" /\ n \in DOMAIN file /\ UNCHANGED <<file, net_conf, delegate, given, ranges, i, offered>>
      /\ net_conf # None /\ FileIs /\ Untouched /\ ReadTo
  BY DEF FlannelInv, ReadLine, Bail, config, scan
<1>2. FileIs'
  BY <1>1 DEF FileIs
<1>3. CASE Unreadable(file[n]) /\ step' = "over" /\ stage' = "rejected"
  <2>1. ~Wanted'
    BY <1>1, <1>3 DEF Wanted, Unreadable
  <2>. QED
    BY <1>1, <1>2, <1>3, <2>1 DEF FlannelInv, Untouched
<1>4. CASE /\ ~Unreadable(file[n]) /\ env' = Read(env, file[n]) /\ n' = n + 1
           /\ UNCHANGED <<stage, step>>
  <2>1. \A m \in DOMAIN file : m < n + 1 <=> m < n \/ m = n
    BY <1>1, OneMoreLine DEF ReadTo
  <2>2. PICK line : line = file[n]
    OBVIOUS
  <2>3. line.k \in Keys => Readable(line)
    BY <1>1, <1>4, <2>2 DEF FileIs, Unreadable
  <2>4. \A key : Says(key)' <=> Says(key) \/ line.k = key
    BY <1>1, <1>4, <2>1, <2>2 DEF Says
  <2>5. DOMAIN env = {"nws", "sn", "mtu", "ipmasq"} /\ EnvIs
    BY <1>1 DEF ReadTo, EnvIs
  <2>6. EnvIs'
    <3>1. DOMAIN env' = {"nws", "sn", "mtu", "ipmasq"}
      BY <1>4, <2>5 DEF Read
    <3>2. /\ env'.sn = IF line.k = "FLANNEL_SUBNET" THEN Subnet(line.v) ELSE env.sn
          /\ env'.mtu = IF line.k = "FLANNEL_MTU" THEN line.v ELSE env.mtu
          /\ env'.ipmasq = IF line.k = "FLANNEL_IPMASQ" THEN line.v ELSE env.ipmasq
      BY <1>4, <2>2, <2>5 DEF Read
    <3>3. line.k = "FLANNEL_SUBNET" => line.v \in Blocks /\ Subnet(line.v) \in Blocks
      <4>. SUFFICES ASSUME line.k = "FLANNEL_SUBNET"
                    PROVE  line.v \in Blocks /\ Subnet(line.v) \in Blocks
        OBVIOUS
      <4>1. line.v \in Blocks
        BY <2>3 DEF Keys, Readable
      <4>. QED
        BY <4>1, SubnetIsBlock
    <3>4. line.k \in {"FLANNEL_MTU", "FLANNEL_IPMASQ"} => line.v # None
      BY <2>3 DEF Keys, Readable
    <3>5. CASE line.k = "FLANNEL_SUBNET"
      <4>1. env'.sn # None
        BY <3>2, <3>3, <3>5, FlannelAssumption
      <4>2. /\ n < n + 1 /\ file'[n].k = "FLANNEL_SUBNET" /\ file'[n].v \in Blocks
            /\ env'.sn = Subnet(file'[n].v)
            /\ \A l \in DOMAIN file' : n < l /\ l < n + 1 => file'[l].k # "FLANNEL_SUBNET"
        <5>1. \A l \in DOMAIN file : ~(n < l /\ l < n + 1)
          BY <1>1 DEF ReadTo, FileIs
        <5>. QED
          BY <1>1, <2>2, <3>2, <3>3, <3>5, <5>1 DEF ReadTo
      <4>. QED
        BY <1>1, <1>4, <2>4, <2>5, <3>1, <3>2, <3>5, <4>1, <4>2 DEF EnvIs
    <3>6. CASE line.k # "FLANNEL_SUBNET"
      <4>1. env'.sn # None =>
              \E m \in DOMAIN file' :
                /\ m < n' /\ file'[m].k = "FLANNEL_SUBNET" /\ file'[m].v \in Blocks
                /\ env'.sn = Subnet(file'[m].v)
                /\ \A l \in DOMAIN file' : m < l /\ l < n' => file'[l].k # "FLANNEL_SUBNET"
        BY <1>1, <1>4, <2>1, <2>2, <2>5, <3>2, <3>6 DEF EnvIs
      <4>. QED
        BY <2>4, <2>5, <3>1, <3>2, <3>4, <3>6, <4>1 DEF EnvIs
    <3>. QED
      BY <3>5, <3>6
  <2>7. ReadTo'
    <3>1. n + 1 \in Nat \ {0}
      BY <1>1 DEF ReadTo
    <3>. QED
      BY <1>1, <1>4, <2>1, <2>6, <3>1 DEF ReadTo, Unreadable
  <2>8. Untouched'
    BY <1>1, <1>4 DEF Untouched
  <2>. QED
    BY <1>1, <1>2, <1>4, <2>7, <2>8 DEF FlannelInv
<1>. QED
  BY <1>3, <1>4 DEF ReadLine, Bail

\* At the end of the file every line has been read.
LEMMA AllRead ==
  ASSUME FileIs, ReadAll
  PROVE  /\ \A m \in DOMAIN file : m < n /\ ~Unreadable(file[m])
         /\ \A key : Says(key) <=> LinesOf(key) # {}
<1>1. \A m \in DOMAIN file : m < n
  BY DEF FileIs, ReadAll, ReadTo
<1>. QED
  BY <1>1 DEF ReadAll, ReadTo, Says, LinesOf

LEMMA FileEnds ==
  ASSUME FlannelInv, EndOfFile
  PROVE  FlannelInv'
<1>1. /\ step = "env" /\ step' = "check" /\ n \notin DOMAIN file
      /\ UNCHANGED <<file, n, net_conf, env, delegate, given, ranges, i, stage, offered>>
      /\ net_conf # None /\ FileIs /\ Untouched /\ ReadTo
  BY DEF FlannelInv, EndOfFile, Go, config, scan
<1>. QED
  BY <1>1 DEF FlannelInv, FileIs, Untouched, ReadAll, ReadTo, EnvIs, Says

LEMMA ChecksDelegate ==
  ASSUME FlannelInv, CheckDelegate
  PROVE  FlannelInv'
<1>1. /\ step = "check" /\ UNCHANGED <<file, n, net_conf, env, given, ranges, i, offered>>
      /\ net_conf # None /\ FileIs /\ Untouched /\ ReadAll
  BY DEF FlannelInv, CheckDelegate, Bail, config, scan
<1>2. FileIs' /\ ReadAll'
  BY <1>1 DEF FileIs, ReadAll, ReadTo, EnvIs, Says
<1>3. CASE /\ net_conf.delegate # None => Checked(net_conf.delegate)
           /\ step' = "merge" /\ stage' = stage
           /\ delegate' = IF net_conf.delegate = None THEN <<>> ELSE net_conf.delegate
  <2>1. Untouched'
    BY <1>1, <1>3 DEF Untouched
  <2>. QED
    BY <1>1, <1>2, <1>3, <2>1 DEF FlannelInv
<1>4. CASE /\ net_conf.delegate # None /\ ~Checked(net_conf.delegate)
           /\ step' = "over" /\ stage' = "rejected"
  <2>1. ~Wanted'
    BY <1>1, <1>4 DEF Wanted
  <2>. QED
    BY <1>1, <1>2, <1>4, <2>1 DEF FlannelInv, Untouched
<1>. QED
  BY <1>3, <1>4 DEF CheckDelegate, Bail

LEMMA InsertIs ==
  ASSUME NEW map, NEW key, NEW value
  PROVE  /\ DOMAIN Insert(map, key, value) = DOMAIN map \cup {key}
         /\ DOMAIN OrInsert(map, key, value) = DOMAIN map \cup {key}
BY DEF Insert, OrInsert

\* The field that flannel sets in whatever the configuration has in `ipam'.
LEMMA IpamIs == Ipam["ranges"] = NodeSets
<1>. DEFINE own == OrInsert(IF net_conf.ipam = None THEN <<>> ELSE net_conf.ipam,
                            "type", "host-local")
<1>1. PICK m : m = own
  OBVIOUS
<1>2. PICK ranged : ranged = Insert(m, "ranges", NodeSets)
  OBVIOUS
<1>3. "ranges" \in DOMAIN ranged /\ ranged["ranges"] = NodeSets
  BY <1>2 DEF Insert
<1>4. Insert(ranged, "routes", env.nws)["ranges"] = NodeSets
  BY <1>3 DEF Insert
<1>5. Ipam = Insert(ranged, "routes", env.nws)
  BY <1>1, <1>2 DEF Ipam, NodeSets, NodeRange
<1>. QED
  BY <1>4, <1>5

LEMMA MergedIs ==
  /\ Merged["ipam"] = Ipam
  /\ "name" \in DOMAIN Merged
  /\ "cniVersion" \in DOMAIN Merged <=> net_conf.cni_version # "" \/ "cniVersion" \in DOMAIN delegate
<1>1. PICK named : named = OrInsert(Insert(delegate, "name", "flannel's"), "type", "bridge")
  OBVIOUS
<1>2. PICK masq : masq = IF "ipMasq" \in DOMAIN named THEN named
                         ELSE Insert(named, "ipMasq", ~env.ipmasq)
  OBVIOUS
<1>3. PICK mtu : mtu = OrInsert(masq, "mtu", env.mtu)
  OBVIOUS
<1>4. PICK gw : gw = IF mtu["type"] = "bridge" THEN OrInsert(mtu, "isGateway", TRUE) ELSE mtu
  OBVIOUS
<1>5. PICK version : version = IF net_conf.cni_version = "" THEN gw
                               ELSE Insert(gw, "cniVersion", net_conf.cni_version)
  OBVIOUS
<1>6. Merged = Insert(version, "ipam", Ipam)
  BY <1>1, <1>2, <1>3, <1>4, <1>5 DEF Merged
<1>7. DOMAIN named = DOMAIN delegate \cup {"name", "type"}
  BY <1>1 DEF Insert, OrInsert
<1>8. DOMAIN masq = DOMAIN named \cup {"ipMasq"}
  BY <1>2, InsertIs
<1>9. DOMAIN mtu = DOMAIN masq \cup {"mtu"}
  BY <1>3, InsertIs
<1>10. DOMAIN gw \in {DOMAIN mtu, DOMAIN mtu \cup {"isGateway"}}
  BY <1>4, InsertIs
<1>11. DOMAIN version = IF net_conf.cni_version = "" THEN DOMAIN gw ELSE DOMAIN gw \cup {"cniVersion"}
  BY <1>5, InsertIs
<1>12. DOMAIN Merged = DOMAIN version \cup {"ipam"} /\ Merged["ipam"] = Ipam
  BY <1>6 DEF Insert
<1>. QED
  BY <1>7, <1>8, <1>9, <1>10, <1>11, <1>12

LEMMA Merges ==
  ASSUME FlannelInv, Merge
  PROVE  FlannelInv'
<1>1. /\ step = "merge" /\ UNCHANGED <<file, n, net_conf, env, given, ranges, i, offered>>
      /\ net_conf # None /\ FileIs /\ Untouched /\ ReadAll
      /\ net_conf.delegate # None => Checked(net_conf.delegate)
      /\ delegate = IF net_conf.delegate = None THEN <<>> ELSE net_conf.delegate
  BY DEF FlannelInv, Merge, Bail, config, scan
<1>2. FileIs' /\ ReadAll'
  BY <1>1 DEF FileIs, ReadAll, ReadTo, EnvIs, Says
<1>3. \A key : key \in DOMAIN delegate <=> Asked(key)
  BY <1>1 DEF Asked
<1>4. Unwraps <=> (LinesOf("FLANNEL_IPMASQ") # {} \/ Asked("ipMasq")) /\ LinesOf("FLANNEL_MTU") # {}
  BY <1>1, <1>3, AllRead DEF Unwraps, ReadAll, ReadTo, EnvIs
<1>5. CASE Unwraps /\ delegate' = Merged /\ step' = "delegate" /\ stage' = stage
  <2>1. Untouched'
    BY <1>1, <1>5 DEF Untouched
  <2>2. NodeSets' = NodeSets
    BY <1>1 DEF NodeSets, NodeRange
  <2>3. DelegateIs'
    BY <1>1, <1>3, <1>4, <1>5, <2>2, IpamIs, MergedIs DEF DelegateIs, LinesOf, Asked
  <2>. QED
    BY <1>1, <1>2, <1>5, <2>1, <2>3 DEF FlannelInv
<1>6. CASE ~Unwraps /\ step' = "over" /\ stage' = "rejected"
  <2>1. ~Wanted
    BY <1>4, <1>6 DEF Wanted
  <2>2. Wanted' <=> Wanted
    BY <1>1 DEF Wanted, LinesOf, Asked
  <2>. QED
    BY <1>1, <1>2, <1>6, <2>1, <2>2 DEF FlannelInv, Untouched
<1>. QED
  BY <1>5, <1>6 DEF Merge, Bail

LEMMA Delegates ==
  ASSUME FlannelInv, Delegate
  PROVE  FlannelInv'
<1>1. /\ step = "delegate" /\ step' = "over" /\ UNCHANGED <<file, n, net_conf, env, delegate, offered>>
      /\ net_conf # None /\ FileIs /\ Untouched /\ ReadAll /\ DelegateIs
      /\ net_conf.delegate # None => Checked(net_conf.delegate)
  BY DEF FlannelInv, Delegate, Go, scan
<1>2. FileIs' /\ ReadAll'
  BY <1>1 DEF FileIs, ReadAll, ReadTo, EnvIs, Says
<1>3. /\ Wanted' <=> Wanted
      /\ NodeSets' = NodeSets
  BY <1>1 DEF Wanted, LinesOf, Asked, NodeSets, NodeRange
<1>4. \A m \in DOMAIN file : ~Unreadable(file[m])
  BY <1>1, AllRead
<1>5. Wanted <=> {"cniVersion", "name"} \subseteq DOMAIN delegate
  BY <1>1, <1>4 DEF Wanted, DelegateIs
<1>6. CASE {"cniVersion", "name"} \subseteq DOMAIN delegate /\ given' = NodeSets
  BY <1>1, <1>2, <1>3, <1>5, <1>6 DEF FlannelInv
<1>7. CASE ~({"cniVersion", "name"} \subseteq DOMAIN delegate) /\ stage' = "rejected" /\ given' = given
  BY <1>1, <1>2, <1>3, <1>5, <1>7 DEF FlannelInv, Untouched
<1>. QED
  BY <1>1, <1>6, <1>7 DEF Delegate, Bail, config, DelegateIs

LEMMA HostLocalGoesOn ==
  ASSUME FlannelInv, ConfigInv, step = "over", UNCHANGED flannel,
         given' = given, stage = "rejected" => stage' = "rejected"
  PROVE  FlannelInv'
<1>1. UNCHANGED <<file, n, net_conf, env, delegate, step>>
  BY DEF flannel
<1>2. /\ Wanted' <=> Wanted
      /\ NodeSets' = NodeSets
  BY <1>1 DEF Wanted, LinesOf, Asked, NodeSets, NodeRange
<1>3. (FileIs' <=> FileIs) /\ (ReadAll' <=> ReadAll)
  BY <1>1 DEF FileIs, ReadAll, ReadTo, EnvIs, Says
<1>. QED
  BY <1>1, <1>2, <1>3 DEF FlannelInv

----------------------------------------------------------------------------
(* The range that flannel hands on.                                        *)

LEMMA RangeOfNode ==
  ASSUME NEW b \in Blocks, b.ip % b.size = 0,
         NEW r, r = [subnet |-> b, range_start |-> NoIp, range_end |-> NoIp, gateway |-> NoIp]
  PROVE  /\ <<<<r>>>> \in Lists
         /\ Acceptable(<<<<r>>>>) <=> b.size >= 4
         /\ b.size >= 4 => InOrder(CanonicalSet(<<r>>))
         /\ Meant(<<r>>) = (b.ip + 2) .. (b.ip + b.size - 2)
<1>1. r \in GivenRanges
  BY DEF GivenRanges
<1>2. PICK ip \in Nat, size \in Nat \ {0, 3} : ip = b.ip /\ size = b.size /\ ip % size = 0
  BY BlockBounds, MaxAddrAssumption DEF Addr
<1>3. /\ StartOf(r) = ip + 1 /\ EndOf(r) = ip + size - 2 /\ GatewayOf(r) = ip + 1
      /\ r.subnet.size = size /\ r.subnet.ip = ip /\ r.range_start = NoIp
  BY <1>2 DEF StartOf, EndOf, GatewayOf, FirstHost, LastHost
<1>4. Bounded(r) <=> size >= 4
  BY <1>2, <1>3 DEF Bounded, SubnetOf
<1>5. Passable(r) <=> size >= 4
  BY <1>2, <1>3, <1>4, PassableIs DEF Inverted, NoIp
<1>6. PICK sets : sets = <<<<r>>>>
  OBVIOUS
<1>7. sets \in Lists /\ DOMAIN sets = {1} /\ DOMAIN sets[1] = {1} /\ sets[1][1] = r
  BY <1>1, <1>6 DEF Lists
<1>8. \A p \in Places(sets) : p = <<1, 1>> /\ sets[p[1]][p[2]] = r
  BY <1>7, PlacesAre
<1>9. <<1, 1>> \in Places(sets)
  BY <1>7, PlacesAre
<1>10. sets # <<>> /\ sets[1] # <<>>
  BY <1>6
<1>11. Acceptable(sets) <=> Passable(r)
  BY <1>7, <1>8, <1>9, <1>10 DEF Acceptable, Passable
<1>12. ASSUME size >= 4
       PROVE  InOrder(CanonicalSet(sets[1]))
  <2>1. sets[1] \in Seq(GivenRanges)
    BY <1>1, <1>6
  <2>2. /\ DOMAIN CanonicalSet(sets[1]) = {1}
        /\ CanonicalSet(sets[1])[1] = CanonicalRange(r)
    BY <1>7, <2>1, CanonicalSetIs
  <2>3. /\ CanonicalRange(r).range_start = ip + 1
        /\ CanonicalRange(r).range_end = ip + size - 2
    BY <1>1, <1>3, <1>4, <1>12, CanonicalIsMeant
  <2>. QED
    BY <1>2, <1>12, <2>2, <2>3 DEF InOrder
<1>13. Meant(<<r>>) = Span(r) \ {GatewayOf(r)}
  <2>1. PICK rs : rs = <<r>>
    OBVIOUS
  <2>2. DOMAIN rs = {1} /\ rs[1] = r
    BY <2>1
  <2>. QED
    BY <2>1, <2>2 DEF Meant
<1>14. ((ip + 1) .. (ip + size - 2)) \ {ip + 1} = (ip + 2) .. (ip + size - 2)
  BY <1>2
<1>. QED
  BY <1>2, <1>3, <1>5, <1>6, <1>7, <1>11, <1>12, <1>13, <1>14 DEF Span

\* The subnet that was read is the last one of the file.
LEMMA SubnetRead ==
  ASSUME FileIs, ReadAll, env.sn # None
  PROVE  /\ NodeSubnet \in Blocks /\ env.sn = Subnet(NodeSubnet)
         /\ LinesOf("FLANNEL_SUBNET") # {}
<1>1. PICK m \in DOMAIN file :
        /\ file[m].k = "FLANNEL_SUBNET" /\ file[m].v \in Blocks /\ env.sn = Subnet(file[m].v)
        /\ \A l \in DOMAIN file : m < l /\ l < n => file[l].k # "FLANNEL_SUBNET"
  BY DEF ReadAll, ReadTo, EnvIs
<1>2. DOMAIN file \subseteq Int
  BY DEF FileIs
<1>3. m \in LinesOf("FLANNEL_SUBNET")
  BY <1>1 DEF LinesOf
<1>4. \A l \in LinesOf("FLANNEL_SUBNET") : l <= m
  <2>. SUFFICES ASSUME NEW l \in DOMAIN file, file[l].k = "FLANNEL_SUBNET"
                PROVE  l <= m
    BY DEF LinesOf
  <2>1. l < n
    BY AllRead
  <2>. QED
    BY <1>1, <1>2, <2>1
<1>5. LinesOf("FLANNEL_SUBNET") \subseteq Int
  BY <1>2 DEF LinesOf
<1>6. (CHOOSE x \in LinesOf("FLANNEL_SUBNET") : \A l \in LinesOf("FLANNEL_SUBNET") : l <= x) = m
  <2>. DEFINE S == LinesOf("FLANNEL_SUBNET")
              x == CHOOSE y \in S : \A l \in S : l <= y
  <2>1. x \in S /\ \A l \in S : l <= x
    <3>. HIDE DEF S
    <3>. QED
      BY <1>3, <1>4 DEF S
  <2>2. x <= m /\ m <= x /\ x \in Int /\ m \in Int
    BY <1>3, <1>4, <1>5, <2>1
  <2>. HIDE DEF x
  <2>3. x = m
    BY <2>2
  <2>. QED
    BY <2>3 DEF x
<1>7. NodeSubnet = file[m].v
  BY <1>6 DEF NodeSubnet
<1>. QED
  BY <1>1, <1>3, <1>7

LEMMA NodeSetsAreLists == FileIs /\ ReadAll => NodeSets \in Lists
<1>. SUFFICES ASSUME FileIs, ReadAll
              PROVE  NodeSets \in Lists
  OBVIOUS
<1>1. CASE env.sn = None
  BY <1>1 DEF NodeSets, Lists
<1>2. CASE env.sn # None
  BY <1>2, SubnetRead, SubnetIsBlock, RangeOfNode DEF NodeSets, NodeRange
<1>. QED
  BY <1>1, <1>2

----------------------------------------------------------------------------
(* Every step of flannel and of host-local after it.                       *)

AllInv == FlannelInv /\ ConfigInv /\ ScanInv

LEMMA AllInit ==
  ASSUME FlannelInit
  PROVE  AllInv
<1>1. given \in Lists /\ ranges = given /\ i = 1 /\ stage = "reading" /\ offered = <<>>
  BY GivenAssumption DEF FlannelInit, Init, Lists
<1>2. ConfigInv
  BY <1>1, ConfigStart DEF Unread
<1>. QED
  BY <1>1, <1>2, FlannelStart DEF AllInv, ScanInv

LEMMA UntouchedConfig == Untouched => ConfigInv
<1>. SUFFICES ASSUME Untouched
              PROVE  ConfigInv
  OBVIOUS
<1>1. <<>> \in Lists
  BY DEF Lists
<1>. QED
  BY <1>1, ConfigStart DEF Untouched, Unread

LEMMA FlannelConfig ==
  ASSUME FlannelInv, FlannelInv', ReadLine \/ EndOfFile \/ CheckDelegate \/ Merge \/ Delegate
  PROVE  ConfigInv' /\ ScanInv'
<1>1. step # "over" /\ net_conf # None /\ net_conf' # None /\ Untouched /\ offered' = offered
  BY DEF FlannelInv, ReadLine, EndOfFile, CheckDelegate, Merge, Delegate, Go, scan
<1>2. CASE step' # "over"
  <2>1. Untouched'
    BY <1>1, <1>2 DEF FlannelInv
  <2>. QED
    <3>1. (Untouched => ConfigInv)'
      BY UntouchedConfig, PTL
    <3>. QED
      BY <2>1, <3>1 DEF ScanInv, Untouched
<1>3. CASE stage' = "rejected" /\ given' = <<>>
  <2>1. offered' = <<>>
    BY <1>1 DEF Untouched
  <2>2. ConfigInv'
    BY <1>3, <2>1 DEF ConfigInv, ListAccepted, Lists
  <2>. QED
    BY <1>3, <2>2 DEF ScanInv
<1>4. CASE step' = "over" /\ ~(stage' = "rejected" /\ given' = <<>>)
  <2>1. /\ FileIs' /\ ReadAll' /\ given' = NodeSets'
    BY <1>1, <1>4 DEF FlannelInv
  <2>2. Delegate /\ stage' = "reading" /\ ranges' = given' /\ i' = i
    BY <1>1, <1>4, <2>1 DEF ReadLine, EndOfFile, CheckDelegate, Merge, Delegate, Bail, Go, config,
                            Untouched
  <2>3. given' \in Lists
    <3>1. (FileIs /\ ReadAll => NodeSets \in Lists)'
      BY NodeSetsAreLists, PTL
    <3>. QED
      BY <2>1, <3>1
  <2>4. i' = 1 /\ offered' = <<>>
    BY <1>1, <2>2 DEF Untouched
  <2>5. ConfigInv'
    <3>1. (Unread => ConfigInv)'
      BY ConfigStart, PTL
    <3>. QED
      BY <2>2, <2>3, <2>4, <3>1 DEF Unread
  <2>. QED
    BY <2>2, <2>5 DEF ScanInv
<1>. QED
  BY <1>2, <1>3, <1>4

LEMMA AllNext ==
  ASSUME AllInv, [FlannelNext]_<<vars, flannel>>
  PROVE  AllInv'
<1>1. CASE ReadLine \/ EndOfFile \/ CheckDelegate \/ Merge \/ Delegate
  <2>1. FlannelInv'
    BY <1>1, Reads, FileEnds, ChecksDelegate, Merges, Delegates DEF AllInv
  <2>. QED
    BY <1>1, <2>1, FlannelConfig DEF AllInv
<1>2. CASE HostLocalStep
  <2>1. step = "over" /\ Next /\ UNCHANGED flannel
    BY <1>2 DEF HostLocalStep
  <2>2. given' = given /\ (stage = "rejected" => stage' = "rejected")
    BY <2>1 DEF Next, NoRanges, Canonicalize, CompareSets, StartScan, SkipGateway, Offer, End, config
  <2>. QED
    BY <2>1, <2>2, HostLocalGoesOn, ConfigNext, ScanNext DEF AllInv
<1>3. CASE UNCHANGED <<vars, flannel>>
  <2>1. UNCHANGED <<given, ranges, i, stage, set, last, iter, offered, file, n, net_conf, env,
                    delegate, step>>
    BY <1>3 DEF vars, flannel
  <2>2. FlannelInv'
    <3>1. NodeSets' = NodeSets
      BY <2>1 DEF NodeSets, NodeRange
    <3>2. /\ FileIs' <=> FileIs
          /\ Untouched' <=> Untouched
          /\ ReadTo' <=> ReadTo
          /\ ReadAll' <=> ReadAll
      BY <2>1 DEF FileIs, Untouched, ReadAll, ReadTo, EnvIs, Says
    <3>3. /\ Wanted' <=> Wanted
          /\ DelegateIs' <=> DelegateIs
      BY <2>1, <3>1 DEF Wanted, DelegateIs, LinesOf, Asked
    <3>. QED
      BY <2>1, <3>1, <3>2, <3>3 DEF AllInv, FlannelInv
  <2>3. ConfigInv'
    BY <2>1 DEF AllInv, ConfigInv
  <2>4. ScanInv'
    <3>1. /\ InOrder(set') <=> InOrder(set)
          /\ \A j, y : Visited(j, y)' <=> Visited(j, y)
          /\ Offered' = Offered
          /\ FromLast' <=> FromLast
      BY <2>1 DEF Visited, Offered, FromLast
    <3>. QED
      BY <2>1, <3>1 DEF AllInv, ScanInv
  <2>. QED
    BY <2>2, <2>3, <2>4 DEF AllInv
<1>. QED
  BY <1>1, <1>2, <1>3 DEF FlannelNext

LEMMA AllHolds == FlannelSpec => []AllInv
<1>1. FlannelInit => AllInv
  BY AllInit
<1>2. AllInv /\ [FlannelNext]_<<vars, flannel>> => AllInv'
  BY AllNext
<1>. QED
  BY <1>1, <1>2, PTL DEF FlannelSpec

\* load_ipam_config accepts exactly the lists whose ranges make sense, or have
\* one of the two faults that nobody looks for, and share no address, however
\* many and however large they are (range.rs:46-120, range_set.rs:18-52,
\* main.rs:40-51).
THEOREM VerdictExact == FlannelSpec => []VerdictIsExact
<1>1. AllInv => VerdictIsExact
  <2>. SUFFICES ASSUME ConfigInv, stage # "reading"
                PROVE  stage # "rejected" <=> Acceptable(given)
    BY DEF AllInv, VerdictIsExact
  <2>1. given \in Lists
    BY DEF ConfigInv
  <2>2. stage # "rejected" <=> ListAccepted(given)
    BY DEF ConfigInv
  <2>. QED
    BY <2>1, <2>2, AcceptedIsMeant
<1>. QED
  BY <1>1, AllHolds, PTL

\* A scan of an accepted set in order, from whatever the store remembers, does
\* not panic, and has offered at its end what the ranges stand for as they were
\* written, and each address once (allocator.rs:73-94, 117-147, 195-240).
THEOREM ScanExact == FlannelSpec => []ScanIsExact
<1>1. AllInv => ScanIsExact
  BY ScanIsMeant DEF AllInv
<1>. QED
  BY <1>1, AllHolds, PTL

\* The address reserved last is the last one to be offered again
\* (allocator.rs:117-146).
THEOREM LastIsOfferedLast == FlannelSpec => []LastComesLast
<1>1. AllInv => LastComesLast
  BY LastIsLast DEF AllInv
<1>. QED
  BY <1>1, AllHolds, PTL

\* What a node comes to, exactly: flannel got what it asks for, and there is a
\* subnet with hosts.
LEMMA NodeVerdict ==
  ASSUME FlannelInv, ConfigInv, net_conf # None, stage # "reading"
  PROVE  stage # "rejected" <=>
           Wanted /\ LinesOf("FLANNEL_SUBNET") # {} /\ NodeSubnet.size >= 4
<1>1. FileIs /\ step = "over"
  BY DEF FlannelInv, Untouched
<1>2. CASE stage = "rejected" /\ ~Wanted
  BY <1>2
<1>3. CASE Wanted /\ ReadAll /\ given = NodeSets
  <2>1. stage # "rejected" <=> ListAccepted(given)
    BY DEF ConfigInv
  <2>2. CASE env.sn = None
    <3>1. LinesOf("FLANNEL_SUBNET") = {}
      BY <1>1, <1>3, <2>2, AllRead DEF ReadAll, ReadTo, EnvIs
    <3>2. ~ListAccepted(given)
      BY <1>3, <2>2 DEF NodeSets, ListAccepted
    <3>. QED
      BY <2>1, <3>1, <3>2
  <2>3. CASE env.sn # None
    <3>1. /\ NodeSubnet \in Blocks /\ env.sn = Subnet(NodeSubnet)
          /\ LinesOf("FLANNEL_SUBNET") # {}
      BY <1>1, <1>3, <2>3, SubnetRead
    <3>2. env.sn \in Blocks /\ env.sn.size = NodeSubnet.size /\ env.sn.ip % env.sn.size = 0
      BY <3>1, SubnetIsBlock
    <3>3. given = <<<<NodeRange>>>>
      BY <1>3, <2>3 DEF NodeSets
    <3>4. given \in Lists /\ (Acceptable(given) <=> env.sn.size >= 4)
      BY <3>2, <3>3, RangeOfNode DEF NodeRange
    <3>. QED
      BY <1>3, <2>1, <3>1, <3>2, <3>4, AcceptedIsMeant
  <2>. QED
    BY <2>2, <2>3
<1>. QED
  BY <1>1, <1>2, <1>3 DEF FlannelInv

\* No node is set up from an incomplete file, and every plain network of a
\* complete one is, whatever the order of the lines and however many there are
\* (flannel: main.rs:36-94, 111-136, 147-191; range.rs:46-54).
THEOREM NodeIsAccepted == FlannelSpec => []FlannelVerdict
<1>1. AllInv => FlannelVerdict
  <2>. SUFFICES ASSUME FlannelInv, ConfigInv, net_conf # None, stage # "reading"
                PROVE  /\ stage # "rejected" => Complete
                       /\ Complete /\ Plain => stage # "rejected"
    BY DEF AllInv, FlannelVerdict
  <2>1. stage # "rejected" <=>
          Wanted /\ LinesOf("FLANNEL_SUBNET") # {} /\ NodeSubnet.size >= 4
    BY NodeVerdict
  <2>2. Wanted /\ LinesOf("FLANNEL_SUBNET") # {} /\ NodeSubnet.size >= 4 => Complete
    BY DEF Wanted, Complete
  <2>3. Complete /\ Plain => Wanted
    BY DEF Wanted, Complete, Plain
  <2>. QED
    BY <2>1, <2>2, <2>3 DEF Complete
<1>. QED
  BY <1>1, AllHolds, PTL

\* The containers of a node get addresses of the node's own subnet, and can
\* get all of them but the bridge's (flannel: main.rs:147-191).
THEOREM NodeHasItsSubnet == FlannelSpec => []NodeSubnetOnly
<1>1. AllInv => NodeSubnetOnly
  <2>. SUFFICES ASSUME FlannelInv, ConfigInv, ScanInv, net_conf # None, stage = "end"
                PROVE  Offered = (network(NodeSubnet) + 2)
                                   .. (network(NodeSubnet) + NodeSubnet.size - 2)
    BY DEF AllInv, NodeSubnetOnly
  <2>1. FileIs /\ ReadAll /\ given = NodeSets
    BY DEF FlannelInv, Untouched
  <2>2. env.sn # None
    BY <2>1 DEF ConfigInv, ListAccepted, NodeSets
  <2>3. /\ NodeSubnet \in Blocks /\ env.sn = Subnet(NodeSubnet)
    BY <2>1, <2>2, SubnetRead
  <2>4. /\ env.sn \in Blocks /\ env.sn.ip % env.sn.size = 0
        /\ env.sn.ip = network(NodeSubnet) /\ env.sn.size = NodeSubnet.size
    BY <2>3, SubnetIsBlock
  <2>5. given = <<<<NodeRange>>>>
    BY <2>1, <2>2 DEF NodeSets
  <2>6. /\ Acceptable(given) <=> env.sn.size >= 4
        /\ env.sn.size >= 4 => InOrder(CanonicalSet(<<NodeRange>>))
        /\ Meant(<<NodeRange>>) = (env.sn.ip + 2) .. (env.sn.ip + env.sn.size - 2)
    BY <2>4, <2>5, RangeOfNode DEF NodeRange
  <2>7. given \in Lists /\ ListAccepted(given) /\ ranges = Canonical(given)
    BY DEF ConfigInv
  <2>8. env.sn.size >= 4
    BY <2>6, <2>7, AcceptedIsMeant
  <2>9. \A m \in DOMAIN given : given[m] = <<NodeRange>> /\ ranges[m] = CanonicalSet(<<NodeRange>>)
    BY <2>5, <2>7 DEF Canonical
  <2>10. InOrder(set)
    <3>1. PICK m \in DOMAIN ranges : set = ranges[m]
      BY DEF ConfigInv
    <3>2. m \in DOMAIN given
      BY <2>7, <3>1 DEF Canonical
    <3>. QED
      BY <2>6, <2>8, <2>9, <3>1, <3>2
  <2>11. PICK m \in DOMAIN given : Offered = Meant(given[m])
    BY <2>10, ScanIsMeant DEF ScanIsExact
  <2>. QED
    BY <2>4, <2>6, <2>9, <2>11
<1>. QED
  BY <1>1, AllHolds, PTL
=============================================================================
