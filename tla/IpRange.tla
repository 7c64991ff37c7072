------------------------------ MODULE IpRange ------------------------------
(***************************************************************************)
(* IPv4 address ranges as the host-local plugin configures them: address   *)
(* arithmetic (allocator.rs), one range (range.rs) and range sets          *)
(* (range_set.rs).  Pure operators, no state.                              *)
(*                                                                         *)
(* An address is a number, an Option is an address or NoIp, a subnet is    *)
(* the address written before the slash with the size of the block (a      *)
(* prefix of length n is a block of 2^(32-n)).  IPv6 is left out: next_ip  *)
(* and last_ip are todo!() for it.                                         *)
(***************************************************************************)
EXTENDS Integers, Sequences

CONSTANT MaxAddr   \* u32::MAX in the program

ASSUME MaxAddrAssumption == MaxAddr \in Nat

Addr == 0 .. MaxAddr
NoIp == -1

\* u32::overflowing_add(1): the successor, or None past the last address.
next_ip(ip) == IF ip = MaxAddr THEN NoIp ELSE ip + 1

network(subnet) == subnet.ip - (subnet.ip % subnet.size)
InSubnet(subnet, a) == network(subnet) <= a /\ a < network(subnet) + subnet.size

\* Mutated form of last_ip: the broadcast address itself.
broadcast(subnet) == network(subnet) + subnet.size - 1

\* The address before the broadcast address of the block.
last_ip(subnet) == network(subnet) + subnet.size - 2

----------------------------------------------------------------------------
(* One range: [subnet, range_start, range_end, gateway].                   *)

RangeContains(r, a) ==
  /\ InSubnet(r.subnet, a)
  /\ r.range_start # NoIp => r.range_start <= a
  /\ r.range_end # NoIp => a <= r.range_end

\* The fields of Range::canonicalize, filled in the order the code fills
\* them: range_start is checked while range_end may still be None.
WithGateway(r) ==
  IF r.gateway = NoIp THEN [r EXCEPT !.gateway = next_ip(r.subnet.ip)] ELSE r
WithStart(r) ==
  IF r.range_start = NoIp THEN [r EXCEPT !.range_start = next_ip(r.subnet.ip)] ELSE r
WithEnd(r) ==
  IF r.range_end = NoIp THEN [r EXCEPT !.range_end = last_ip(r.subnet)] ELSE r

RangeAccepted(r) ==
  /\ r.subnet.size > 2
  /\ r.subnet.ip = network(r.subnet)
  /\ r.range_start # NoIp => RangeContains(r, r.range_start)
  /\ r.range_end # NoIp => RangeContains(WithStart(r), r.range_end)

CanonicalRange(r) == WithEnd(WithStart(WithGateway(r)))

\* Mutated form of Overlap: a range around the other one is overlooked.
OverlapOneWay(r, other) ==
  /\ NoIp \notin {r.range_start, r.range_end, other.range_start, other.range_end}
  /\ RangeContains(r, other.range_start) \/ RangeContains(r, other.range_end)

Overlap(r, other) ==
  /\ NoIp \notin {r.range_start, r.range_end, other.range_start, other.range_end}
  /\ \/ RangeContains(r, other.range_start)
     \/ RangeContains(r, other.range_end)
     \/ RangeContains(other, r.range_start)
     \/ RangeContains(other, r.range_end)

----------------------------------------------------------------------------
(* A range set is a sequence of ranges.                                    *)

ContainsIp(rs, a) == \E i \in DOMAIN rs : RangeContains(rs[i], a)

CanonicalSet(rs) == [i \in DOMAIN rs |-> CanonicalRange(rs[i])]

SetAccepted(rs) ==
  /\ rs # <<>>
  /\ \A i \in DOMAIN rs : RangeAccepted(rs[i])
  /\ \A i, j \in DOMAIN rs :
       i < j => ~Overlap(CanonicalSet(rs)[i], CanonicalSet(rs)[j])

SetOverlap(rs, other) ==
  \E i \in DOMAIN rs, j \in DOMAIN other : Overlap(rs[i], other[j])

\* What load_ipam_config leaves of a range set it accepts, but for ranges
\* whose start lies past their end (Inverted of RangeSets).
CanonicalRanges ==
  [subnet : [ip : Addr, size : Nat \ {0}], range_start : Addr, range_end : Addr, gateway : Addr]

UsableSet(rs) ==
  /\ rs \in Seq(CanonicalRanges)
  /\ rs # <<>>
  /\ \A i \in DOMAIN rs :
       RangeContains(rs[i], rs[i].range_start) /\ RangeContains(rs[i], rs[i].range_end)
  /\ \A i, j \in DOMAIN rs : i < j => ~Overlap(rs[i], rs[j])

\* The addresses the plugin may hand out of a canonical range set.
Allocatable(rs) ==
  UNION {{a \in Addr : RangeContains(rs[i], a) /\ a # rs[i].gateway} : i \in DOMAIN rs}

============================================================================
