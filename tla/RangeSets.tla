------------------------------ MODULE RangeSets ------------------------------
(***************************************************************************)
(* The way of a configuration of the host-local plugin to the addresses it *)
(* yields: load_ipam_config makes the range sets canonical in place, one   *)
(* after the other, and compares them (main.rs); then one of the sets is   *)
(* scanned by new_iter and Iter::next until it answers None, as the loop   *)
(* of IpAllocator::get does when every address is taken (allocator.rs).    *)
(***************************************************************************)
EXTENDS IpIter, FiniteSets

CONSTANT Given   \* the lists of range sets a configuration file may hold

\* What serde makes of a range.  A block's size is a power of two, so never
\* three, and the block ends before the address space does.
Blocks ==
  {b \in [ip : Addr, size : Nat \ {0, 3}] : network(b) + b.size - 1 <= MaxAddr}

GivenRanges ==
  [subnet : Blocks, range_start : Addr \cup {NoIp}, range_end : Addr \cup {NoIp},
   gateway : Addr \cup {NoIp}]

ASSUME GivenAssumption == Given \subseteq Seq(Seq(GivenRanges))

VARIABLES
  given,    \* what the file holds
  ranges,   \* n.ipam.ranges
  i,        \* the range set about to be made canonical
  stage,    \* "reading", "rejected", "accepted", "scanning", "end" or "panic"
  set,      \* the range set that is scanned
  last,     \* what the store remembers of it, or NoIp
  iter,     \* the iterator
  offered   \* the addresses it has answered, in order

config == <<given, ranges, i>>
scan == <<set, last, iter, offered>>
vars == <<given, ranges, i, stage, set, last, iter, offered>>

NoIter == [range_index |-> 1, cur |-> NoIp, start_ip |-> NoIp]

Init ==
  /\ given \in Given
  /\ ranges = given
  /\ i = 1
  /\ stage = "reading"
  /\ set = <<>>
  /\ last = NoIp
  /\ iter = NoIter
  /\ offered = <<>>

----------------------------------------------------------------------------
(* load_ipam_config.                                                       *)

NoRanges ==
  /\ stage = "reading"
  /\ ranges = <<>>
  /\ stage' = "rejected"
  /\ UNCHANGED <<config, scan>>

\* RangeSet::canonicalize on the next set; the first error ends the command.
Canonicalize ==
  /\ stage = "reading"
  /\ i \in DOMAIN ranges
  /\ \/ /\ SetAccepted(ranges[i])
        /\ ranges' = [ranges EXCEPT ![i] = CanonicalSet(@)]
        /\ i' = i + 1
        /\ UNCHANGED stage
     \/ /\ ~SetAccepted(ranges[i])
        /\ stage' = "rejected"
        /\ UNCHANGED <<ranges, i>>
  /\ UNCHANGED <<given, scan>>

\* Each set against every later one.
SetsDisjoint(sets) ==
  \A j, k \in DOMAIN sets : j < k => ~SetOverlap(sets[j], sets[k])

CompareSets ==
  /\ stage = "reading"
  /\ ranges # <<>>
  /\ i > Len(ranges)
  /\ stage' = IF SetsDisjoint(ranges) THEN "accepted" ELSE "rejected"
  /\ UNCHANGED <<config, scan>>

----------------------------------------------------------------------------
(* The loop of IpAllocator::get over one of the sets.                      *)

StartScan ==
  /\ stage = "accepted"
  /\ \E n \in DOMAIN ranges, ip \in Addr \cup {NoIp} :
       /\ set' = ranges[n]
       /\ last' = ip
       /\ iter' = new_iter(ranges[n], ip)
  /\ stage' = "scanning"
  /\ UNCHANGED <<config, offered>>

\* Mutated form of SkipGateway: it looks again before it has moved on.
SkipInPlace ==
  /\ stage = "scanning"
  /\ NextOutcome(set, iter) = "skip"
  /\ UNCHANGED vars

SkipGateway ==
  /\ stage = "scanning"
  /\ NextOutcome(set, iter) = "skip"
  /\ iter' = NextIter(set, iter)
  /\ UNCHANGED <<config, stage, set, last, offered>>

Offer ==
  /\ stage = "scanning"
  /\ NextOutcome(set, iter) = "address"
  /\ iter' = NextIter(set, iter)
  /\ offered' = Append(offered, iter'.cur)
  /\ UNCHANGED <<config, stage, set, last>>

End ==
  /\ stage = "scanning"
  /\ NextOutcome(set, iter) \in {"end", "panic"}
  /\ stage' = NextOutcome(set, iter)
  /\ UNCHANGED <<config, scan>>

Next ==
  \/ NoRanges \/ Canonicalize \/ CompareSets
  \/ StartScan \/ SkipGateway \/ Offer \/ End

----------------------------------------------------------------------------
(* What a configuration means, without the order and the cases of the code.*)

FirstHost(r) == r.subnet.ip + 1
LastHost(r) == r.subnet.ip + r.subnet.size - 2

StartOf(r) == IF r.range_start = NoIp THEN FirstHost(r) ELSE r.range_start
EndOf(r) == IF r.range_end = NoIp THEN LastHost(r) ELSE r.range_end
GatewayOf(r) == IF r.gateway = NoIp THEN FirstHost(r) ELSE r.gateway

Span(r) == StartOf(r) .. EndOf(r)
SubnetOf(r) == r.subnet.ip .. (r.subnet.ip + r.subnet.size - 1)

\* The subnet has hosts and is written by its first address, and the bounds
\* lie in it.
Bounded(r) ==
  /\ r.subnet.size >= 4
  /\ r.subnet.ip % r.subnet.size = 0
  /\ {StartOf(r), EndOf(r)} \subseteq SubnetOf(r)

\* A range makes sense when moreover its gateway is in the subnet and its
\* bounds are in order (range.rs:12-29).
Sensible(r) == Bounded(r) /\ GatewayOf(r) \in SubnetOf(r) /\ StartOf(r) <= EndOf(r)

\* A start past the end that the code fills in: range_start is the broadcast
\* address and there is no range_end.
Inverted(r) ==
  r.range_end = NoIp /\ r.range_start = r.subnet.ip + r.subnet.size - 1

\* What does not make sense and is not looked for: a gateway from elsewhere,
\* and an inverted range.
Overlooked(r) ==
  /\ Bounded(r)
  /\ \/ GatewayOf(r) \notin SubnetOf(r) /\ StartOf(r) <= EndOf(r)
     \/ Inverted(r)

\* Ranges in order are apart when they share no address; an inverted one has
\* no address but its two bounds.
Named(r) == Span(r) \cup {StartOf(r), EndOf(r)}
Apart(r, s) == Span(r) \cap Named(s) = {} /\ Named(r) \cap Span(s) = {}

\* A range's place in the list: its set and its position there.
Places(sets) == UNION {{<<j, k>> : k \in DOMAIN sets[j]} : j \in DOMAIN sets}

Acceptable(sets) ==
  /\ sets # <<>>
  /\ \A j \in DOMAIN sets : sets[j] # <<>>
  /\ \A p \in Places(sets) : Sensible(sets[p[1]][p[2]]) \/ Overlooked(sets[p[1]][p[2]])
  /\ \A p, q \in Places(sets) : p # q => Apart(sets[p[1]][p[2]], sets[q[1]][q[2]])

\* The addresses a list of ranges stands for.
Meant(rs) == UNION {Span(rs[n]) \ {GatewayOf(rs[n])} : n \in DOMAIN rs}

----------------------------------------------------------------------------
(* Properties.                                                             *)

\* load_ipam_config accepts the configurations whose ranges make sense and
\* share no address, within a set or between sets, and no others but for
\* gateways from elsewhere and inverted ranges: checking only the four end
\* points of two ranges misses no overlap, and checking a start while the end
\* is still None misses no other bad bound (range.rs:46-120, range_set.rs:
\* 18-52, main.rs:40-51).
VerdictIsExact ==
  stage # "reading" => (stage # "rejected" <=> Acceptable(given))

\* range.rs:44: canonicalize `takes a given range and ensures that all
\* information is consistent'; by the comments of the fields (range.rs:12-29)
\* start, end and gateway are addresses inside of the subnet, and allocation
\* goes from the start to the end.
Consistent(r) ==
  /\ \A a \in {r.range_start, r.range_end, r.gateway} : InSubnet(r.subnet, a)
  /\ r.range_start <= r.range_end
AcceptedIsConsistent ==
  stage = "accepted" => \A p \in Places(ranges) : Consistent(ranges[p[1]][p[2]])

\* No range of a canonical set is inverted.
InOrder(rs) == \A l \in DOMAIN rs : rs[l].range_start <= rs[l].range_end

Offered == {offered[n] : n \in DOMAIN offered}

\* A scan of an accepted set in order, whatever else the configuration holds
\* and whatever address is remembered, comes to an end and to no panic in
\* Iter::next, and offers the addresses that its ranges, as they were written,
\* stand for, but no gateway, and each of them once: no configuration loses an
\* address or hands one out that it does not name, and `no IP addresses
\* available' is said when none is (allocator.rs:73-94, 117-147, 195-240;
\* range.rs:56-78).
ScanIsExact ==
  stage \in {"end", "panic"} /\ InOrder(set) =>
    /\ stage = "end"
    /\ \E n \in DOMAIN given : set = ranges[n] /\ Offered = Meant(given[n])
    /\ Len(offered) = Cardinality(Offered)

\* The address reserved last is the last one to be offered again, so one that
\* was just released is not handed out while others are free (allocator.rs:
\* 117-146, and the test test_2, 323-336).
LastComesLast ==
  stage = "end" /\ InOrder(set) /\ last \in Offered => offered[Len(offered)] = last

\* Every command comes to a verdict, and every scan to an end, wherever it
\* began, also when the set holds nothing but its gateway.  (That of an
\* inverted range may be a panic, past the last address there is.)
ScanEnds == <>(stage \in {"rejected", "end", "panic"})
=============================================================================
