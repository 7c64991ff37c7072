------------------------------- MODULE IpIter -------------------------------
(***************************************************************************)
(* The iterator over the addresses of a range set (allocator.rs, Iter):    *)
(* it starts after the address reserved last, or at the start of the first *)
(* range, passes over gateways, and gives up when it is back where it      *)
(* began.  Pure operators on the iterator's fields                         *)
(* [range_index, cur, start_ip]; range_index counts from 1 here.           *)
(***************************************************************************)
EXTENDS IpRange

Iters == [range_index : Nat \ {0}, cur : Addr \cup {NoIp}, start_ip : Addr \cup {NoIp}]

\* Mutated forms of new_iter: it starts at the remembered address itself, and
\* it starts over every time.
NewIterOnLast(rs, last) ==
  IF last # NoIp /\ ContainsIp(rs, last)
  THEN [range_index |-> CHOOSE i \in DOMAIN rs : RangeContains(rs[i], last),
        cur |-> last, start_ip |-> last]
  ELSE [range_index |-> 1, cur |-> NoIp, start_ip |-> rs[1].range_start]

NewIterForgets(rs, last) == [range_index |-> 1, cur |-> NoIp, start_ip |-> rs[1].range_start]

\* IpAllocator::new_iter.  `last' is what the store remembers, or NoIp.
new_iter(rs, last) ==
  IF last # NoIp /\ ContainsIp(rs, last)
  THEN [range_index |-> CHOOSE i \in DOMAIN rs :
                          /\ RangeContains(rs[i], last)
                          /\ \A j \in DOMAIN rs : j < i => ~RangeContains(rs[j], last),
        cur |-> last,
        start_ip |-> NoIp]
  ELSE [range_index |-> 1, cur |-> NoIp, start_ip |-> rs[1].range_start]

\* Where one call of Iter::next moves the iterator, before any result.
Moved(rs, it) ==
  LET r == rs[it.range_index]
      n == (it.range_index % Len(rs)) + 1
  IN  IF it.cur = NoIp
      THEN [it EXCEPT !.cur = r.range_start, !.start_ip = r.range_start]
      ELSE IF it.cur = r.range_end
           THEN [it EXCEPT !.range_index = n, !.cur = rs[n].range_start]
           ELSE [it EXCEPT !.cur = next_ip(it.cur)]

\* Mutated form of Anchored: start_ip is never set.
NeverAnchored(it) == it

\* start_ip is set by the first move when the iterator began in the middle.
Anchored(it) == IF it.start_ip = NoIp THEN [it EXCEPT !.start_ip = it.cur] ELSE it

BackAtStart(rs, it) ==
  it.cur # NoIp /\ it.start_ip # NoIp /\ Moved(rs, it).cur = it.start_ip

\* One call of Iter::next up to its own recursive call: the new fields and
\* what comes of it.  "skip" is the recursive call made on a gateway,
\* "panic" is unwrap() on the None that next_ip returns past the last address.
NextIter(rs, it) == Anchored(Moved(rs, it))

\* Mutated form of NextOutcome: gateways are handed out.
OutcomeWithGateways(rs, it) ==
  IF BackAtStart(rs, it) THEN "end"
  ELSE IF Moved(rs, it).cur = NoIp THEN "panic"
  ELSE "address"

NextOutcome(rs, it) ==
  LET moved == Moved(rs, it)
  IN  IF BackAtStart(rs, it) THEN "end"
      ELSE IF moved.cur = rs[moved.range_index].gateway THEN "skip"
      ELSE IF moved.cur = NoIp THEN "panic"
      ELSE "address"

\* An iterator that new_iter or Iter::next left: it stands in its range.
InItsRange(rs, it) ==
  /\ it.range_index \in DOMAIN rs
  /\ it.cur # NoIp => RangeContains(rs[it.range_index], it.cur)

----------------------------------------------------------------------------
(* How far a scan has come.  A position is a range of the set and an       *)
(* address of it; a scan goes through the positions in order, from the one *)
(* of start_ip round to the one before it.                                 *)

\* Position (i, x) does not come after (j, y).
NotAfter(i, x, j, y) == i < j \/ (i = j /\ x <= y)

\* Of a scan that began at start_ip in range i.
CameBy(it, i, j, y) ==
  LET from == NotAfter(i, it.start_ip, j, y)
      upto == NotAfter(j, y, it.range_index, it.cur)
  IN  IF NotAfter(i, it.start_ip, it.range_index, it.cur) THEN from /\ upto ELSE from \/ upto

StartsIn(rs, it, i) == RangeContains(rs[i], it.start_ip)

Passed(rs, it, j, y) ==
  it.cur # NoIp /\ \E i \in DOMAIN rs : StartsIn(rs, it, i) /\ CameBy(it, i, j, y)
=============================================================================
