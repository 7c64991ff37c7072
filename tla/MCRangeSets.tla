----------------------------- MODULE MCRangeSets -----------------------------
(***************************************************************************)
(* Configurations of one to three ranges over twelve addresses.            *)
(***************************************************************************)
EXTENDS RangeSets

\* Blocks of eight, of four and of two; one written by an inner address.
Subnets == {[ip |-> 0, size |-> 8], [ip |-> 0, size |-> 4], [ip |-> 4, size |-> 4],
            [ip |-> 2, size |-> 4], [ip |-> 6, size |-> 2]}

Bounds == {NoIp} \cup 0 .. 7

MCRanges ==
  [subnet : Subnets, range_start : Bounds, range_end : Bounds, gateway : {NoIp, 2}]

\* A second range of a fixed few, and a third with its gateway in the middle
\* or outside.
Second == {r \in MCRanges : r.subnet.size = 4 /\ r.subnet.ip \in {0, 4} /\ r.gateway = NoIp
                            /\ r.range_start \in {NoIp, 2, 6} /\ r.range_end \in {NoIp, 2, 7}}
Third == {[subnet |-> [ip |-> 8, size |-> 4], range_start |-> NoIp, range_end |-> e, gateway |-> g] :
            e \in {NoIp, 11}, g \in {10, 5}}

MCGiven ==
  LET Plain == {r \in MCRanges : r.gateway = NoIp} IN
  {<<>>, <<<<>>>>}
  \cup {<<<<r>>>> : r \in MCRanges}
  \cup {<<<<r>>, <<>>>> : r \in Plain}
  \cup {<<<<r>>, <<s>>>> : r \in Plain, s \in Second}
  \cup {<<<<r, s>>>> : r \in Plain, s \in Second}
  \cup {<<<<t, s>>, <<r>>>> : t \in Third, s \in Second, r \in {q \in Plain : q.range_end = 7}}
=============================================================================
