---------------------------- MODULE MCHostLocal ----------------------------
(***************************************************************************)
(* Small instances of HostLocal.                                           *)
(***************************************************************************)
EXTENDS HostLocalInv, TLC

CONSTANTS p1, p2, a1, a2

Block(ip, size) == [ip |-> ip, size |-> size]

MCRange(subnet, start, end, gw) ==
  [subnet |-> subnet, range_start |-> start, range_end |-> end, gateway |-> gw]

\* A block of four with its gateway in front, as canonicalize fills it in:
\* one address to hand out.
Low == MCRange(Block(0, 4), 1, 2, 1)
\* The same block up to its last address: two to hand out.
Low3 == MCRange(Block(0, 4), 1, 3, 1)
\* A range of one address.
High == MCRange(Block(4, 4), 6, 6, 5)

\* Two attachments of a network with two range sets, the second of which
\* runs out first.
TwoSets == [a \in Att |-> <<<<Low3>>, <<High>>>>]

\* Two networks that share two addresses and the last_reserved_ip_0 file: one
\* with two range sets, the first of two addresses, the other with two ranges
\* in its only set.
TwoNetworks == (a1 :> <<<<Low3>>, <<High>>>>) @@ (a2 :> <<<<High, Low>>>>)

Slots == Permutations(Proc)
============================================================================
