---------------------------- MODULE MCAttachment ----------------------------
(***************************************************************************)
(* Small instances of Attachment.                                          *)
(***************************************************************************)
EXTENDS Attachment, TLC

CONSTANTS p1, p2, a1, a2

Slots == Permutations(Proc)

MCRange(ip, start, end, gw) ==
  [subnet |-> [ip |-> ip, size |-> 4], range_start |-> start, range_end |-> end, gateway |-> gw]

Low == <<MCRange(0, 1, 3, 1)>>
High == <<MCRange(4, 6, 6, 5)>>

\* Two addresses to hand out of the first set, one of the second.
TwoSets == [a \in Att |-> <<Low, High>>]

\* The second set of one network is all the other one has.
Nested == [a \in Att |-> IF a = a1 THEN <<Low, High>> ELSE <<High>>]

\* A first set of one address for each, and one address for both.
Contended ==
  [a \in Att |-> <<<<IF a = a1 THEN MCRange(0, 2, 2, 1) ELSE MCRange(0, 3, 3, 1)>>, High>>]

Plain == [a \in Att |-> [is_gw |-> FALSE, is_default_gw |-> FALSE,
                       force_address |-> FALSE, ip_masq |-> FALSE, promisc |-> FALSE]]

NoRoutes == [a \in Att |-> <<>>]
=============================================================================
