------------------------------ MODULE MCBridge ------------------------------
(***************************************************************************)
(* Small instances of Bridge: IPv4 addresses 0-7, IPv6 addresses 8-15.     *)
(***************************************************************************)
EXTENDS Bridge

CONSTANTS p1, p2, a1, a2

Slots == Permutations(Proc)

MCConf(on) == [s \in Switch |-> s \in on]
Ip(ip, size, gw) == [ip |-> ip, size |-> size, gateway |-> gw]
Result(ips, routes) == [ips |-> ips, routes |-> routes]

Default(fam, gw) == [fam |-> fam, unspecified |-> TRUE, gw |-> gw]
Local(fam) == [fam |-> fam, unspecified |-> FALSE, gw |-> NoIp]

\* A default gateway with masquerade beside a plain gateway, both of IPv4,
\* in different blocks of four; an answer without its gateway.
RaceConf == [a \in Att |->
  IF a = a1 THEN MCConf({"is_default_gw", "ip_masq"}) ELSE MCConf({"is_gw"})]
RaceAnswers == [a \in Att |->
  IF a = a1 THEN {Result(<<Ip(2, 4, 1)>>, <<Local(4)>>)}
            ELSE {Result(<<Ip(4, 4, NoIp)>>, <<>>)}]

\* One network forces its gateway, in the upper half of the IPv6 block or in
\* all of it; the last IPv4 address has no next one to be its gateway.
Forced == {Result(<<Ip(14, 4, 13)>>, <<Default(6, 13)>>),
           Result(<<Ip(14, 8, 13)>>, <<>>),
           Result(<<Ip(7, 4, NoIp)>>, <<>>)}

\* The other one's IPAM plugin answers with both families, its IPv6 gateway
\* in the lower half of the same block.
Dual == {Result(<<Ip(2, 4, 1), Ip(10, 4, 9)>>, <<Local(4)>>)}

SharedConf == [a \in Att |->
  IF a = a1 THEN MCConf({"is_gw", "force_address", "promisc"})
            ELSE MCConf({"is_default_gw", "ip_masq"})]
SharedAnswers == [a \in Att |-> IF a = a1 THEN Forced ELSE Dual]
=============================================================================
