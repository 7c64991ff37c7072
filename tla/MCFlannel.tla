----------------------------- MODULE MCFlannel -----------------------------
(***************************************************************************)
(* Small inputs of flannel beside the configurations of MCRangeSets.       *)
(***************************************************************************)
EXTENDS Flannel, MCRangeSets, TLC

Line(key, value) == [k |-> key, v |-> value]
Block(ip, size) == [ip |-> ip, size |-> size]

Mtu == Line("FLANNEL_MTU", 1450)
Masq == Line("FLANNEL_IPMASQ", TRUE)

\* As flanneld writes a subnet, by its first host; one without hosts.
Lines ==
  {Line("FLANNEL_SUBNET", v) : v \in {Block(1, 8), Block(9, 4), Block(4, 2), Bad}}
  \cup {Mtu, Masq, Line("FLANNEL_NETWORK", <<Block(0, 8)>>),
        Line("FLANNEL_IPV6_SUBNET", Bad), Line("OTHER", Bad)}

Files == UNION {[1 .. m -> Lines] : m \in 0 .. 4}

\* All the delegates that differ in what flannel looks at.
Field(key, values) == {<<>>} \cup {key :> v : v \in values}
Delegates ==
  {t @@ m @@ a @@ q @@ u @@ v :
     t \in Field("type", {"bridge", Bad}), m \in Field("name", {"user's"}),
     a \in Field("ipam", {<<>>}), q \in Field("ipMasq", {FALSE}),
     u \in Field("mtu", {9000}), v \in Field("cniVersion", {"0.4.0"})}

Ipams == {None, <<>>, ("type" :> "host-local") @@ ("ranges" :> <<<<>>>>)}

NetConf(version, d, ip) == [cni_version |-> version, delegate |-> d, ipam |-> ip]

MCInputs ==
  {<<f, NetConf("1.0.0", None, None)>> : f \in Files}
  \cup {<<f, NetConf(version, d, ip)>> :
          f \in {<<Line("FLANNEL_SUBNET", Block(1, 8)), Mtu, Masq>>,
                 <<Line("FLANNEL_SUBNET", Block(1, 8)), Mtu>>,
                 <<Line("FLANNEL_SUBNET", Block(1, 8)), Masq>>},
          version \in {"", "1.0.0"}, d \in {None} \cup Delegates, ip \in Ipams}
=============================================================================
