------------------------------ MODULE Flannel ------------------------------
(***************************************************************************)
(* The flannel plugin (flannel-plugin/src/main.rs): from the lines of      *)
(* subnet.env and its own network configuration it makes the configuration *)
(* of the plugin it delegates to, here bridge, and of that one's IPAM      *)
(* plugin, here host-local, which goes on as in RangeSets.  A behaviour    *)
(* may also begin with a configuration of host-local that flannel has no   *)
(* part in.                                                                *)
(*                                                                         *)
(* A JSON object is a function from its keys; an Option is a value or      *)
(* None; the text of a value that does not parse is Bad.                   *)
(***************************************************************************)
EXTENDS RangeSets

CONSTANTS
  Inputs,   \* pairs of a subnet.env, a sequence of lines, and a NetConf
  None, Bad

\* A value that parses, of the keys whose values matter.
Readable(line) ==
  /\ line.k = "FLANNEL_SUBNET" => line.v \in Blocks
  /\ line.k \in {"FLANNEL_MTU", "FLANNEL_IPMASQ"} => line.v # None

\* The delegate is bridge and its IPAM plugin host-local, the plugins of this
\* repository, or a type is not given, or is no text.
ASSUME FlannelAssumption ==
  /\ <<>> \in Given
  /\ None \notin Blocks
  /\ \A input \in Inputs :
       /\ input[2] # None
       /\ DOMAIN input[1] = 1 .. Len(input[1]) /\ Len(input[1]) \in Nat
       /\ \A m \in DOMAIN input[1] : input[1][m].v = Bad \/ Readable(input[1][m])
       /\ input[2].delegate # None /\ "type" \in DOMAIN input[2].delegate =>
            input[2].delegate["type"] \in {"bridge", Bad}
       /\ input[2].ipam # None /\ "type" \in DOMAIN input[2].ipam =>
            input[2].ipam["type"] = "host-local"

VARIABLES
  file,       \* the lines of subnet.env
  n,          \* the next of them
  net_conf,   \* [cni_version, delegate, ipam], None when flannel has no part
  env,        \* subnet_env
  delegate,   \* the configuration for the delegate
  step        \* "env", "check", "merge", "delegate" or "over"

flannel == <<file, n, net_conf, env, delegate, step>>

NoEnv == [nws |-> <<>>, sn |-> None, mtu |-> None, ipmasq |-> None]

FlannelInit ==
  /\ Init
  /\ \/ step = "over" /\ file = <<>> /\ net_conf = None
     \/ /\ step = "env" /\ given = <<>>
        /\ \E input \in Inputs : file = input[1] /\ net_conf = input[2]
  /\ n = 1
  /\ env = NoEnv
  /\ delegate = None

Go(from, to) == step = from /\ step' = to

\* An error or a panic.
Bail == stage' = "rejected" /\ UNCHANGED config

----------------------------------------------------------------------------
(* load_flannel_subnet_env.                                                *)

\* Mutated form of Subnet: the address stays as it is written.
SubnetAsWritten(v) == v

Subnet(v) == [ip |-> network(v), size |-> v.size]

\* Mutated form of Read: the first line with a key counts.
ReadFirst(e, line) ==
  CASE line.k = "FLANNEL_SUBNET" /\ e.sn = None -> [e EXCEPT !.sn = Subnet(line.v)]
    [] line.k = "FLANNEL_MTU" -> [e EXCEPT !.mtu = line.v]
    [] line.k = "FLANNEL_IPMASQ" -> [e EXCEPT !.ipmasq = line.v]
    [] OTHER -> e

\* The IPv6 values are kept but not used.
Read(e, line) ==
  CASE line.k = "FLANNEL_NETWORK" -> [e EXCEPT !.nws = line.v]
    [] line.k = "FLANNEL_SUBNET" -> [e EXCEPT !.sn = Subnet(line.v)]
    [] line.k = "FLANNEL_MTU" -> [e EXCEPT !.mtu = line.v]
    [] line.k = "FLANNEL_IPMASQ" -> [e EXCEPT !.ipmasq = line.v]
    [] OTHER -> e

Keys == {"FLANNEL_NETWORK", "FLANNEL_IPV6_NETWORK", "FLANNEL_SUBNET",
         "FLANNEL_IPV6_SUBNET", "FLANNEL_MTU", "FLANNEL_IPMASQ"}
Unreadable(line) == line.k \in Keys /\ line.v = Bad

ReadLine ==
  /\ step = "env"
  /\ n \in DOMAIN file
  /\ \/ /\ Unreadable(file[n])
        /\ step' = "over"
        /\ Bail
        /\ UNCHANGED <<n, env>>
     \/ /\ ~Unreadable(file[n])
        /\ env' = Read(env, file[n])
        /\ n' = n + 1
        /\ UNCHANGED <<config, stage, step>>
  /\ UNCHANGED <<file, net_conf, delegate, scan>>

EndOfFile ==
  /\ Go("env", "check")
  /\ n \notin DOMAIN file
  /\ UNCHANGED <<config, stage, scan, file, n, net_conf, env, delegate>>

----------------------------------------------------------------------------
(* cmd_add: the checks of `delegate', and what is put into it.             *)

\* A type of its own, and the two fields it should not have.
Checked(d) == "type" \in DOMAIN d /\ d["type"] # Bad /\ {"name", "ipam"} \subseteq DOMAIN d

CheckDelegate ==
  /\ step = "check"
  /\ \/ /\ net_conf.delegate # None => Checked(net_conf.delegate)
        /\ step' = "merge"
        /\ delegate' = IF net_conf.delegate = None THEN <<>> ELSE net_conf.delegate
        /\ UNCHANGED <<config, stage>>
     \/ /\ net_conf.delegate # None /\ ~Checked(net_conf.delegate)
        /\ step' = "over"
        /\ Bail
        /\ UNCHANGED delegate
  /\ UNCHANGED <<file, n, net_conf, env, scan>>

Insert(map, key, value) ==
  [x \in DOMAIN map \cup {key} |-> IF x = key THEN value ELSE map[x]]
OrInsert(map, key, value) == IF key \in DOMAIN map THEN map ELSE Insert(map, key, value)

\* get_delegate_ipam
Ipam ==
  LET ipam == IF net_conf.ipam = None THEN <<>> ELSE net_conf.ipam
      range == [subnet |-> env.sn, range_start |-> NoIp, range_end |-> NoIp, gateway |-> NoIp]
      sets == IF env.sn = None THEN <<>> ELSE <<<<range>>>>
  IN  Insert(Insert(OrInsert(ipam, "type", "host-local"), "ranges", sets), "routes", env.nws)

\* The argument of or_insert is evaluated also when the key is there.
Unwraps == (env.ipmasq # None \/ "ipMasq" \in DOMAIN delegate) /\ env.mtu # None

Merged ==
  LET named == OrInsert(Insert(delegate, "name", "flannel's"), "type", "bridge")
      masq == IF "ipMasq" \in DOMAIN named THEN named ELSE Insert(named, "ipMasq", ~env.ipmasq)
      mtu == OrInsert(masq, "mtu", env.mtu)
      gw == IF mtu["type"] = "bridge" THEN OrInsert(mtu, "isGateway", TRUE) ELSE mtu
      version == IF net_conf.cni_version = "" THEN gw
                 ELSE Insert(gw, "cniVersion", net_conf.cni_version)
  IN  Insert(version, "ipam", Ipam)

Merge ==
  /\ step = "merge"
  /\ \/ /\ Unwraps
        /\ delegate' = Merged
        /\ step' = "delegate"
        /\ UNCHANGED <<config, stage>>
     \/ /\ ~Unwraps
        /\ step' = "over"
        /\ Bail
        /\ UNCHANGED delegate
  /\ UNCHANGED <<file, n, net_conf, env, scan>>

----------------------------------------------------------------------------
(* The delegate and its IPAM plugin, which gets the same bytes.            *)

\* The delegate is bridge with host-local (FlannelAssumption), which both read
\* a cniVersion and a name.
Delegate ==
  /\ Go("delegate", "over")
  /\ \/ /\ {"cniVersion", "name"} \subseteq DOMAIN delegate
        /\ given' = delegate["ipam"]["ranges"]
        /\ ranges' = given'
        /\ UNCHANGED <<i, stage>>
     \/ /\ ~ ({"cniVersion", "name"} \subseteq DOMAIN delegate)
        /\ Bail
  /\ UNCHANGED <<file, n, net_conf, env, delegate, scan>>

HostLocalStep == step = "over" /\ Next /\ UNCHANGED flannel

FlannelNext ==
  \/ ReadLine \/ EndOfFile \/ CheckDelegate \/ Merge \/ Delegate
  \/ HostLocalStep

FlannelSpec ==
  FlannelInit /\ [][FlannelNext]_<<vars, flannel>> /\ WF_<<vars, flannel>>(FlannelNext)
----------------------------------------------------------------------------
(* Properties.                                                             *)

LinesOf(key) == {m \in DOMAIN file : file[m].k = key}

\* The line flanneld wrote last.
NodeSubnet ==
  file[CHOOSE m \in LinesOf("FLANNEL_SUBNET") : \A l \in LinesOf("FLANNEL_SUBNET") : l <= m].v

\* The configuration has the field in its delegate.
Asked(key) == net_conf.delegate # None /\ key \in DOMAIN net_conf.delegate

\* The file and the configuration decide on all that a network of bridge and
\* host-local needs.
Complete ==
  /\ \A m \in DOMAIN file : ~Unreadable(file[m])
  /\ LinesOf("FLANNEL_SUBNET") # {} /\ NodeSubnet.size >= 4
  /\ LinesOf("FLANNEL_MTU") # {} \/ Asked("mtu")
  /\ LinesOf("FLANNEL_IPMASQ") # {} \/ Asked("ipMasq")
  /\ net_conf.cni_version # "" \/ Asked("cniVersion")

\* The file has the lines flanneld writes, and the configuration has a version
\* and leaves the delegate to flannel.
Plain ==
  /\ LinesOf("FLANNEL_MTU") # {} /\ LinesOf("FLANNEL_IPMASQ") # {}
  /\ net_conf.delegate = None /\ net_conf.cni_version # ""

\* No node is set up from an incomplete or unreadable file: flannel, bridge
\* and host-local between them notice whatever is missing.  And with a file
\* that is complete, in any order, with lines repeated and the subnet written
\* by any of its addresses, a network without a delegate of its own is set up
\* (flannel: main.rs:36-94, 111-136, 147-191; range.rs:46-54).  Which delegate
\* dictionaries flannel lets through is the subject of DelegateHasNoName.
FlannelVerdict ==
  net_conf # None /\ stage # "reading" =>
    /\ stage # "rejected" => Complete
    /\ Complete /\ Plain => stage # "rejected"

\* The containers of a node get addresses of the node's own subnet, the one
\* flanneld wrote last, and can get all of them but the first, which is the
\* bridge's, whatever ranges the configuration itself asks for.
NodeSubnetOnly ==
  net_conf # None /\ stage = "end" =>
    Offered = (network(NodeSubnet) + 2) .. (network(NodeSubnet) + NodeSubnet.size - 2)

\* main.rs:49: `'delegate' dictionary must not have 'name' field, it'll be set
\* by flannel'.
DelegateHasNoName ==
  step \in {"merge", "delegate"} /\ net_conf.delegate # None =>
    "name" \notin DOMAIN net_conf.delegate
=============================================================================
