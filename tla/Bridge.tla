------------------------------- MODULE Bridge -------------------------------
(***************************************************************************)
(* The bridge plugin: any number of plugin processes that wire containers  *)
(* to one bridge of the host (bridge/src/main.rs), with the helpers they   *)
(* call (ip, ipam and utils crates).  Their shared state is the kernel's:  *)
(* links, addresses, routes, sysctls and the nat table.  A step is one     *)
(* netlink, sysctl or iptables operation; nothing is ever undone.          *)
(*                                                                         *)
(* The network namespaces are made and removed by the container runtime;   *)
(* the IPAM plugin is a child process of which only the answer is modelled.*)
(* An address is a number, below FirstV6 an IPv4 one; ip and size give an  *)
(* address with its prefix (InSubnet of IpRange).                          *)
(***************************************************************************)
EXTENDS IpRange, FiniteSets, SequencesExt

CONSTANTS
  Proc,      \* process slots of the host
  Att,       \* attachments: a container id and an interface name
  Conf,      \* attachment |-> the plugin's configuration
  Answers,   \* attachment |-> what its IPAM plugin may answer
  FirstV6,   \* the first IPv6 address
  NoAtt,     \* the slot runs no process
  NoAnswer,  \* the runtime has no result for the attachment
  NoChain,   \* the attachment's chain does not exist
  Faults     \* any kernel operation can fail and any process can be killed

Switch == {"is_gw", "is_default_gw", "force_address", "ip_masq", "promisc"}
Blocks == [ip : Addr, size : Nat \ {0}]
IpConfigs == [ip : Addr, size : Nat \ {0}, gateway : Addr \cup {NoIp}]
\* A destination is a family, and whether its address is 0.0.0.0 or ::.
Routes == [fam : {4, 6}, unspecified : BOOLEAN, gw : Addr \cup {NoIp}]
Results == [ips : Seq(IpConfigs), routes : Seq(Routes)]

ASSUME BridgeAssumption ==
  /\ NoAtt \notin Att /\ NoAnswer \notin Results /\ NoChain \notin Seq({"ACCEPT", "MASQUERADE"} \X Blocks)
  /\ Conf \in [Att -> [Switch -> BOOLEAN]]
  /\ \A a \in Att : Answers[a] \subseteq Results
  /\ FirstV6 \in Addr
  /\ Faults \in BOOLEAN

VARIABLES
  bridge,    \* the link of the bridge's name: [kind, up, accept_ra, promisc]
  br_addrs,  \* its addresses, which the kernel may list in any order
  forward,   \* the families forwarding is on for
  chain,     \* attachment, family |-> the rules of its nat chain
  post,      \* the rules of POSTROUTING: source address, attachment's chain
  netns,     \* attachment |-> its namespace, with both ends of its veth
  given,     \* attachment |-> the result the runtime has for it
  \* of each process:
  pc,        \* the operation it is about to make
  att,       \* the attachment it was invoked for
  adding,    \* CNI_COMMAND is ADD
  result,    \* bridge_result, after calc_gateway
  k,         \* position in the list it goes through
  seen       \* ensure_addr: addresses still to compare

host == <<bridge, br_addrs, forward, chain, post>>
vars == <<bridge, br_addrs, forward, chain, post, netns, given,
          pc, att, adding, result, k, seen>>

Family(x) == IF x < FirstV6 THEN 4 ELSE 6
Block(i) == [ip |-> i.ip, size |-> i.size]

NoLink == [kind |-> "none", up |-> FALSE, accept_ra |-> 1, promisc |-> FALSE]
FreshNs == [there |-> TRUE, veth |-> FALSE, host_up |-> FALSE, master |-> FALSE,
            up |-> FALSE, addrs |-> {}, routes |-> {}]
NoNs == [FreshNs EXCEPT !.there = FALSE]
NoResult == [ips |-> <<>>, routes |-> <<>>]

\* The host may have a link of the bridge's name that is no bridge.
Init ==
  /\ bridge \in {NoLink, [NoLink EXCEPT !.kind = "other"]}
  /\ br_addrs = {}
  /\ forward = {}
  /\ chain = [a \in Att |-> [f \in {4, 6} |-> NoChain]]
  /\ post = {}
  /\ netns = [a \in Att |-> FreshNs]
  /\ given = [a \in Att |-> NoAnswer]
  /\ pc = [p \in Proc |-> "idle"]
  /\ att = [p \in Proc |-> NoAtt]
  /\ adding = [p \in Proc |-> TRUE]
  /\ result = [p \in Proc |-> NoResult]
  /\ k = [p \in Proc |-> 1]
  /\ seen = [p \in Proc |-> {}]

At(p, l) == pc[p] = l
GoTo(p, l) == pc' = [pc EXCEPT ![p] = l]
Step(p, from, to) == At(p, from) /\ GoTo(p, to)
Fail(p) == GoTo(p, "exit")
conf(p) == Conf[att[p]]
ns(p) == netns[att[p]]
Ips(p) == result[p].ips

----------------------------------------------------------------------------
(* The runtime: namespaces, and the start of the plugin.                   *)

\* main hands the same function to plugin_main for all three commands.
Handler == [ADD |-> "cmd_add", DEL |-> "cmd_add", CHECK |-> "cmd_add"]

\* The runtime runs one command at a time for an attachment, and makes no use
\* of the attachment any more when it calls DEL.
Invoke(p, a, c) ==
  /\ \A q \in Proc : att[q] # a
  /\ Handler[c] = "cmd_add"
  /\ Step(p, "idle", "link_add")
  /\ att' = [att EXCEPT ![p] = a]
  /\ adding' = [adding EXCEPT ![p] = c = "ADD"]
  /\ given' = IF c = "DEL" THEN [given EXCEPT ![a] = NoAnswer] ELSE given
  /\ UNCHANGED <<host, netns, result, k, seen>>

\* A namespace takes the veth with it; it lives on while a process is in it.
RemoveNetns(a) ==
  /\ netns[a].there
  /\ \A p \in Proc : att[p] # a
  /\ netns' = [netns EXCEPT ![a] = NoNs]
  /\ given' = [given EXCEPT ![a] = NoAnswer]
  /\ UNCHANGED <<host, pc, att, adding, result, k, seen>>

MakeNetns(a) ==
  /\ ~netns[a].there
  /\ netns' = [netns EXCEPT ![a] = FreshNs]
  /\ UNCHANGED <<host, given, pc, att, adding, result, k, seen>>

----------------------------------------------------------------------------
(* setup_bridge and ensure_bridge.                                         *)

\* EEXIST is no error here.
LinkAdd(p) ==
  /\ Step(p, "link_add", IF conf(p).promisc THEN "promisc_on" ELSE "bridge_by_name")
  /\ bridge' = IF bridge.kind = "none" THEN [bridge EXCEPT !.kind = "bridge"] ELSE bridge
  /\ UNCHANGED <<br_addrs, forward, chain, post, netns, given, att, adding, result, k, seen>>

\* Before anyone asked whether the link is a bridge.
PromiscOn(p) ==
  /\ Step(p, "promisc_on", "bridge_by_name")
  /\ bridge' = [bridge EXCEPT !.promisc = TRUE]
  /\ UNCHANGED <<br_addrs, forward, chain, post, netns, given, att, adding, result, k, seen>>

BridgeByName(p) ==
  /\ At(p, "bridge_by_name")
  /\ \/ bridge.kind = "bridge" /\ GoTo(p, "accept_ra")
     \/ bridge.kind # "bridge" /\ Fail(p)
  /\ UNCHANGED <<host, netns, given, att, adding, result, k, seen>>

AcceptRa(p) ==
  /\ Step(p, "accept_ra", "bridge_up")
  /\ bridge' = [bridge EXCEPT !.accept_ra = 1]
  /\ UNCHANGED <<br_addrs, forward, chain, post, netns, given, att, adding, result, k, seen>>

BridgeUp(p) ==
  /\ Step(p, "bridge_up", "netns")
  /\ bridge' = [bridge EXCEPT !.up = TRUE]
  /\ UNCHANGED <<br_addrs, forward, chain, post, netns, given, att, adding, result, k, seen>>

----------------------------------------------------------------------------
(* The namespace, and setup_veth inside it.                                *)

GetFromPath(p) ==
  /\ At(p, "netns")
  /\ \/ ns(p).there /\ GoTo(p, "make_veth")
     \/ ~ns(p).there /\ Fail(p)
  /\ UNCHANGED <<host, netns, given, att, adding, result, k, seen>>

\* Mutated form: a link of that name is replaced instead of refused.
RemakeVeth(p) ==
  /\ Step(p, "make_veth", "host_up")
  /\ netns' = [netns EXCEPT ![att[p]] = [FreshNs EXCEPT !.veth = TRUE]]
  /\ UNCHANGED <<host, given, att, adding, result, k, seen>>

\* make_veth gives up at the first error, so EEXIST on the name ends it.
MakeVeth(p) ==
  /\ At(p, "make_veth")
  /\ \/ /\ ~ns(p).veth
        /\ netns' = [netns EXCEPT ![att[p]].veth = TRUE]
        /\ GoTo(p, "host_up")
     \/ /\ ns(p).veth
        /\ Fail(p)
        /\ UNCHANGED netns
  /\ UNCHANGED <<host, given, att, adding, result, k, seen>>

HostVethUp(p) ==
  /\ Step(p, "host_up", "set_master")
  /\ netns' = [netns EXCEPT ![att[p]].host_up = TRUE]
  /\ UNCHANGED <<host, given, att, adding, result, k, seen>>

SetMaster(p) ==
  /\ Step(p, "set_master", "delegate")
  /\ netns' = [netns EXCEPT ![att[p]].master = TRUE]
  /\ UNCHANGED <<host, given, att, adding, result, k, seen>>

----------------------------------------------------------------------------
(* The IPAM plugin's answer and calc_gateway.                              *)

\* ip::next_ip: None past the last IPv4 address, todo!() for IPv6.
NextV4(x) == IF Family(x) = 4 /\ x + 1 < FirstV6 THEN x + 1 ELSE NoIp

WithGw(c, i) ==
  IF i.gateway = NoIp /\ c.is_gw THEN [i EXCEPT !.gateway = NextV4(i.ip)] ELSE i

\* Mutated form of CalcFails: only the families are compared.
CalcIgnoresMissing(c, r) ==
  c.is_gw /\ \E n \in DOMAIN r.ips : Family(WithGw(c, r.ips[n]).gateway) # Family(r.ips[n].ip)

\* unwrap on a missing gateway, or with_netmask on one of another family.
CalcFails(c, r) ==
  c.is_gw /\ \E n \in DOMAIN r.ips :
    LET i == WithGw(c, r.ips[n])
    IN  i.gateway = NoIp \/ Family(i.gateway) # Family(i.ip)

\* For each address in turn a default route for 0.0.0.0/0 through its gateway,
\* unless one with a gateway is there: so the first address adds it, if any
\* (that it has a gateway is CalcFails).
WithDefault(routes, ips) ==
  IF \/ ips = <<>>
     \/ \E n \in DOMAIN routes : routes[n].unspecified /\ routes[n].gw # NoIp
  THEN routes
  ELSE Append(routes, [fam |-> 4, unspecified |-> TRUE, gw |-> ips[1].gateway])

calc_gateway(c, r) ==
  LET ips == [n \in DOMAIN r.ips |-> WithGw(c, r.ips[n])]
  IN  [ips |-> ips,
       routes |-> IF c.is_default_gw THEN WithDefault(r.routes, ips) ELSE r.routes]

\* is_default_gw sets is_gw at the start of cmd_add.
Effective(c) == [c EXCEPT !.is_gw = @ \/ c.is_default_gw]

\* The child has exited and its output is a result.
Answered(p, r) ==
  /\ IF CalcFails(Effective(conf(p)), r)
     THEN Fail(p) /\ UNCHANGED result
     ELSE /\ result' = [result EXCEPT ![p] = calc_gateway(Effective(conf(p)), r)]
          /\ GoTo(p, "addr_add")
  /\ UNCHANGED <<host, netns, given, att, adding, k, seen>>

\* A failed child, an unreadable answer and one with no `ips' end it alike.
DelegateFails(p) ==
  /\ Fail(p)
  /\ UNCHANGED <<host, netns, given, att, adding, result, k, seen>>

DelegateAdd(p) ==
  /\ At(p, "delegate")
  /\ (\E r \in Answers[att[p]] : Answered(p, r)) \/ DelegateFails(p)

----------------------------------------------------------------------------
(* config_interface, in the container's namespace.                         *)

AddrAdd(p) ==
  /\ At(p, "addr_add")
  /\ \/ /\ k[p] \in DOMAIN Ips(p)
        /\ \/ /\ Block(Ips(p)[k[p]]) \notin ns(p).addrs
              /\ netns' = [netns EXCEPT ![att[p]].addrs = @ \cup {Block(Ips(p)[k[p]])}]
              /\ k' = [k EXCEPT ![p] = @ + 1]
              /\ UNCHANGED pc
           \/ /\ Block(Ips(p)[k[p]]) \in ns(p).addrs
              /\ Fail(p)
              /\ UNCHANGED <<netns, k>>
     \/ /\ k[p] \notin DOMAIN Ips(p)
        /\ GoTo(p, "link_up")
        /\ k' = [k EXCEPT ![p] = 1]
        /\ UNCHANGED netns
  /\ UNCHANGED <<host, given, att, adding, result, seen>>

LinkUp(p) ==
  /\ Step(p, "link_up", "route_add")
  /\ netns' = [netns EXCEPT ![att[p]].up = TRUE]
  /\ UNCHANGED <<host, given, att, adding, result, k, seen>>

\* The kernel refuses a gateway of another family than the destination.
RouteAdd(p) ==
  /\ At(p, "route_add")
  /\ \/ /\ k[p] \in DOMAIN result[p].routes
        /\ LET r == result[p].routes[k[p]] IN
             \/ /\ r.gw = NoIp \/ Family(r.gw) = r.fam
                /\ netns' = [netns EXCEPT ![att[p]].routes = @ \cup {r}]
                /\ k' = [k EXCEPT ![p] = @ + 1]
                /\ UNCHANGED pc
             \/ /\ r.gw # NoIp /\ Family(r.gw) # r.fam
                /\ Fail(p)
                /\ UNCHANGED <<netns, k>>
     \/ /\ k[p] \notin DOMAIN result[p].routes
        /\ GoTo(p, IF Effective(conf(p)).is_gw THEN "addr_list" ELSE "list_chains")
        /\ k' = [k EXCEPT ![p] = 1]
        /\ UNCHANGED netns
  /\ UNCHANGED <<host, given, att, adding, result, seen>>

----------------------------------------------------------------------------
(* ensure_addr: one gateway address on the bridge.                         *)

Gw(p) == [ip |-> Ips(p)[k[p]].gateway, size |-> Ips(p)[k[p]].size]

AddrList(p) ==
  /\ At(p, "addr_list")
  /\ \/ /\ k[p] \in DOMAIN Ips(p)
        /\ seen' = [seen EXCEPT ![p] = {b \in br_addrs : Family(b.ip) = Family(Gw(p).ip)}]
        /\ GoTo(p, "ensure_addr")
        /\ UNCHANGED k
     \/ /\ k[p] \notin DOMAIN Ips(p)
        /\ k' = [k EXCEPT ![p] = 1]
        /\ GoTo(p, "list_chains")
        /\ UNCHANGED seen
  /\ UNCHANGED <<host, netns, given, att, adding, result>>

Conflicts(b, gw) == Family(gw.ip) = 4 \/ InSubnet(b, gw.ip) \/ InSubnet(gw, b.ip)

\* Mutated form of InTheWay: force_address is not asked for.
AlwaysInTheWay(p) == GoTo(p, "addr_del")

InTheWay(p) == IF conf(p).force_address THEN GoTo(p, "addr_del") ELSE Fail(p)

\* The addresses of the list that are in the gateway's way.
Obstacles(p) == {b \in seen[p] : b.ip # Gw(p).ip /\ Conflicts(b, Gw(p))}

\* The next address of the list: the gateway itself, in its way, or neither.
EnsureAddr(p) ==
  /\ At(p, "ensure_addr")
  /\ \/ /\ \E b \in seen[p] : b.ip = Gw(p).ip
        /\ seen' = [seen EXCEPT ![p] = {}]
        /\ GoTo(p, "forward")
     \/ /\ Obstacles(p) # {}
        /\ UNCHANGED seen
        /\ InTheWay(p)
     \/ /\ \E b \in seen[p] \ Obstacles(p) :
             b.ip # Gw(p).ip /\ seen' = [seen EXCEPT ![p] = @ \ {b}]
        /\ UNCHANGED pc
  /\ UNCHANGED <<host, netns, given, att, adding, result, k>>

\* One of those in its way, each time.
BridgeAddrDel(p) ==
  /\ At(p, "addr_del")
  /\ \E b \in Obstacles(p) :
       \/ /\ b \in br_addrs
          /\ br_addrs' = br_addrs \ {b}
          /\ seen' = [seen EXCEPT ![p] = @ \ {b}]
          /\ GoTo(p, "ensure_addr")
       \/ /\ b \notin br_addrs
          /\ Fail(p)
          /\ UNCHANGED <<br_addrs, seen>>
  /\ UNCHANGED <<bridge, forward, chain, post, netns, given, att, adding, result, k>>

\* The kernel refuses only the very same address.
BridgeAddrAdd(p) ==
  /\ At(p, "ensure_addr")
  /\ seen[p] = {}
  /\ \/ /\ Gw(p) \notin br_addrs
        /\ br_addrs' = br_addrs \cup {Gw(p)}
        /\ GoTo(p, "forward")
     \/ /\ Gw(p) \in br_addrs
        /\ Fail(p)
        /\ UNCHANGED br_addrs
  /\ UNCHANGED <<bridge, forward, chain, post, netns, given, att, adding, result, k, seen>>

EnableForward(p) ==
  /\ Step(p, "forward", "addr_list")
  /\ forward' = forward \cup {Family(Gw(p).ip)}
  /\ k' = [k EXCEPT ![p] = @ + 1]
  /\ UNCHANGED <<bridge, br_addrs, chain, post, netns, given, att, adding, result, seen>>

----------------------------------------------------------------------------
(* setup_ip_masq, once per address.                                        *)

Rules(p) == chain[att[p]][Family(Ips(p)[k[p]].ip)]
AcceptRule(p) == <<"ACCEPT", Block(Ips(p)[k[p]])>>
MasqRule == <<"MASQUERADE", [ip |-> 0, size |-> 1]>>

ListChains(p) ==
  /\ At(p, "list_chains")
  /\ \/ /\ conf(p).ip_masq /\ k[p] \in DOMAIN Ips(p)
        /\ GoTo(p, IF Rules(p) = NoChain THEN "new_chain" ELSE "accept_rule")
     \/ /\ ~conf(p).ip_masq \/ k[p] \notin DOMAIN Ips(p)
        /\ GoTo(p, "reply")
  /\ UNCHANGED <<host, netns, given, att, adding, result, k, seen>>

\* Mutated form of NewChain: the first rule of a new chain is left out.
NewChainMasq(p) ==
  /\ Step(p, "new_chain", "masq_rule")
  /\ chain' = [chain EXCEPT ![att[p]][Family(Ips(p)[k[p]].ip)] = <<>>]
  /\ UNCHANGED <<bridge, br_addrs, forward, post, netns, given, att, adding, result, k, seen>>

NewChain(p) ==
  /\ At(p, "new_chain")
  /\ \/ /\ Rules(p) = NoChain
        /\ chain' = [chain EXCEPT ![att[p]][Family(Ips(p)[k[p]].ip)] = <<>>]
        /\ GoTo(p, "accept_rule")
     \/ /\ Rules(p) # NoChain
        /\ Fail(p)
        /\ UNCHANGED chain
  /\ UNCHANGED <<bridge, br_addrs, forward, post, netns, given, att, adding, result, k, seen>>

\* append_unique is an error when the rule is there.
AppendUnique(p, rule, label) ==
  /\ \/ /\ rule \notin Range(Rules(p))
        /\ chain' = [chain EXCEPT ![att[p]][Family(Ips(p)[k[p]].ip)] = Append(@, rule)]
        /\ GoTo(p, label)
     \/ /\ rule \in Range(Rules(p))
        /\ Fail(p)
        /\ UNCHANGED chain
  /\ UNCHANGED <<bridge, br_addrs, forward, post, netns, given, att, adding, result, k, seen>>

AppendAccept(p) == At(p, "accept_rule") /\ AppendUnique(p, AcceptRule(p), "masq_rule")

AppendMasq(p) == At(p, "masq_rule") /\ AppendUnique(p, MasqRule, "post_rule")

AppendPost(p) ==
  LET rule == <<Ips(p)[k[p]].ip, att[p]>> IN
  /\ At(p, "post_rule")
  /\ \/ /\ rule \notin post
        /\ post' = post \cup {rule}
        /\ k' = [k EXCEPT ![p] = @ + 1]
        /\ GoTo(p, "list_chains")
     \/ /\ rule \in post
        /\ Fail(p)
        /\ UNCHANGED <<post, k>>
  /\ UNCHANGED <<bridge, br_addrs, forward, chain, netns, given, att, adding, result, seen>>

----------------------------------------------------------------------------
(* The end of the process.                                                 *)

Ended(p) ==
  /\ GoTo(p, "idle")
  /\ att' = [att EXCEPT ![p] = NoAtt]
  /\ adding' = [adding EXCEPT ![p] = TRUE]
  /\ result' = [result EXCEPT ![p] = NoResult]
  /\ k' = [k EXCEPT ![p] = 1]
  /\ seen' = [seen EXCEPT ![p] = {}]

\* The result goes to standard output.
Reply(p) ==
  /\ At(p, "reply")
  /\ given' = IF adding[p] THEN [given EXCEPT ![att[p]] = result[p]] ELSE given
  /\ Ended(p)
  /\ UNCHANGED <<host, netns>>

\* The error goes to the log; nothing that was set up is taken down.
Exit(p) ==
  /\ At(p, "exit")
  /\ Ended(p)
  /\ UNCHANGED <<host, netns, given>>

\* A kernel operation fails, or the process is killed before it.
Fault(p) ==
  /\ Faults
  /\ pc[p] \notin {"idle", "exit", "reply"}
  /\ Fail(p)
  /\ UNCHANGED <<host, netns, given, att, adding, result, k, seen>>

Run(p) ==
  \/ LinkAdd(p) \/ PromiscOn(p) \/ BridgeByName(p) \/ AcceptRa(p) \/ BridgeUp(p)
  \/ GetFromPath(p) \/ MakeVeth(p) \/ HostVethUp(p) \/ SetMaster(p)
  \/ DelegateAdd(p) \/ AddrAdd(p) \/ LinkUp(p) \/ RouteAdd(p)
  \/ AddrList(p) \/ EnsureAddr(p) \/ BridgeAddrDel(p) \/ BridgeAddrAdd(p) \/ EnableForward(p)
  \/ ListChains(p) \/ NewChain(p) \/ AppendAccept(p) \/ AppendMasq(p) \/ AppendPost(p)
  \/ Reply(p) \/ Exit(p)

Next ==
  \/ \E p \in Proc : \/ \E a \in Att, c \in DOMAIN Handler : Invoke(p, a, c)
                     \/ Run(p)
                     \/ Fault(p)
  \/ \E a \in Att : RemoveNetns(a) \/ MakeNetns(a)

Spec == Init /\ [][Next]_vars
----------------------------------------------------------------------------
(* Properties.                                                             *)

Label == {"idle", "link_add", "promisc_on", "bridge_by_name", "accept_ra", "bridge_up",
          "netns", "make_veth", "host_up", "set_master", "delegate", "addr_add", "link_up",
          "route_add", "addr_list", "ensure_addr", "addr_del", "forward", "list_chains",
          "new_chain", "accept_rule", "masq_rule", "post_rule", "reply", "exit"}

\* Every variable keeps the type of the state it models; an address list
\* holds addresses, so no gateway that IPAM left out and calc_gateway could
\* not make up gets past it (main.rs:173-175, 207).
TypeOK ==
  /\ bridge \in [kind : {"none", "bridge", "other"}, up : BOOLEAN,
                 accept_ra : {0, 1}, promisc : BOOLEAN]
  /\ br_addrs \subseteq Blocks
  /\ forward \subseteq {4, 6}
  /\ \A a \in Att, f \in {4, 6} :
       chain[a][f] = NoChain \/ chain[a][f] \in Seq({"ACCEPT", "MASQUERADE"} \X Blocks)
  /\ post \subseteq Addr \X Att
  /\ \A a \in Att :
       /\ netns[a] \in [there : BOOLEAN, veth : BOOLEAN, host_up : BOOLEAN, master : BOOLEAN,
                        up : BOOLEAN, addrs : SUBSET Blocks, routes : SUBSET Routes]
       /\ given[a] = NoAnswer \/ given[a] \in Results
  /\ pc \in [Proc -> Label]
  /\ att \in [Proc -> Att \cup {NoAtt}]
  /\ adding \in [Proc -> BOOLEAN]
  /\ result \in [Proc -> Results]
  /\ k \in [Proc -> Nat \ {0}]
  /\ seen \in [Proc -> SUBSET Blocks]

\* An attachment for which the runtime has a result is wired as the result
\* says: both ends of its veth are up, the host's end is a port of a bridge
\* that is up, the addresses and routes are set.  It stays so whatever the
\* plugin does for others, and whatever a repeated ADD or a CHECK for the
\* same attachment, which run cmd_add too, do to it.
AnsweredIsWired ==
  \A a \in Att : given[a] # NoAnswer =>
    /\ bridge.kind = "bridge" /\ bridge.up
    /\ netns[a].veth /\ netns[a].up /\ netns[a].host_up /\ netns[a].master
    /\ {Block(given[a].ips[n]) : n \in DOMAIN given[a].ips} \subseteq netns[a].addrs
    /\ Range(given[a].routes) \subseteq netns[a].routes

\* The rules accept the packets to x's network before they masquerade.
LocalFirst(rules, x) ==
  \E m, n \in DOMAIN rules :
    /\ m < n
    /\ rules[m][1] = "ACCEPT" /\ rules[m][2].ip = x
    /\ rules[n] = MasqRule

\* ip_masq.rs:36-41: `Packets to this network should not be touched'.  From
\* the moment an address's packets are sent to the attachment's chain, the
\* chain accepts the local ones before it masquerades the rest, also when
\* the command dies there and another one finds its chain.
LocalNotMasqueraded ==
  \A rule \in post :
    \E f \in {4, 6} : chain[rule[2]][f] # NoChain /\ LocalFirst(chain[rule[2]][f], rule[1])

\* The gateways the bridge may be given for an attachment.
Gateways(a) ==
  {g \in UNION {{[ip |-> WithGw(Effective(Conf[a]), r.ips[n]).gateway, size |-> r.ips[n].size] :
                   n \in DOMAIN r.ips} : r \in Answers[a]} : g.ip # NoIp}

\* A network that forces its address has gateways that conflict with x.
Threatened(x) ==
  \E a \in Att : Conf[a].force_address /\
    \E g \in Gateways(a), c \in Att : \E b \in Gateways(c) :
      b.ip = x /\ g.ip # x /\ Conflicts(b, g)

\* The gateway of every answered attachment is an address of the bridge and
\* stays one until a network that conflicts with it forces its own, and the
\* host forwards its family (main.rs:88-99, 122-159).
GatewayKept ==
  \A a \in Att : given[a] # NoAnswer /\ Effective(Conf[a]).is_gw =>
    \A n \in DOMAIN given[a].ips :
      LET i == given[a].ips[n] IN
      /\ Threatened(i.gateway) \/ \E b \in br_addrs : b.ip = i.gateway
      /\ Family(i.ip) \in forward

\* main.rs:132-135: `Multiple IPv6 addresses are allowed on the bridge if the
\* corresponding subnets do not overlap.  For IPv4 or for overlapping IPv6
\* subnets, reconfigure the IP address if forceAddress is true, otherwise
\* throw an error.'
OneAddressPerSubnet ==
  \A b, c \in br_addrs :
    b # c /\ Family(b.ip) = Family(c.ip) => Family(b.ip) = 6 /\ ~InSubnet(b, c.ip)
=============================================================================
