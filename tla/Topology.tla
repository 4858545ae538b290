------------------------------- MODULE Topology -------------------------------
(***************************************************************************)
(* The configuration against TrueNAS: what a configuration must satisfy on *)
(* its own, how it is compared with what discovery read, and the checks    *)
(* the dashboard, stage and prepare make of it later.                      *)
(*                                                                         *)
(* A configuration is a record                                             *)
(*   network     the addresses of allowed_source_cidr                      *)
(*   portal      [address, port]                                           *)
(*   publisher   [ip, iqn, target, volumes], a volume being                *)
(*               [extent, lun, dataset]                                    *)
(*   clients     name -> [ip, iqn, target, token, volumes], a volume being *)
(*               [extent, lun, letter, parent]                             *)
(* and a dataset is <<pool, path>>.  What discovery reads of TrueNAS is    *)
(*   portals     id -> the portals it listens on                           *)
(*   targets     iqn -> [iscsi, portals, groups, networks]                 *)
(*   extents     id -> [disk, usable, naa], usable for an unlocked zvol    *)
(*   luns        the associations, [target, extent, lun]                   *)
(*   groups      id of an initiator group -> its entries                   *)
(*   datasets    dataset -> "zvol", "filesystem", "locked"                 *)
(*   sessions    [ip, iqn, target]                                         *)
(* An address stands for the network of just this host as well.            *)
(***************************************************************************)

AnyNetwork == "0.0.0.0/0"

Identities(cfg) == {cfg.publisher} \cup {cfg.clients[c] : c \in DOMAIN cfg.clients}

Pairs(i) == {<<i.volumes[v].extent, i.volumes[v].lun>> : v \in DOMAIN i.volumes}
ExtentIds(i) == {i.volumes[v].extent : v \in DOMAIN i.volumes}

(* No two volumes of the identity agree in the field.                      *)
Distinct(i, field) ==
    \A v, w \in DOMAIN i.volumes : i.volumes[v][field] = i.volumes[w][field] => v = w
-----------------------------------------------------------------------------
(* ServiceConfig.validate_relations, and the validators of its parts.      *)

InNetwork(cfg) ==
    /\ cfg.portal.address \in cfg.network
    /\ \A i \in Identities(cfg) : i.ip \in cfg.network /\ i.ip # cfg.portal.address

(* Mutant of SharedRole: the two identities may agree in one of the two.   *)
SharedRole_Partly(cfg) == TRUE

(* A client has both address and initiator of the publisher, or neither.   *)
SharedRole(cfg) ==
    \A c \in DOMAIN cfg.clients :
        cfg.clients[c].ip = cfg.publisher.ip <=> cfg.clients[c].iqn = cfg.publisher.iqn

(* shared_publisher_client; more than one would have the same address.     *)
IsShared(cfg, c) ==
    /\ cfg.clients[c].ip = cfg.publisher.ip
    /\ cfg.clients[c].iqn = cfg.publisher.iqn

UniqueClients(cfg) ==
    /\ \A c, d \in DOMAIN cfg.clients : c # d =>
          \A field \in {"ip", "iqn", "target", "token"} :
              cfg.clients[c][field] # cfg.clients[d][field]
    /\ \A c \in DOMAIN cfg.clients : cfg.clients[c].target # cfg.publisher.target

(* Mutant of UniqueExtents: the masters are not among those seen.          *)
UniqueExtents_Clients(cfg) ==
    /\ \A i \in Identities(cfg) : Distinct(i, "extent")
    /\ \A c, d \in DOMAIN cfg.clients :
          c # d => ExtentIds(cfg.clients[c]) \cap ExtentIds(cfg.clients[d]) = {}

UniqueExtents(cfg) ==
    /\ \A i \in Identities(cfg) : Distinct(i, "extent")
    /\ \A i, j \in Identities(cfg) : i # j => ExtentIds(i) \cap ExtentIds(j) = {}

VolumesAgree(cfg) ==
    /\ DOMAIN cfg.publisher.volumes # {} /\ Distinct(cfg.publisher, "lun")
    /\ \A c \in DOMAIN cfg.clients :
          LET i == cfg.clients[c] IN
          /\ DOMAIN i.volumes # {} /\ DOMAIN i.volumes \subseteq DOMAIN cfg.publisher.volumes
          /\ Distinct(i, "lun") /\ Distinct(i, "letter")
          /\ \A v \in DOMAIN i.volumes :
                i.volumes[v].parent[1] = cfg.publisher.volumes[v].dataset[1]

Relations(cfg) ==
    /\ DOMAIN cfg.clients # {}
    /\ InNetwork(cfg)
    /\ SharedRole(cfg)
    /\ UniqueClients(cfg)
    /\ UniqueExtents(cfg)
    /\ VolumesAgree(cfg)
-----------------------------------------------------------------------------
(* validate_live_topology.                                                 *)

Listens(d, target) ==
    UNION {d.portals[p] : p \in d.targets[target].portals \cap DOMAIN d.portals}

Entries(d, target) ==
    UNION {d.groups[g] : g \in d.targets[target].groups \cap DOMAIN d.groups}

(* _validate_target_identity: the exact initiator and the exact host.      *)
Authorizes(d, target, i) ==
    /\ i.iqn \in Entries(d, target)
    /\ i.ip \in Entries(d, target) \cup d.targets[target].networks

Attached(d, target) ==
    {<<a.extent, a.lun>> : a \in {x \in d.luns : x.target = target}}

TargetFits(cfg, d, i) ==
    /\ i.target \in DOMAIN d.targets
    /\ d.targets[i.target].iscsi
    /\ cfg.portal \in Listens(d, i.target)
    /\ Authorizes(d, i.target, i)

(* _eligible_extent.                                                       *)
Eligible(d, e) == e \in DOMAIN d.extents /\ d.extents[e].usable

IsDataset(d, dataset, kind) == dataset \in DOMAIN d.datasets /\ d.datasets[dataset] = kind

MasterFits(d, m) ==
    /\ Eligible(d, m.extent)
    /\ d.extents[m.extent].disk = m.dataset
    /\ IsDataset(d, m.dataset, "zvol")

VolumeFits(d, v) == Eligible(d, v.extent) /\ IsDataset(d, v.parent, "filesystem")

(* Mutant of LiveTopology: the targets may show more than is configured.   *)
LiveTopology_Included(cfg, d) ==
    /\ \A i \in Identities(cfg) : TargetFits(cfg, d, i) /\ Pairs(i) \subseteq Attached(d, i.target)
    /\ \A v \in DOMAIN cfg.publisher.volumes : MasterFits(d, cfg.publisher.volumes[v])
    /\ \A c \in DOMAIN cfg.clients : \A v \in DOMAIN cfg.clients[c].volumes :
          VolumeFits(d, cfg.clients[c].volumes[v])

LiveTopology(cfg, d) ==
    /\ \A i \in Identities(cfg) : TargetFits(cfg, d, i) /\ Pairs(i) = Attached(d, i.target)
    /\ \A v \in DOMAIN cfg.publisher.volumes : MasterFits(d, cfg.publisher.volumes[v])
    /\ \A c \in DOMAIN cfg.clients : \A v \in DOMAIN cfg.clients[c].volumes :
          VolumeFits(d, cfg.clients[c].volumes[v])
-----------------------------------------------------------------------------
(* What is checked of it afterwards.                                       *)

(* _verify_target_luns: no such target is an error.                        *)
LunsMatch(d, i) == i.target \in DOMAIN d.targets /\ Attached(d, i.target) = Pairs(i)

(* _publisher_extents of the release manager.                              *)
MasterExtents(d, publisher) ==
    \A v \in DOMAIN publisher.volumes :
        LET m == publisher.volumes[v] IN
        m.extent \in DOMAIN d.extents /\ d.extents[m.extent].disk = m.dataset
                                      /\ d.extents[m.extent].naa

(* Mutant of Matching: only the initiator is compared.                     *)
Matching_Initiator(i, sessions) == {s \in sessions : s.iqn = i.iqn \/ s.ip = i.ip}

(* _matching_sessions of the coordinator and of the release manager.       *)
Matching(i, sessions) ==
    {s \in sessions : s.iqn = i.iqn \/ s.ip = i.ip \/ s.target = i.target}

Own(i) == [ip |-> i.ip, iqn |-> i.iqn, target |-> i.target]

(* _connection_status.                                                     *)
Status(i, sessions) ==
    IF Matching(i, sessions) = {} THEN "disconnected"
    ELSE IF Matching(i, sessions) = {Own(i)} THEN "connected" ELSE "conflict"

(* _publisher_discovery_errors: whether there are any.                     *)
DiscoverySound(cfg, d) ==
    LET p == cfg.publisher IN
    /\ TargetFits(cfg, d, p)
    /\ Attached(d, p.target) = Pairs(p)
    /\ \A v \in DOMAIN p.volumes : MasterFits(d, p.volumes[v])

(* The reset API: the token is that of exactly one client, and the request *)
(* comes from the address of this client.                                  *)
Authenticated(cfg, pc, c) ==
    /\ {x \in DOMAIN cfg.clients : cfg.clients[x].token = pc.token} = {c}
    /\ cfg.clients[c].ip = pc.ip
=============================================================================
