--------------------------- MODULE MCTopologyCheck ---------------------------
(* Two clients, one of them the publisher's own PC, and one volume.        *)
EXTENDS TopologyCheck, TLC

Portal == [address |-> "gw", port |-> 3260]
Games == <<"tank", "games">>
Clones == <<"tank", "pc">>

Volume(e, parent) == [games |-> [extent |-> e, lun |-> 0, letter |-> "G", parent |-> parent]]

Client(ip, iqn, target, token, e) ==
    [ip |-> ip, iqn |-> iqn, target |-> target, token |-> token, volumes |-> Volume(e, Clones)]

Base ==
    [network   |-> {"gw", "ip0", "ip1"},
     portal    |-> Portal,
     publisher |-> [ip |-> "ip0", iqn |-> "iqn0", target |-> "tp",
                    volumes |-> [games |-> [extent |-> 1, lun |-> 0, dataset |-> Games]]],
     clients   |-> [a |-> Client("ip1", "iqn1", "ta", "key1", 2),
                    b |-> Client("ip0", "iqn0", "tb", "key0", 3)]]

(* Client a in a way of its own.                                           *)
With(client) == [Base EXCEPT !.clients.a = client]

PartlyShared == [Base EXCEPT !.clients = [a |-> Client("ip0", "iqn1", "ta", "key1", 2)]]
OfMaster     == With(Client("ip1", "iqn1", "ta", "key1", 1))
Exchanged    == [Base EXCEPT !.clients.a.volumes = Volume(3, Clones), !.clients.b.volumes = Volume(2, Clones)]
OtherPool    == With([Base.clients.a EXCEPT !.volumes = Volume(2, <<"flash", "pc">>)])

MCDrafts == {Base, PartlyShared, OfMaster, Exchanged, OtherPool}

Target(g) == [iscsi |-> TRUE, portals |-> {1}, groups |-> {g}, networks |-> {}]
Zvol(dataset) == [disk |-> dataset, usable |-> TRUE, naa |-> TRUE]

(* An association of a target with an extent, all of them as LUN 0.        *)
Maps(pairs) == {[target |-> p[1], extent |-> p[2], lun |-> 0] : p \in pairs}

MCSetup ==
    [portals  |-> 1 :> {Portal},
     targets  |-> [tp |-> Target(10), ta |-> Target(11), tb |-> Target(10)],
     extents  |-> 1 :> Zvol(Games) @@ 2 :> Zvol(<<"tank", "pc", 2>>) @@ 3 :> Zvol(<<"tank", "pc", 3>>),
     luns     |-> Maps({<<"tp", 1>>, <<"ta", 2>>, <<"tb", 3>>}),
     groups   |-> 10 :> {"iqn0", "ip0"} @@ 11 :> {"iqn1", "ip1"},
     datasets |-> Games :> "zvol" @@ Clones :> "filesystem"]

(* The administrator moves a LUN, lets more PCs in, points the masters'    *)
(* extent elsewhere, loses its NAA, removes a target, locks the parent.    *)
MCValues ==
    [targets  |-> {MCSetup.targets,
                   [MCSetup.targets EXCEPT !.ta.groups = {10, 11}, !.ta.networks = {AnyNetwork}],
                   [t \in {"tp", "tb"} |-> MCSetup.targets[t]]},
     extents  |-> {MCSetup.extents,
                   [MCSetup.extents EXCEPT ![1].naa = FALSE],
                   [MCSetup.extents EXCEPT ![1].disk = Clones]},
     luns     |-> {MCSetup.luns,
                   Maps({<<"tp", 1>>, <<"ta", 1>>, <<"tb", 3>>}),
                   Maps({<<"tp", 1>>, <<"ta", 3>>, <<"tb", 2>>}),
                   Maps({<<"tp", 1>>, <<"ta", 2>>, <<"tb", 3>>, <<"tp", 3>>})},
     datasets |-> {MCSetup.datasets, Games :> "zvol" @@ Clones :> "locked"}]

(* The publisher's PC, under another initiator name as well, and the other.*)
MCPCs == {[ip |-> "ip0", iqn |-> "iqn0", token |-> "key0"],
          [ip |-> "ip0", iqn |-> "iqn1", token |-> "key0"],
          [ip |-> "ip1", iqn |-> "iqn1", token |-> "key1"]}
=============================================================================
