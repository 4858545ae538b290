---------------------------- MODULE TopologyProofs ----------------------------
(***************************************************************************)
(* What a save accepted holds as long as TrueNAS is not changed, for any   *)
(* configurations, any TrueNAS and any PCs.                                *)
(***************************************************************************)
EXTENDS TopologyCheck, TLAPS

(* Two discoveries that agree in what validate_live_topology looks at: the *)
(* associations only as far as the targets are known.                      *)
Agree(d, e) ==
    /\ d.portals = e.portals /\ d.targets = e.targets /\ d.extents = e.extents
    /\ d.groups = e.groups /\ d.datasets = e.datasets
    /\ d.luns = {a \in e.luns : a.target \in DOMAIN e.targets}

LEMMA AttachedAgree ==
    ASSUME NEW d, NEW e, NEW t,
           d.luns = {a \in e.luns : a.target \in DOMAIN e.targets}, t \in DOMAIN e.targets
    PROVE  Attached(d, t) = Attached(e, t)
<1>1. {x \in d.luns : x.target = t} = {x \in e.luns : x.target = t}
  OBVIOUS
<1> QED
  BY <1>1 DEF Attached

LEMMA TopologyAgree ==
    ASSUME NEW cfg, NEW d, NEW e, Agree(d, e), LiveTopology(cfg, d)
    PROVE  LiveTopology(cfg, e)
<1>1. ASSUME NEW i \in Identities(cfg)
      PROVE  TargetFits(cfg, e, i) /\ Pairs(i) = Attached(e, i.target)
  <2>1. TargetFits(cfg, d, i) /\ Pairs(i) = Attached(d, i.target)
    BY DEF LiveTopology
  <2>2. TargetFits(cfg, e, i)
    BY <2>1 DEF TargetFits, Agree, Listens, Authorizes, Entries
  <2> QED
    BY <2>1, <2>2, AttachedAgree DEF Agree, TargetFits
<1>2. ASSUME NEW v \in DOMAIN cfg.publisher.volumes
      PROVE  MasterFits(e, cfg.publisher.volumes[v])
  BY DEF LiveTopology, MasterFits, Agree, Eligible, IsDataset
<1>3. ASSUME NEW c \in DOMAIN cfg.clients, NEW v \in DOMAIN cfg.clients[c].volumes
      PROVE  VolumeFits(e, cfg.clients[c].volumes[v])
  BY DEF LiveTopology, VolumeFits, Agree, Eligible, IsDataset
<1> QED
  BY <1>1, <1>2, <1>3 DEF LiveTopology

(* The targets and their LUNs alone.                                       *)
LEMMA LunsAgree ==
    ASSUME NEW cfg, NEW d, NEW e, LiveTopology(cfg, d), d.targets = e.targets,
           d.luns = {a \in e.luns : a.target \in DOMAIN e.targets}
    PROVE  \A i \in Identities(cfg) : LunsMatch(e, i)
<1> SUFFICES ASSUME NEW i \in Identities(cfg)
             PROVE  LunsMatch(e, i)
  OBVIOUS
<1>1. TargetFits(cfg, d, i) /\ Pairs(i) = Attached(d, i.target)
  BY DEF LiveTopology
<1>2. i.target \in DOMAIN e.targets
  BY <1>1 DEF TargetFits
<1> QED
  BY <1>1, <1>2, AttachedAgree DEF LunsMatch
-----------------------------------------------------------------------------
(* What has been read and has not changed since is still so.               *)
ReadInv ==
    /\ DOMAIN nas = DOMAIN Setup
    /\ DOMAIN seen \subseteq AllParts
    /\ \A p \in DOMAIN seen \ stale : p \notin {"luns", "sessions"} => seen[p] = nas[p]
    /\ "sessions" \in DOMAIN seen \ stale => seen["sessions"] = sessions
    /\ "luns" \in DOMAIN seen => "targets" \in DOMAIN seen
    /\ "luns" \in DOMAIN seen \ stale =>
          seen["luns"] = {a \in nas.luns : a.target \in DOMAIN seen["targets"]}

(* A configuration that is saved or in use is valid on its own, and as far *)
(* as TrueNAS has not been changed the saved one is valid there.           *)
ConfigInv ==
    /\ purpose = "save" => Relations(draft)
    /\ config # NoConfig => Relations(config)
    /\ saved # NoConfig =>
          /\ Relations(saved)
          /\ drift \subseteq {"sessions"} => LiveTopology(saved, nas)
          /\ drift \cap {"targets", "luns"} = {} =>
                \A i \in Identities(saved) : LunsMatch(nas, i)

(* Nobody is logged in to the target of a client that was prepared and has *)
(* not been used.                                                          *)
FreshInv ==
    /\ fresh # {} => config # NoConfig
    /\ \A c \in fresh :
          /\ c \in DOMAIN config.clients
          /\ \A s \in sessions : s.target # config.clients[c].target

OfferInv == OfferIsGood /\ (offered => purpose = "none")

Inv == ReadInv /\ ConfigInv /\ FreshInv /\ OfferInv
-----------------------------------------------------------------------------
LEMMA PartFacts ==
    /\ "targets" \in {Parts[j] : j \in 1..3}
    /\ \A k \in DOMAIN Parts : k \in 1..7 /\ Parts[k] \in AllParts /\ (Parts[k] = "luns" => k = 4)
<1>1. DOMAIN Parts = 1..7
  BY DEF Parts
<1>2. \A k \in 1..7 : Parts[k] \in AllParts /\ (Parts[k] = "luns" => k = 4)
  BY DEF Parts, AllParts
<1>3. Parts[2] = "targets"
  BY DEF Parts
<1> QED
  BY <1>1, <1>2, <1>3

LEMMA InitInv == Init => Inv
  BY DEF Init, Inv, ReadInv, ConfigInv, FreshInv, OfferInv, OfferIsGood

LEMMA ReadStep ==
    ASSUME ReadInv, NEW k \in DOMAIN Parts, Read(k)
    PROVE  ReadInv'
<1>1. /\ DOMAIN seen' = DOMAIN seen \cup {Parts[k]}
      /\ seen'[Parts[k]] = Current(Parts[k])
      /\ \A p \in DOMAIN seen : p # Parts[k] => seen'[p] = seen[p]
      /\ nas' = nas /\ sessions' = sessions /\ stale' = stale
  BY DEF Read
<1>2. Parts[k] \in AllParts
  BY PartFacts
<1>3. Parts[k] = "luns" => "targets" \in DOMAIN seen
  BY PartFacts DEF Read
<1>4. /\ Parts[k] = "sessions" => Current(Parts[k]) = sessions
      /\ Parts[k] \notin {"luns", "sessions"} => Current(Parts[k]) = nas[Parts[k]]
      /\ Parts[k] = "luns" =>
            Current(Parts[k]) = {a \in nas.luns : a.target \in DOMAIN seen["targets"]}
  BY DEF Current
<1>5. Parts[k] = "targets" => "luns" \notin DOMAIN seen
  <2>1. {Parts[j] : j \in 1..(k - 1)} = DOMAIN seen
    BY DEF Read
  <2>2. Parts[k] = "targets" => k = 2
    BY PartFacts DEF Parts
  <2>3. k = 2 => {Parts[j] : j \in 1..(k - 1)} = {"portals"}
    BY DEF Parts
  <2> QED
    BY <2>1, <2>2, <2>3
<1>6. (DOMAIN seen \subseteq AllParts)' /\ ("luns" \in DOMAIN seen => "targets" \in DOMAIN seen)'
  BY <1>1, <1>2, <1>3 DEF ReadInv
<1>7. \A p \in DOMAIN seen' \ stale : p \notin {"luns", "sessions"} => seen'[p] = nas[p]
  BY <1>1, <1>4 DEF ReadInv
<1>8. "sessions" \in DOMAIN seen' \ stale => seen'["sessions"] = sessions
  BY <1>1, <1>4 DEF ReadInv
<1>9. "luns" \in DOMAIN seen' \ stale =>
          seen'["luns"] = {a \in nas.luns : a.target \in DOMAIN seen'["targets"]}
  <2>1. CASE Parts[k] = "luns"
    BY <2>1, <1>1, <1>3, <1>4
  <2>2. CASE Parts[k] # "luns"
    BY <2>2, <1>1, <1>5 DEF ReadInv
  <2> QED
    BY <2>1, <2>2
<1> QED
  BY <1>1, <1>6, <1>7, <1>8, <1>9 DEF ReadInv

(* What a change leaves of the invariant about the reading.                *)
LEMMA ChangeReading ==
    ASSUME ReadInv, NEW part \in DOMAIN Values, Change(part), PartsAssumption
    PROVE  ReadInv'
<1>1. PICK v : nas' = [nas EXCEPT ![part] = v]
  BY DEF Change
<1>2. /\ DOMAIN nas' = DOMAIN nas /\ part \in AllParts /\ part # "sessions"
      /\ \A p \in DOMAIN nas : p # part => nas'[p] = nas[p]
  BY <1>1 DEF PartsAssumption, ReadInv
<1>3. /\ seen' = seen /\ sessions' = sessions /\ stale \subseteq stale'
      /\ part \in DOMAIN seen => part \in stale'
  BY DEF Change, Noted, reading
<1>4. DOMAIN nas = AllParts \ {"sessions"}
  BY DEF PartsAssumption, ReadInv
<1>5. \A p \in DOMAIN seen \ stale' : p \notin {"luns", "sessions"} => seen[p] = nas'[p]
  BY <1>2, <1>3, <1>4 DEF ReadInv
<1>6. "luns" \in DOMAIN seen \ stale' => nas'["luns"] = nas["luns"]
  BY <1>2, <1>3, <1>4 DEF AllParts
<1> QED
  BY <1>2, <1>3, <1>5, <1>6 DEF ReadInv

(* What a change leaves of TrueNAS.                                        *)
LEMMA ChangeConfigs ==
    ASSUME ReadInv, ConfigInv, NEW part \in DOMAIN Values, Change(part), PartsAssumption
    PROVE  ConfigInv'
<1>1. PICK v : nas' = [nas EXCEPT ![part] = v]
  BY DEF Change
<1>2. \A p \in DOMAIN nas : p # part => nas'[p] = nas[p]
  BY <1>1
<1>3. /\ saved' = saved /\ config' = config /\ purpose' = purpose /\ draft' = draft
      /\ saved # NoConfig => drift' = drift \cup {part}
  BY DEF Change, Noted, reading
<1>4. part # "sessions" /\ DOMAIN nas = AllParts \ {"sessions"}
  BY DEF PartsAssumption, ReadInv
<1>5. saved # NoConfig => ~(drift' \subseteq {"sessions"})
  BY <1>3, <1>4
<1>6. ASSUME saved # NoConfig, drift' \cap {"targets", "luns"} = {}, NEW i \in Identities(saved)
      PROVE  LunsMatch(nas', i)
  <2>1. part # "targets" /\ part # "luns" /\ drift \cap {"targets", "luns"} = {}
    BY <1>3, <1>6
  <2>2. nas'["targets"] = nas["targets"] /\ nas'["luns"] = nas["luns"]
    BY <1>2, <1>4, <2>1 DEF AllParts
  <2>3. LunsMatch(nas, i)
    BY <1>6, <2>1 DEF ConfigInv
  <2> QED
    BY <2>2, <2>3 DEF LunsMatch, Attached
<1> QED
  BY <1>3, <1>5, <1>6 DEF ConfigInv

LEMMA SaveStep ==
    ASSUME Inv, Save
    PROVE  Inv'
<1> USE DEF Inv
<1>1. /\ purpose = "save" /\ DOMAIN seen = AllParts
      /\ purpose' = "none" /\ seen' = <<>> /\ stale' = {} /\ config' = config
      /\ nas' = nas /\ sessions' = sessions /\ fresh' = fresh /\ offered' = offered
  BY DEF Save, Complete, EndReading
<1>2. ReadInv'
  BY <1>1 DEF ReadInv
<1>3. ConfigInv'
  <2>1. CASE ~LiveTopology(draft, seen)
    BY <2>1, <1>1 DEF Save, ConfigInv
  <2>2. CASE LiveTopology(draft, seen)
    <3>1. saved' = draft /\ drift' = stale /\ Relations(draft)
      BY <2>2, <1>1 DEF Save, ConfigInv
    <3>2. \A p \in AllParts \ {"luns", "sessions"} : p \notin stale => seen[p] = nas[p]
      BY <1>1 DEF ReadInv
    <3>3. "luns" \notin stale =>
              seen["luns"] = {a \in nas.luns : a.target \in DOMAIN seen["targets"]}
      BY <1>1 DEF ReadInv, AllParts
    <3>4. stale \subseteq {"sessions"} => Agree(seen, nas)
      BY <3>2, <3>3 DEF Agree, AllParts
    <3>5. stale \subseteq {"sessions"} => LiveTopology(draft, nas)
      BY <3>4, <2>2, TopologyAgree
    <3>6. ASSUME stale \cap {"targets", "luns"} = {}
          PROVE  \A i \in Identities(draft) : LunsMatch(nas, i)
      <4>1. seen.targets = nas.targets /\ "luns" \notin stale
        BY <3>2, <3>6 DEF AllParts
      <4>2. seen.luns = {a \in nas.luns : a.target \in DOMAIN nas.targets}
        BY <4>1, <3>3
      <4> QED
        BY <4>1, <4>2, <2>2, LunsAgree
    <3> QED
      BY <3>1, <3>5, <3>6, <1>1 DEF ConfigInv
  <2> QED
    BY <2>1, <2>2
<1>4. FreshInv'
  BY <1>1 DEF FreshInv
<1>5. OfferInv'
  BY <1>1 DEF OfferInv, OfferIsGood
<1> QED
  BY <1>2, <1>3, <1>4, <1>5

LEMMA JudgeStep ==
    ASSUME Inv, Judge
    PROVE  Inv'
<1> USE DEF Inv
<1>1. /\ DOMAIN seen = AllParts /\ purpose' = "none" /\ seen' = <<>> /\ draft' = NoConfig
      /\ UNCHANGED <<nas, sessions, saved, config, fresh, drift>>
      /\ offered' = Offer(config.publisher)
      /\ offered' => stale' = stale \ {"targets", "luns", "extents"}
  BY DEF Judge, Complete, EndReading
<1>2. ReadInv' /\ ConfigInv' /\ FreshInv'
  BY <1>1 DEF ReadInv, ConfigInv, FreshInv
<1>3. ASSUME offered', stale' \cap {"sessions", "targets", "luns", "extents"} = {}
      PROVE  /\ Matching(config.publisher, sessions) = {}
             /\ LunsMatch(nas, config.publisher)
             /\ MasterExtents(nas, config.publisher)
  <2>1. seen["sessions"] = sessions
    BY <1>1, <1>3 DEF ReadInv, AllParts
  <2>2. Status(config.publisher, seen["sessions"]) = "disconnected"
    BY <1>1, <1>3 DEF Offer
  <2>3. Matching(config.publisher, sessions) = {}
    BY <2>1, <2>2 DEF Status
  <2> QED
    BY <2>3, <1>1, <1>3 DEF Offer
<1>4. OfferInv'
  BY <1>1, <1>3 DEF OfferInv, OfferIsGood
<1> QED
  BY <1>2, <1>4

LEMMA ChangeStep ==
    ASSUME Inv, NEW part \in DOMAIN Values, Change(part), PartsAssumption
    PROVE  Inv'
<1> USE DEF Inv
<1>1. ReadInv' /\ ConfigInv'
  BY ChangeReading, ChangeConfigs
<1>2. UNCHANGED <<sessions, config, purpose, offered, fresh>>
  BY DEF Change, reading
<1>3. FreshInv'
  BY <1>2 DEF FreshInv
<1>4. PICK v : nas' = [nas EXCEPT ![part] = v]
  BY DEF Change
<1>5. \A p \in DOMAIN nas : p # part => nas'[p] = nas[p]
  BY <1>4
<1>6. offered => stale' = stale \cup {part}
  BY DEF Change, Noted
<1>7. ASSUME offered, stale' \cap {"sessions", "targets", "luns", "extents"} = {}
      PROVE  /\ Matching(config.publisher, sessions) = {}
             /\ LunsMatch(nas', config.publisher)
             /\ MasterExtents(nas', config.publisher)
  <2>1. DOMAIN nas = AllParts \ {"sessions"}
    BY DEF ReadInv, PartsAssumption
  <2>2. /\ nas'["targets"] = nas["targets"] /\ nas'["luns"] = nas["luns"]
        /\ nas'["extents"] = nas["extents"]
    BY <1>5, <1>6, <1>7, <2>1 DEF AllParts
  <2>3. /\ Matching(config.publisher, sessions) = {}
        /\ LunsMatch(nas, config.publisher)
        /\ MasterExtents(nas, config.publisher)
    BY <1>6, <1>7 DEF OfferInv, OfferIsGood
  <2>4. LunsMatch(nas', config.publisher)
    BY <2>2, <2>3 DEF LunsMatch, Attached
  <2>5. MasterExtents(nas', config.publisher)
    BY <2>2, <2>3 DEF MasterExtents
  <2> QED
    BY <2>3, <2>4, <2>5
<1>8. OfferInv'
  BY <1>2, <1>7 DEF OfferInv, OfferIsGood
<1> QED
  BY <1>1, <1>3, <1>8

LEMMA SessionStep ==
    ASSUME Inv, \/ \E pc \in PCs, target \in DOMAIN nas.targets : Login(pc, target)
                \/ \E s \in sessions : Logout(s)
    PROVE  Inv'
<1> USE DEF Inv
<1>1. /\ UNCHANGED <<nas, saved, config, purpose, draft, seen, offered>>
      /\ Noted("sessions")
  BY DEF Login, Logout, reading
<1>2. /\ stale \subseteq stale' /\ stale' \subseteq stale \cup {"sessions"}
      /\ "sessions" \in DOMAIN seen \/ offered => "sessions" \in stale'
      /\ drift \subseteq drift' /\ drift' \subseteq drift \cup {"sessions"}
  BY <1>1 DEF Noted
<1>3. ReadInv'
  BY <1>1, <1>2 DEF ReadInv
<1>4. ConfigInv'
  BY <1>1, <1>2 DEF ConfigInv
<1>5. FreshInv'
  <2>1. ASSUME NEW pc \in PCs, NEW target \in DOMAIN nas.targets, Login(pc, target)
        PROVE  FreshInv'
    BY <2>1, <1>1 DEF Login, FreshInv
  <2>2. ASSUME NEW s \in sessions, Logout(s)
        PROVE  FreshInv'
    BY <2>2, <1>1 DEF Logout, FreshInv
  <2> QED
    BY <2>1, <2>2
<1>6. OfferInv'
  BY <1>1, <1>2 DEF OfferInv, OfferIsGood
<1> QED
  BY <1>3, <1>4, <1>5, <1>6

THEOREM Safety == Spec => []Inv
<1>1. Init => Inv
  BY InitInv
<1>2. Inv /\ [Next]_vars => Inv'
  <2> SUFFICES ASSUME Inv, [Next]_vars
               PROVE  Inv'
    OBVIOUS
  <2>1. ASSUME NEW d \in Drafts, Submit(d)
        PROVE  Inv'
    BY <2>1 DEF Submit, BeginReading, Inv, ReadInv, ConfigInv, FreshInv, OfferInv, OfferIsGood
  <2>2. CASE OpenDashboard
    BY <2>2 DEF OpenDashboard, BeginReading, Inv, ReadInv, ConfigInv, FreshInv, OfferInv,
                OfferIsGood
  <2>3. ASSUME NEW k \in DOMAIN Parts, Read(k)
        PROVE  Inv'
    BY <2>3, ReadStep DEF Read, Inv, ConfigInv, FreshInv, OfferInv, OfferIsGood
  <2>4. CASE Save
    BY <2>4, SaveStep
  <2>5. CASE Judge
    BY <2>5, JudgeStep
  <2>6. CASE Restart
    BY <2>6 DEF Restart, EndReading, Inv, ReadInv, ConfigInv, FreshInv, OfferInv, OfferIsGood
  <2>7. ASSUME config # NoConfig, NEW pc \in PCs, NEW c \in DOMAIN config.clients, Prepare(pc, c)
        PROVE  Inv'
    <3>1. /\ UNCHANGED <<nas, sessions, saved, config, purpose, draft, seen, offered, stale, drift>>
          /\ fresh' = fresh \cup {c}
      BY <2>7 DEF Prepare, reading
    <3>2. \A s \in sessions : s.target # config.clients[c].target
      BY <2>7 DEF Prepare, Matching
    <3>3. FreshInv'
      BY <2>7, <3>1, <3>2 DEF Inv, FreshInv
    <3> QED
      BY <3>1, <3>3 DEF Inv, ReadInv, ConfigInv, OfferInv, OfferIsGood
  <2>8. ASSUME NEW part \in DOMAIN Values, Change(part)
        PROVE  Inv'
    BY <2>8, ChangeStep, PartsAssumption
  <2>9. CASE \/ \E pc \in PCs, target \in DOMAIN nas.targets : Login(pc, target)
             \/ \E s \in sessions : Logout(s)
    BY <2>9, SessionStep
  <2>10. CASE UNCHANGED vars
    BY <2>10 DEF vars, reading, Inv, ReadInv, ConfigInv, FreshInv, OfferInv, OfferIsGood
  <2> QED
    BY <2>1, <2>2, <2>3, <2>4, <2>5, <2>6, <2>7, <2>8, <2>9, <2>10 DEF Next
<1> QED
  BY <1>1, <1>2, PTL DEF Spec
-----------------------------------------------------------------------------
(* The relations of a valid configuration: whose target, initiator or      *)
(* address it is.                                                          *)
LEMMA IdentityFacts ==
    ASSUME NEW cfg, Relations(cfg), NEW i \in Identities(cfg), NEW j \in Identities(cfg), i # j
    PROVE  /\ i.target # j.target
           /\ ExtentIds(i) \cap ExtentIds(j) = {}
           /\ i.ip = j.ip <=> i.iqn = j.iqn
           /\ i.ip = j.ip => \E c \in DOMAIN cfg.clients :
                                IsShared(cfg, c) /\ {i, j} = {cfg.publisher, cfg.clients[c]}
<1>1. \A c, d \in DOMAIN cfg.clients : cfg.clients[c] # cfg.clients[d] =>
          /\ cfg.clients[c].ip # cfg.clients[d].ip
          /\ cfg.clients[c].iqn # cfg.clients[d].iqn
          /\ cfg.clients[c].target # cfg.clients[d].target
  <2> SUFFICES ASSUME NEW c \in DOMAIN cfg.clients, NEW d \in DOMAIN cfg.clients,
                      cfg.clients[c] # cfg.clients[d]
               PROVE  /\ cfg.clients[c].ip # cfg.clients[d].ip
                      /\ cfg.clients[c].iqn # cfg.clients[d].iqn
                      /\ cfg.clients[c].target # cfg.clients[d].target
    OBVIOUS
  <2>1. \A field \in {"ip", "iqn", "target", "token"} :
            cfg.clients[c][field] # cfg.clients[d][field]
    BY DEF Relations, UniqueClients
  <2> QED
    BY <2>1
<1>2. \A c \in DOMAIN cfg.clients : cfg.clients[c].target # cfg.publisher.target
  BY DEF Relations, UniqueClients
<1>3. \A c \in DOMAIN cfg.clients :
          cfg.clients[c].ip = cfg.publisher.ip <=> cfg.clients[c].iqn = cfg.publisher.iqn
  BY DEF Relations, SharedRole
<1>4. ExtentIds(i) \cap ExtentIds(j) = {}
  BY DEF Relations, UniqueExtents
<1>5. CASE i = cfg.publisher
  <2>1. PICK c \in DOMAIN cfg.clients : j = cfg.clients[c]
    BY <1>5 DEF Identities
  <2> QED
    BY <1>2, <1>3, <1>4, <1>5, <2>1 DEF IsShared
<1>6. CASE j = cfg.publisher
  <2>1. PICK c \in DOMAIN cfg.clients : i = cfg.clients[c]
    BY <1>6 DEF Identities
  <2> QED
    BY <1>2, <1>3, <1>4, <1>6, <2>1 DEF IsShared
<1>7. CASE i # cfg.publisher /\ j # cfg.publisher
  <2>1. PICK c \in DOMAIN cfg.clients : i = cfg.clients[c]
    BY <1>7 DEF Identities
  <2>2. PICK d \in DOMAIN cfg.clients : j = cfg.clients[d]
    BY <1>7 DEF Identities
  <2> QED
    BY <1>1, <1>4, <2>1, <2>2
<1> QED
  BY <1>5, <1>6, <1>7

(* A session on the target of an identity shows the extents of this        *)
(* identity.                                                               *)
LEMMA ShownIsOwn ==
    ASSUME NEW i, LunsMatch(nas, i), NEW s, s.target = i.target
    PROVE  Shown(s) \subseteq ExtentIds(i)
<1> SUFFICES ASSUME NEW a \in nas.luns, a.target = s.target
             PROVE  a.extent \in ExtentIds(i)
  BY DEF Shown
<1>1. <<a.extent, a.lun>> \in Pairs(i)
  BY DEF LunsMatch, Attached
<1> QED
  BY <1>1 DEF Pairs, ExtentIds

LEMMA TargetsMatch ==
    ASSUME Inv, TargetsAsChecked
    PROVE  Relations(config) /\ \A i \in Identities(config) : LunsMatch(nas, i)
BY DEF Inv, ConfigInv, TargetsAsChecked

(* A saved configuration is one the dashboard and prepare can work with    *)
(* (validate_live_topology against management.py and coordinator.py).      *)
THEOREM SavedServable == Spec => []SavedIsServable
<1>1. Inv => SavedIsServable
  <2> SUFFICES ASSUME Inv, saved # NoConfig, drift \subseteq {"sessions"}
               PROVE  /\ DiscoverySound(saved, nas)
                      /\ LunsMatch(nas, saved.publisher)
                      /\ \A c \in DOMAIN saved.clients :
                            /\ LunsMatch(nas, saved.clients[c])
                            /\ \A v \in DOMAIN saved.clients[c].volumes :
                                  IsDataset(nas, saved.clients[c].volumes[v].parent, "filesystem")
    BY DEF SavedIsServable
  <2>1. LiveTopology(saved, nas) /\ \A i \in Identities(saved) : LunsMatch(nas, i)
    BY DEF Inv, ConfigInv
  <2>2. \A c \in DOMAIN saved.clients : saved.clients[c] \in Identities(saved)
    BY DEF Identities
  <2>3. saved.publisher \in Identities(saved)
    BY DEF Identities
  <2>4. DiscoverySound(saved, nas)
    BY <2>1, <2>3 DEF LiveTopology, DiscoverySound
  <2>5. \A c \in DOMAIN saved.clients : \A v \in DOMAIN saved.clients[c].volumes :
            IsDataset(nas, saved.clients[c].volumes[v].parent, "filesystem")
    BY <2>1 DEF LiveTopology, VolumeFits
  <2> QED
    BY <2>1, <2>2, <2>3, <2>4, <2>5
<1> QED
  BY <1>1, Safety, PTL

(* Sessions on different configured targets share no disk (the uniqueness  *)
(* checks of validate_relations with the exact sets of LUNs).              *)
THEOREM Isolation == Spec => []DisksApart
<1>1. Inv => DisksApart
  <2> SUFFICES ASSUME Inv, TargetsAsChecked, NEW s \in sessions, Configured(s)
               PROVE  /\ \A t \in sessions : Configured(t) /\ s.target # t.target =>
                            Shown(s) \cap Shown(t) = {}
                      /\ Shown(s) \cap ExtentIds(config.publisher) # {} =>
                            s.target = config.publisher.target
    BY DEF DisksApart
  <2>1. PICK i \in Identities(config) : s.target = i.target
    BY DEF Configured
  <2>2. Shown(s) \subseteq ExtentIds(i)
    BY <2>1, TargetsMatch, ShownIsOwn
  <2>3. ASSUME NEW t \in sessions, Configured(t), s.target # t.target
        PROVE  Shown(s) \cap Shown(t) = {}
    <3>1. PICK j \in Identities(config) : t.target = j.target
      BY <2>3 DEF Configured
    <3>2. Shown(t) \subseteq ExtentIds(j)
      BY <3>1, TargetsMatch, ShownIsOwn
    <3>3. ExtentIds(i) \cap ExtentIds(j) = {}
      BY <2>1, <2>3, <3>1, TargetsMatch, IdentityFacts
    <3> QED
      BY <2>2, <3>2, <3>3
  <2>4. ASSUME s.target # config.publisher.target
        PROVE  Shown(s) \cap ExtentIds(config.publisher) = {}
    <3>1. config.publisher \in Identities(config) /\ i # config.publisher
      BY <2>1, <2>4 DEF Identities
    <3> QED
      BY <2>2, <3>1, TargetsMatch, IdentityFacts
  <2> QED
    BY <2>3, <2>4
<1> QED
  BY <1>1, Safety, PTL

(* What prepare resets is in nobody's use (_matching_sessions and          *)
(* _verify_target_luns of the coordinator).                                *)
THEOREM PreparedUnused == Spec => []PreparedIsUnused
<1>1. Inv => PreparedIsUnused
  <2> SUFFICES ASSUME Inv, TargetsAsChecked, NEW c \in fresh, NEW s \in sessions, Configured(s)
               PROVE  Shown(s) \cap ExtentIds(config.clients[c]) = {}
    BY DEF PreparedIsUnused
  <2>1. PICK i \in Identities(config) : s.target = i.target
    BY DEF Configured
  <2>2. Shown(s) \subseteq ExtentIds(i)
    BY <2>1, TargetsMatch, ShownIsOwn
  <2>3. config.clients[c] \in Identities(config) /\ i # config.clients[c]
    BY <2>1 DEF Inv, FreshInv, Identities
  <2> QED
    BY <2>2, <2>3, TargetsMatch, IdentityFacts
<1> QED
  BY <1>1, Safety, PTL

(* The dashboard takes no PC's own session for a conflict, but for the     *)
(* shared role (_connection_status).                                       *)
THEOREM ConflictShared == Spec => []ConflictIsShared
<1>1. Inv => ConflictIsShared
  <2> SUFFICES ASSUME Inv, config # NoConfig,
                      sessions \subseteq {Own(i) : i \in Identities(config)},
                      NEW i \in Identities(config), Status(i, sessions) = "conflict"
               PROVE  \E c \in DOMAIN config.clients :
                         /\ IsShared(config, c)
                         /\ i \in {config.publisher, config.clients[c]}
                         /\ Own(config.publisher) \in sessions \/ Own(config.clients[c]) \in sessions
    BY DEF ConflictIsShared
  <2>1. Matching(i, sessions) # {} /\ Matching(i, sessions) # {Own(i)}
    BY DEF Status
  <2>2. PICK s \in Matching(i, sessions) : s # Own(i)
    BY <2>1
  <2>3. PICK j \in Identities(config) : s = Own(j) /\ s \in sessions
    BY <2>2 DEF Matching
  <2>4. i # j /\ (j.ip = i.ip \/ j.iqn = i.iqn \/ j.target = i.target)
    BY <2>2, <2>3 DEF Matching, Own
  <2>5. Relations(config)
    BY DEF Inv, ConfigInv
  <2>6. PICK c \in DOMAIN config.clients :
            IsShared(config, c) /\ {i, j} = {config.publisher, config.clients[c]}
    BY <2>4, <2>5, IdentityFacts
  <2> QED
    BY <2>3, <2>6
<1> QED
  BY <1>1, Safety, PTL

(* The dashboard and stage agree about TrueNAS (management.py against      *)
(* release_manager.py).                                                    *)
THEOREM OfferGood == Spec => []OfferIsGood
<1>1. Inv => OfferIsGood
  BY DEF Inv, OfferInv
<1> QED
  BY <1>1, Safety, PTL
-----------------------------------------------------------------------------
LEMMA ConstantParts ==
    /\ DOMAIN Values \subseteq AllParts
    /\ \A k \in DOMAIN Parts : Parts[k] \in AllParts
    /\ "sessions" \in AllParts
BY PartsAssumption, PartFacts DEF AllParts

(* TopologyCheck keeps the types of its variables: what is read and what   *)
(* has changed are parts of TrueNAS, what is saved or in use is one of the *)
(* drafts (save_yaml, restart).                                            *)
THEOREM TypeCorrect == Spec => []TypeOK
<1>1. Init => TypeOK
  <2>1. Init => offered \in BOOLEAN
    BY Zenon DEF Init
  <2> QED
    BY <2>1 DEF Init, TypeOK, Configs
<1>2. TypeOK /\ [Next]_vars => TypeOK'
  <2> SUFFICES ASSUME TypeOK, [Next]_vars
               PROVE  TypeOK'
    OBVIOUS
  <2>1. ASSUME NEW d \in Drafts, Submit(d)
        PROVE  TypeOK'
    <3>1. offered' \in BOOLEAN
      BY <2>1, Zenon DEF Submit, BeginReading
    <3> QED
      BY <2>1, <3>1 DEF Submit, BeginReading, TypeOK, Configs
  <2>2. CASE OpenDashboard
    <3>1. offered' \in BOOLEAN
      BY <2>2, Zenon DEF OpenDashboard, BeginReading
    <3> QED
      BY <2>2, <3>1 DEF OpenDashboard, BeginReading, TypeOK, Configs
  <2>3. ASSUME NEW k \in DOMAIN Parts, Read(k)
        PROVE  TypeOK'
    <3>1. DOMAIN seen' = DOMAIN seen \cup {Parts[k]}
      BY <2>3 DEF Read
    <3> QED
      BY <2>3, <3>1, ConstantParts DEF Read, TypeOK
  <2>4. CASE Save
    BY <2>4 DEF Save, EndReading, TypeOK, Configs
  <2>5. CASE Judge
    <3>1. offered' \in BOOLEAN
      BY <2>5 DEF Judge, Offer
    <3>2. stale' \subseteq AllParts
      BY <2>5 DEF Judge, TypeOK
    <3> QED
      BY <2>5, <3>1, <3>2 DEF Judge, EndReading, TypeOK, Configs
  <2>6. CASE Restart
    <3>1. offered' \in BOOLEAN
      BY <2>6, Zenon DEF Restart
    <3> QED
      BY <2>6, <3>1 DEF Restart, EndReading, TypeOK, Configs
  <2>7. ASSUME NEW pc \in PCs, NEW c \in DOMAIN config.clients, Prepare(pc, c)
        PROVE  TypeOK'
    BY <2>7 DEF Prepare, reading, TypeOK
  <2>8. ASSUME NEW part \in DOMAIN Values, Change(part)
        PROVE  TypeOK'
    <3>1. DOMAIN nas' = DOMAIN nas
      BY <2>8 DEF Change
    <3>2. stale' \subseteq AllParts /\ drift' \subseteq AllParts
      BY <2>8, ConstantParts DEF Change, Noted, TypeOK
    <3> QED
      BY <2>8, <3>1, <3>2 DEF Change, reading, TypeOK
  <2>9. CASE \/ \E pc \in PCs, target \in DOMAIN nas.targets : Login(pc, target)
             \/ \E s \in sessions : Logout(s)
    <3>1. stale' \subseteq AllParts /\ drift' \subseteq AllParts
      BY <2>9, ConstantParts DEF Login, Logout, Noted, TypeOK
    <3> QED
      BY <2>9, <3>1 DEF Login, Logout, reading, TypeOK
  <2>10. CASE UNCHANGED vars
    BY <2>10 DEF vars, reading, TypeOK
  <2> QED
    BY <2>1, <2>2, <2>3, <2>4, <2>5, <2>6, <2>7, <2>8, <2>9, <2>10 DEF Next
<1> QED
  BY <1>1, <1>2, PTL DEF Spec
=============================================================================
