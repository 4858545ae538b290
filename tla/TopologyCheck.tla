---------------------------- MODULE TopologyCheck ----------------------------
(***************************************************************************)
(* Saving a configuration and opening the dashboard while TrueNAS is       *)
(* administered and PCs log in and out.  Both read TrueNAS with one call   *)
(* after another and compare what they have read, so parts of it may have  *)
(* changed before the last one is read.  A saved configuration is used     *)
(* from the next restart on, by prepare and by the dashboard.              *)
(*                                                                         *)
(* Prepare is one step here: what it does after its first checks is the    *)
(* subject of ResetCoordinator.  Whether a save meets the release state is *)
(* the subject of ConfigLifecycle.  A save and a dashboard only read, so   *)
(* one of them at a time loses nothing.                                    *)
(***************************************************************************)
EXTENDS Topology, Naturals, Sequences, FiniteSets

CONSTANTS
    Drafts,       \* the configurations an operator tries to save
    Setup,        \* TrueNAS at the beginning, without sessions
    Values,       \* part of TrueNAS -> what it may be changed to
    PCs,          \* [ip, iqn, token]
    NoConfig,
    MaxChanges,   \* bound: changes made to TrueNAS
    MaxSessions   \* bound: sessions at a time

(* What discovery reads, in its order.                                     *)
Parts == <<"portals", "targets", "extents", "luns", "groups", "datasets", "sessions">>
AllParts == {"portals", "targets", "extents", "luns", "groups", "datasets", "sessions"}

ASSUME PartsAssumption ==
    /\ DOMAIN Setup = AllParts \ {"sessions"}
    /\ DOMAIN Values \subseteq DOMAIN Setup

VARIABLES
    nas,        \* TrueNAS
    sessions,   \* its sessions
    saved,      \* the configuration file
    config,     \* the configuration the containers were started with
    purpose,    \* what is being read for: "none", "save", "dashboard"
    draft,      \* the configuration being saved
    seen,       \* what has been read so far: part -> its value
    offered,    \* the dashboard shown last lets the operator stage
    fresh,      \* clients prepared, and nobody has logged in to their target since
    stale,      \* history: parts that changed after they were read
    drift,      \* history: the same, of the reading saved was accepted after
    changes

reading == <<purpose, draft, seen>>
vars == <<nas, sessions, saved, config, reading, offered, fresh, stale, drift, changes>>

Configs == Drafts \cup {NoConfig}

TypeOK ==
    /\ DOMAIN nas = DOMAIN Setup
    /\ saved \in Configs /\ config \in Configs /\ draft \in Configs
    /\ purpose \in {"none", "save", "dashboard"}
    /\ DOMAIN seen \subseteq AllParts
    /\ offered \in BOOLEAN
    /\ stale \subseteq AllParts /\ drift \subseteq AllParts

Init ==
    /\ nas = Setup /\ sessions = {}
    /\ saved = NoConfig /\ config = NoConfig
    /\ purpose = "none" /\ draft = NoConfig /\ seen = <<>>
    /\ offered = FALSE /\ fresh = {}
    /\ stale = {} /\ drift = {}
    /\ changes = 0
-----------------------------------------------------------------------------
(* The management container.                                               *)

BeginReading(what, d) ==
    /\ purpose = "none"
    /\ purpose' = what /\ draft' = d /\ seen' = <<>>
    /\ offered' = FALSE /\ stale' = {}
    /\ UNCHANGED <<nas, sessions, saved, config, fresh, drift, changes>>

EndReading == purpose' = "none" /\ draft' = NoConfig /\ seen' = <<>>

(* save_config: the draft must be a valid configuration on its own.        *)
Submit(d) == Relations(d) /\ BeginReading("save", d)

OpenDashboard == config # NoConfig /\ BeginReading("dashboard", NoConfig)

(* discover_configuration: one call after another; an association with a   *)
(* target that was not there when the targets were read is passed over.    *)
Current(part) ==
    CASE part = "sessions" -> sessions
      [] part = "luns"     -> {a \in nas.luns : a.target \in DOMAIN seen.targets}
      [] OTHER             -> nas[part]

Complete == DOMAIN seen = AllParts

Read(k) ==
    /\ purpose # "none"
    /\ DOMAIN seen = {Parts[j] : j \in 1..(k - 1)}
    /\ seen' = [p \in DOMAIN seen \cup {Parts[k]} |-> IF p = Parts[k] THEN Current(p) ELSE seen[p]]
    /\ UNCHANGED <<nas, sessions, saved, config, purpose, draft, offered, fresh,
                   stale, drift, changes>>

(* validate_live_topology, and save_yaml after it.                         *)
Save ==
    /\ purpose = "save" /\ Complete
    /\ IF LiveTopology(draft, seen)
       THEN saved' = draft /\ drift' = stale
       ELSE UNCHANGED <<saved, drift>>
    /\ EndReading /\ stale' = {}
    /\ UNCHANGED <<nas, sessions, config, offered, fresh, changes>>

(* Mutant of Offer: the dashboard is content with what discovery read.     *)
Offer_DiscoveryOnly(p) ==
    /\ saved = config
    /\ Status(p, seen.sessions) = "disconnected"
    /\ DiscoverySound(config, seen)

(* can_stage of the dashboard, but for the release and whether the extents *)
(* are enabled (ManagementApi): the target's LUNs and the extents are      *)
(* asked for again.                                                        *)
Offer(p) ==
    /\ saved = config
    /\ Status(p, seen.sessions) = "disconnected"
    /\ DiscoverySound(config, seen)
    /\ LunsMatch(nas, p)
    /\ MasterExtents(nas, p)

Judge ==
    /\ purpose = "dashboard" /\ Complete
    /\ offered' = Offer(config.publisher)
    /\ stale' = IF offered' THEN stale \ {"targets", "luns", "extents"} ELSE {}
    /\ EndReading
    /\ UNCHANGED <<nas, sessions, saved, config, fresh, drift, changes>>

(* Both containers are restarted and load the saved configuration.         *)
Restart ==
    /\ config' = saved
    /\ EndReading /\ stale' = {}
    /\ offered' = FALSE /\ fresh' = {}
    /\ UNCHANGED <<nas, sessions, saved, drift, changes>>
-----------------------------------------------------------------------------
(* The reset API: a PC asks for prepare.                                   *)
Prepare(pc, c) ==
    /\ Authenticated(config, pc, c)
    /\ Matching(config.clients[c], sessions) = {}
    /\ LunsMatch(nas, config.clients[c])
    /\ fresh' = fresh \cup {c}
    /\ UNCHANGED <<nas, sessions, saved, config, reading, offered, stale, drift, changes>>
-----------------------------------------------------------------------------
(* TrueNAS, its administrator and the PCs.                                 *)

(* The part has changed: what was read of it before is not true any more.  *)
Noted(part) ==
    /\ stale' = IF part \in DOMAIN seen \/ offered THEN stale \cup {part} ELSE stale
    /\ drift' = IF saved = NoConfig THEN drift ELSE drift \cup {part}

Change(part) ==
    /\ changes < MaxChanges /\ changes' = changes + 1
    /\ \E v \in Values[part] \ {nas[part]} : nas' = [nas EXCEPT ![part] = v]
    /\ Noted(part)
    /\ UNCHANGED <<sessions, saved, config, reading, offered, fresh>>

(* A target lets an initiator in that is in one of its groups, from one of *)
(* its networks.                                                           *)
Admits(pc, target) ==
    /\ target \in DOMAIN nas.targets
    /\ nas.targets[target].iscsi /\ Listens(nas, target) # {}
    /\ pc.iqn \in Entries(nas, target)
    /\ {pc.ip, AnyNetwork} \cap (Entries(nas, target) \cup nas.targets[target].networks) # {}

Login(pc, target) ==
    /\ Cardinality(sessions) < MaxSessions
    /\ Admits(pc, target)
    /\ sessions' = sessions \cup {[ip |-> pc.ip, iqn |-> pc.iqn, target |-> target]}
    /\ fresh' = {c \in fresh : config.clients[c].target # target}
    /\ Noted("sessions")
    /\ UNCHANGED <<nas, saved, config, reading, offered, changes>>

Logout(s) ==
    /\ sessions' = sessions \ {s}
    /\ Noted("sessions")
    /\ UNCHANGED <<nas, saved, config, reading, offered, fresh, changes>>
-----------------------------------------------------------------------------
Next ==
    \/ \E d \in Drafts : Submit(d)
    \/ OpenDashboard
    \/ \E k \in DOMAIN Parts : Read(k)
    \/ Save \/ Judge \/ Restart
    \/ config # NoConfig /\ \E pc \in PCs, c \in DOMAIN config.clients : Prepare(pc, c)
    \/ \E part \in DOMAIN Values : Change(part)
    \/ \E pc \in PCs, target \in DOMAIN nas.targets : Login(pc, target)
    \/ \E s \in sessions : Logout(s)

Spec == Init /\ [][Next]_vars
-----------------------------------------------------------------------------
(* Safety properties.                                                      *)

(* What a save accepted is what the other checks ask for: unless TrueNAS   *)
(* was changed since it was read, the dashboard finds nothing wrong with   *)
(* the publisher, and every prepare finds its LUNs and its clone parents.  *)
SavedIsServable ==
    saved # NoConfig /\ drift \subseteq {"sessions"} =>
        /\ DiscoverySound(saved, nas)
        /\ LunsMatch(nas, saved.publisher)
        /\ \A c \in DOMAIN saved.clients :
              /\ LunsMatch(nas, saved.clients[c])
              /\ \A v \in DOMAIN saved.clients[c].volumes :
                    IsDataset(nas, saved.clients[c].volumes[v].parent, "filesystem")

(* What a session shows.                                                   *)
Shown(s) == {a.extent : a \in {x \in nas.luns : x.target = s.target}}

(* The targets show what they showed when the configuration in use was     *)
(* checked.                                                                *)
TargetsAsChecked == config # NoConfig /\ config = saved /\ drift \cap {"targets", "luns"} = {}

Configured(s) == \E i \in Identities(config) : s.target = i.target

(* Nobody shares a disk: sessions on different configured targets show no  *)
(* extent in common, and only the publisher's target shows masters.        *)
DisksApart ==
    TargetsAsChecked =>
        \A s \in sessions : Configured(s) =>
            /\ \A t \in sessions : Configured(t) /\ s.target # t.target =>
                  Shown(s) \cap Shown(t) = {}
            /\ Shown(s) \cap ExtentIds(config.publisher) # {} =>
                  s.target = config.publisher.target

(* A client that was prepared is shown to nobody until somebody logs in to *)
(* its own target: neither a session that was there before nor a login to  *)
(* another configured target reaches its extents.                          *)
PreparedIsUnused ==
    TargetsAsChecked =>
        \A c \in fresh : \A s \in sessions :
            Configured(s) => Shown(s) \cap ExtentIds(config.clients[c]) = {}

(* When every PC has only its own sessions the dashboard reports conflicts *)
(* only between the publisher and the client that is the same PC.          *)
ConflictIsShared ==
    config # NoConfig /\ sessions \subseteq {Own(i) : i \in Identities(config)} =>
        \A i \in Identities(config) :
            Status(i, sessions) = "conflict" =>
                \E c \in DOMAIN config.clients :
                    /\ IsShared(config, c)
                    /\ i \in {config.publisher, config.clients[c]}
                    /\ Own(config.publisher) \in sessions \/ Own(config.clients[c]) \in sessions

(* If the dashboard offers to stage and nothing has changed since it read, *)
(* the first checks of stage pass: no session of the publisher, its LUNs   *)
(* and its extents.                                                        *)
OfferIsGood ==
    offered /\ stale \cap {"sessions", "targets", "luns", "extents"} = {} =>
        /\ Matching(config.publisher, sessions) = {}
        /\ LunsMatch(nas, config.publisher)
        /\ MasterExtents(nas, config.publisher)
=============================================================================
