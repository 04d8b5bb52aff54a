-------------------------- MODULE UnitRequestsProofs --------------------------
(***************************************************************************)
(* Theorems about UnitRequests, for every set of releases and places, and  *)
(* every bound.                                                            *)
(***************************************************************************)
EXTENDS UnitRequests, SequenceTheorems, TLAPS

-----------------------------------------------------------------------------
(* The inductive invariant.                                                *)

Values == BOOLEAN \union Places
Locations == UNION {[K -> Values] : K \in SUBSET {"assigned", "place"}}
Sites == Places \union {"none"}
Wants == [reboot : Nat, target : Nat, location : Locations]
Asks == [do : {"none", "reboot", "install"}, arg : Nat]
Jobs == [do : {"reboot", "check", "sync"}, place : Sites, stale : BOOLEAN]
Gets == {[get |-> TRUE]}
Reports == [get : {FALSE}, fw : Versions, location : Locations, reboot : BOOLEAN,
            target : BOOLEAN]

Types ==
    /\ desired \in Wants /\ reported \in [fw : Versions, location : Locations]
    /\ table \in Sites /\ jobs \subseteq Jobs
    /\ connected \in BOOLEAN /\ down \subseteq Wants /\ up \in Seq(Gets \union Reports)
    /\ told \in {"fine", "warned", "silent"}
    /\ config \in [reboot : Nat, target : Nat] /\ clearTarget \in BOOLEAN /\ known \in Locations
    /\ call \in [at : {"idle", "guard", "hand", "target"}, reboot : Nat, target : Nat]
    /\ slot \in Slots /\ image \in [Slots -> Versions] /\ honored \in [Slots -> Nat]
    /\ request \in [Slots -> Asks] /\ worker \in Asks
    /\ issued \in Nat /\ reboots \in [Requests -> Nat]
    /\ overlap \in BOOLEAN /\ echoed \in BOOLEAN

(* A request met anywhere has been made.                                   *)
Made ==
    /\ desired.reboot <= issued /\ config.reboot <= issued /\ call.reboot <= issued
    /\ \A m \in down : m.reboot <= issued
    /\ \A s \in Slots :
           honored[s] <= issued /\ (request[s].do = "reboot" => request[s].arg <= issued)
    /\ worker.do = "reboot" => worker.arg <= issued
    /\ \A r \in Requests : r > issued => reboots[r] = 0

(* Nothing excuses the requests made to the version that runs, and that    *)
(* version has the guard.                                                  *)
Checked ==
    /\ \A r \in 1 .. issued : r \notin excused => Guarded
    /\ \A j \in jobs : j.do = "reboot" /\ ~j.stale => Guarded

(* How often a request was carried out or will be, as things stand; if     *)
(* once, the guard tells, be it that a newer one has taken its place.      *)
Count(b) == IF b THEN 1 ELSE 0
Carried(r) ==
    reboots[r] + Count(call.at = "hand" /\ call.reboot = r)
               + Count(request[slot].do = "reboot" /\ request[slot].arg = r)
               + Count(worker.do = "reboot" /\ worker.arg = r)
Once ==
    \A r \in Requests : r \notin excused =>
        Carried(r) <= 1 /\ (Carried(r) = 1 => r <= honored[slot])

(* No slot holds a request to install what it runs.                        *)
NewImage == \A s \in Slots : request[s].do = "install" => request[s].arg # image[s]

(* What the unit and its shadow know of a location was once desired.       *)
Grown ==
    LET keys == DOMAIN desired.location IN
    /\ DOMAIN known \subseteq keys /\ DOMAIN reported.location \subseteq keys
    /\ \A m \in down : DOMAIN m.location \subseteq keys
    /\ \A i \in DOMAIN up : ~up[i].get => DOMAIN up[i].location \subseteq keys
    /\ "assigned" \notin keys => stored = "none"

(* Once the agent has reported, its last report under way, or what the     *)
(* shadow took, is what it knows.                                          *)
Within(l, of) == \A k \in DOMAIN l : k \in DOMAIN of /\ of[k] = l[k]
Last(i) == i \in DOMAIN up /\ ~up[i].get /\ \A j \in DOMAIN up : j > i => up[j].get
Echoed ==
    echoed => /\ (\A i \in DOMAIN up : up[i].get) => Within(known, reported.location)
              /\ \A i \in DOMAIN up : Last(i) => up[i].location = known

(* The file on disk is what the agent knows, as far as it does, unless it  *)
(* could not be written.                                                   *)
Filed ==
    ~misfiled /\ "assigned" \in DOMAIN known =>
        IF ~known.assigned THEN stored = "none"
        ELSE "place" \in DOMAIN known => stored = known.place

(* What is desired is known to a connected agent, or will be: a message    *)
(* with it is on the way down, or a get or a report on the way up that     *)
(* will bring one.                                                         *)
HasReport == \E i \in DOMAIN up : ~up[i].get
Covered(k) ==
    \/ k \in DOMAIN known /\ (known[k] = desired.location[k] \/ ~echoed \/ HasReport)
    \/ \E m \in down : k \in DOMAIN m.location
    \/ \E i \in DOMAIN up : up[i].get
InHand ==
    connected /\ UnitSupportsLocation(Running) => \A k \in DOMAIN desired.location : Covered(k)

(* A location request that met no other writes its own place, and when it  *)
(* ended well the shadow desires what the table has.                       *)
Located(j) == j.do \in {"check", "sync"}
Alone ==
    ~overlap => \A j \in jobs : Located(j) => /\ j.place = table
                                              /\ \A i \in jobs : Located(i) => i = j
Says(l, p) ==
    IF p = "none" THEN "assigned" \in DOMAIN l => ~l.assigned
    ELSE {"assigned", "place"} \subseteq DOMAIN l /\ l.assigned /\ l.place = p
Agreed ==
    ~overlap /\ told = "fine" /\ (\A j \in jobs : ~Located(j)) => Says(desired.location, table)

RInv == Types /\ Made /\ Checked /\ Once /\ NewImage
Wire == Grown /\ Echoed /\ Filed /\ InHand
LInv == Types /\ Wire /\ Alone /\ Agreed

-----------------------------------------------------------------------------
(* Locations.                                                              *)

LEMMA OfLocations ==
    ASSUME NEW l \in Locations
    PROVE  DOMAIN l \in SUBSET {"assigned", "place"} /\ l \in [DOMAIN l -> Values]
BY DEF Locations

LEMMA InLocations ==
    ASSUME NEW K \in SUBSET {"assigned", "place"}, NEW l \in [K -> Values]
    PROVE  l \in Locations
BY DEF Locations

LEMMA NoKeysProperties == NoKeys \in Locations /\ DOMAIN NoKeys = {}
<1>1. NoKeys \in [{} -> Values] /\ DOMAIN NoKeys = {}
  BY DEF NoKeys
<1> QED
  BY <1>1, InLocations

LEMMA MergeProperties ==
    ASSUME NEW old \in Locations, NEW new \in Locations
    PROVE  /\ Merge(old, new) \in Locations
           /\ DOMAIN Merge(old, new) = DOMAIN old \union DOMAIN new
           /\ \A k \in DOMAIN new : Merge(old, new)[k] = new[k]
           /\ \A k \in DOMAIN old \ DOMAIN new : Merge(old, new)[k] = old[k]
<1> DEFINE K == DOMAIN old \union DOMAIN new
<1>1. /\ DOMAIN old \in SUBSET {"assigned", "place"} /\ old \in [DOMAIN old -> Values]
      /\ DOMAIN new \in SUBSET {"assigned", "place"} /\ new \in [DOMAIN new -> Values]
  BY OfLocations
<1>2. Merge(old, new) = [k \in K |-> IF k \in DOMAIN new THEN new[k] ELSE old[k]]
  BY DEF Merge
<1>3. K \in SUBSET {"assigned", "place"} /\ Merge(old, new) \in [K -> Values]
  BY <1>1, <1>2
<1> QED
  BY <1>2, <1>3, InLocations

LEMMA DifferingProperties ==
    ASSUME NEW d \in Locations, NEW r \in Locations
    PROVE  /\ Differing(d, r) \in Locations /\ DOMAIN Differing(d, r) \subseteq DOMAIN d
           /\ \A k \in DOMAIN d : ~(k \in DOMAIN r /\ r[k] = d[k]) => k \in DOMAIN Differing(d, r)
<1> DEFINE K == {x \in DOMAIN d : x \in DOMAIN r => r[x] # d[x]}
<1>1. DOMAIN d \in SUBSET {"assigned", "place"} /\ d \in [DOMAIN d -> Values]
  BY OfLocations
<1>2. Differing(d, r) = [k \in K |-> d[k]]
  BY DEF Differing
<1>3. K \in SUBSET {"assigned", "place"} /\ Differing(d, r) \in [K -> Values]
  BY <1>1, <1>2
<1> QED
  BY <1>2, <1>3, InLocations

LEMMA OneKey ==
    ASSUME NEW v \in Values
    PROVE  [assigned |-> v] \in [{"assigned"} -> Values]
OBVIOUS

LEMMA TwoKeys ==
    ASSUME NEW v \in Values, NEW p \in Values
    PROVE  [assigned |-> v, place |-> p] \in [{"assigned", "place"} -> Values]
OBVIOUS

LEMMA DesiredLocation ==
    ASSUME NEW p \in Sites
    PROVE  /\ LocationShadowDesired(p) \in Locations
           /\ "assigned" \in DOMAIN LocationShadowDesired(p)
           /\ \A l \in Locations : Says(Merge(l, LocationShadowDesired(p)), p)
<1>0. TRUE \in Values /\ FALSE \in Values
  BY DEF Values
<1>1. CASE p = "none"
  <2> DEFINE l == [assigned |-> FALSE]
  <2>1. LocationShadowDesired(p) = l
    BY <1>1 DEF LocationShadowDesired
  <2>2. l \in [{"assigned"} -> Values]
    BY <1>0, OneKey
  <2>3. DOMAIN l = {"assigned"} /\ l["assigned"] = FALSE
    OBVIOUS
  <2> HIDE DEF l
  <2>4. l \in Locations
    BY <2>2, InLocations
  <2>5. ASSUME NEW old \in Locations
        PROVE  Says(Merge(old, l), p)
    <3>1. Merge(old, l)["assigned"] = l["assigned"]
      BY <2>3, <2>4, MergeProperties
    <3>2. ~Merge(old, l).assigned
      BY <2>3, <3>1
    <3> QED
      BY <1>1, <3>2 DEF Says
  <2> QED
    BY <2>1, <2>3, <2>4, <2>5
<1>2. CASE p # "none"
  <2> DEFINE l == [assigned |-> TRUE, place |-> p]
  <2>1. LocationShadowDesired(p) = l
    BY <1>2 DEF LocationShadowDesired
  <2>2. l \in [{"assigned", "place"} -> Values]
    <3>1. p \in Values
      BY <1>2 DEF Values, Sites
    <3> QED
      BY <1>0, <3>1, TwoKeys
  <2>3. l["assigned"] = TRUE
    OBVIOUS
  <2>4. "assigned" \in DOMAIN l /\ "place" \in DOMAIN l /\ l["place"] = p
    OBVIOUS
  <2> HIDE DEF l
  <2>5. l \in Locations
    BY <2>2, InLocations
  <2>6. ASSUME NEW old \in Locations
        PROVE  Says(Merge(old, l), p)
    <3>1. Merge(old, l)["assigned"] = l["assigned"]
      BY <2>4, <2>5, MergeProperties
    <3>2. Merge(old, l)["place"] = l["place"]
      BY <2>4, <2>5, MergeProperties
    <3>3. {"assigned", "place"} \subseteq DOMAIN Merge(old, l)
      <4>1. DOMAIN Merge(old, l) = DOMAIN old \union DOMAIN l
        BY <2>5, MergeProperties
      <4> QED
        BY <2>4, <4>1
    <3>4. Merge(old, l).assigned
      BY <2>3, <3>1
    <3> QED
      BY <1>2, <2>4, <3>2, <3>3, <3>4 DEF Says
  <2> QED
    BY <2>1, <2>4, <2>5, <2>6
<1> QED
  BY <1>1, <1>2

-----------------------------------------------------------------------------
(* The messages.                                                           *)

LEMMA WantsProperties ==
    ASSUME NEW d \in Wants
    PROVE  d.reboot \in Nat /\ d.target \in Nat /\ d.location \in Locations
BY DEF Wants

LEMMA SendProperties ==
    ASSUME Types, NEW m \in Wants, Send(m)
    PROVE  /\ down' \subseteq Wants /\ down \subseteq down' /\ down' \subseteq down \union {m}
           /\ connected /\ m.location # NoKeys => m \in down'
<1>1. down' = IF connected /\ m # Blank THEN down \union {m} ELSE down
  BY DEF Send
<1>2. m.location # NoKeys => m # Blank
  BY DEF Blank
<1> QED
  BY <1>1, <1>2 DEF Types

LEMMA DeltaProperties ==
    ASSUME NEW d \in Wants, NEW r \in [fw : Versions, location : Locations]
    PROVE  /\ Delta(d, r) \in Wants /\ Delta(d, r).reboot = d.reboot
           /\ Delta(d, r).location = Differing(d.location, r.location)
<1>1. Differing(d.location, r.location) \in Locations
  BY DifferingProperties DEF Wants
<1> QED
  BY <1>1 DEF Delta, Wants

LEMMA WholeProperties ==
    ASSUME NEW d \in Wants
    PROVE  Whole(d) \in Wants /\ Whole(d).reboot = d.reboot /\ Whole(d).location = d.location
BY DEF Whole, Wants

(* The shadow with a new desired state tells the unit what differs.        *)
LEMMA UpdateProperties ==
    ASSUME Types, NEW d \in Wants, Update(d)
    PROVE  /\ desired' = d /\ down' \subseteq Wants /\ down \subseteq down'
           /\ \A m \in down' \ down :
                  m.reboot = d.reboot /\ m.location = Differing(d.location, reported.location)
           /\ connected /\ Differing(d.location, reported.location) # NoKeys =>
                  \E m \in down' : m.location = Differing(d.location, reported.location)
<1> DEFINE m == Delta(d, reported)
<1>1. /\ m \in Wants /\ m.reboot = d.reboot
      /\ m.location = Differing(d.location, reported.location)
  BY DeltaProperties DEF Types
<1>2. desired' = d /\ Send(m)
  BY DEF Update
<1> HIDE DEF m
<1>3. /\ down' \subseteq Wants /\ down \subseteq down' /\ down' \subseteq down \union {m}
      /\ connected /\ m.location # NoKeys => m \in down'
  BY <1>1, <1>2, SendProperties
<1> QED
  BY <1>1, <1>2, <1>3

LEMMA UpProperties ==
    /\ [get |-> TRUE] \in Gets /\ [get |-> TRUE].get
    /\ \A m \in Gets : m.get
    /\ \A m \in Reports : ~m.get /\ m.fw \in Versions /\ m.location \in Locations
<1>1. [get |-> TRUE].get
  OBVIOUS
<1>2. [get |-> TRUE] \in Gets /\ \A m \in Gets : m = [get |-> TRUE]
  BY DEF Gets
<1>3. \A m \in Gets : m.get
  BY <1>1, <1>2
<1>4. ASSUME NEW m \in Reports
      PROVE  ~m.get /\ m.fw \in Versions /\ m.location \in Locations
  <2>1. m.get \in {FALSE} /\ m.fw \in Versions /\ m.location \in Locations
    BY DEF Reports
  <2> QED
    BY <2>1
<1> QED
  BY <1>1, <1>2, <1>3, <1>4

(* The shadow takes a message of the unit.                                 *)
LEMMA AbsorbProperties ==
    ASSUME Types, NEW m \in Gets \union Reports, Absorb(m)
    PROVE  /\ desired' \in Wants /\ reported' \in [fw : Versions, location : Locations]
           /\ desired'.location = desired.location /\ desired'.reboot \in {0, desired.reboot}
           /\ m.get => reported' = reported /\ desired' = desired
           /\ ~m.get => m.location \in Locations
                        /\ reported'.location = Merge(reported.location, m.location)
<1>1. desired \in Wants /\ reported \in [fw : Versions, location : Locations]
  BY DEF Types
<1>2. CASE m.get
  BY <1>1, <1>2 DEF Absorb
<1>3. CASE ~m.get
  <2>1. m \in Reports
    BY <1>3, UpProperties
  <2>2. m.fw \in Versions /\ m.location \in Locations
    BY <2>1, UpProperties
  <2> DEFINE l == Merge(reported.location, m.location)
             b == IF m.reboot THEN 0 ELSE desired.reboot
             t == IF m.target THEN 0 ELSE desired.target
  <2>3. reported.location \in Locations
    BY <1>1
  <2>4. l \in Locations
    BY <2>2, <2>3, MergeProperties
  <2>5. b \in Nat /\ t \in Nat /\ b \in {0, desired.reboot}
    BY <1>1, WantsProperties
  <2>6. /\ desired' = [desired EXCEPT !.reboot = b, !.target = t]
        /\ reported' = [fw |-> m.fw, location |-> l]
    BY <1>3 DEF Absorb
  <2> HIDE DEF l, b, t
  <2>7. desired' \in Wants /\ desired'.location = desired.location /\ desired'.reboot = b
    BY <1>1, <2>5, <2>6 DEF Wants
  <2>8. reported' \in [fw : Versions, location : Locations] /\ reported'.location = l
    BY <2>2, <2>4, <2>6
  <2>9. l = Merge(reported.location, m.location)
    BY DEF l
  <2> QED
    BY <1>3, <2>2, <2>5, <2>7, <2>8, <2>9
<1> QED
  BY <1>2, <1>3

-----------------------------------------------------------------------------
(* Every step keeps the types.                                             *)

LEMMA ShadowTakesProperties ==
    ASSUME Types, ShadowTakes
    PROVE  /\ connected /\ up # <<>> /\ Head(up) \in Gets \union Reports /\ Absorb(Head(up))
           /\ up' = Tail(up) /\ up' \in Seq(Gets \union Reports)
           /\ desired' \in Wants /\ reported' \in [fw : Versions, location : Locations]
           /\ down' \subseteq Wants /\ down \subseteq down'
           /\ \A m \in down' \ down : m.reboot = desired'.reboot
                                      /\ DOMAIN m.location \subseteq DOMAIN desired.location
           /\ \E l \in Locations :
                  /\ l # NoKeys => \E m \in down' : m.location = l
                  /\ l = IF Head(up).get THEN desired.location
                         ELSE Differing(desired.location, reported'.location)
<1>1. /\ connected /\ up # <<>> /\ Absorb(Head(up)) /\ up' = Tail(up)
      /\ Send(IF Head(up).get THEN Whole(desired) ELSE Delta(desired', reported'))
  BY DEF ShadowTakes
<1>2. Head(up) \in Gets \union Reports /\ up' \in Seq(Gets \union Reports)
  BY <1>1, HeadTailProperties DEF Types
<1>3. /\ desired' \in Wants /\ reported' \in [fw : Versions, location : Locations]
      /\ desired'.location = desired.location
      /\ Head(up).get => desired' = desired
  BY <1>1, <1>2, AbsorbProperties
<1> DEFINE m == IF Head(up).get THEN Whole(desired) ELSE Delta(desired', reported')
           l == IF Head(up).get THEN desired.location
                ELSE Differing(desired.location, reported'.location)
<1>4. desired \in Wants /\ desired.location \in Locations /\ reported'.location \in Locations
  BY <1>3, WantsProperties DEF Types
<1>5. l \in Locations /\ DOMAIN l \subseteq DOMAIN desired.location
  BY <1>4, DifferingProperties
<1>6. m \in Wants /\ m.reboot = desired'.reboot /\ m.location = l
  <2>1. CASE Head(up).get
    BY <1>3, <1>4, <2>1, WholeProperties
  <2>2. CASE ~Head(up).get
    <3>1. /\ Delta(desired', reported') \in Wants
          /\ Delta(desired', reported').reboot = desired'.reboot
          /\ Delta(desired', reported').location = Differing(desired'.location, reported'.location)
      BY <1>3, DeltaProperties
    <3> QED
      BY <1>3, <2>2, <3>1
  <2> QED
    BY <2>1, <2>2
<1>7. Send(m)
  BY <1>1
<1>8. l = IF Head(up).get THEN desired.location
          ELSE Differing(desired.location, reported'.location)
  OBVIOUS
<1> HIDE DEF m, l
<1>9. /\ down' \subseteq Wants /\ down \subseteq down' /\ down' \subseteq down \union {m}
      /\ l # NoKeys => m \in down'
  BY <1>1, <1>6, <1>7, SendProperties
<1> QED
  BY <1>1, <1>2, <1>3, <1>5, <1>6, <1>8, <1>9

LEMMA CloudTypes ==
    ASSUME Types,
           \/ ShadowTakes
           \/ \E r \in Roles : CheckReboot(r) \/ ClearLocation(r)
           \/ \E r \in Roles, v \in Versions : Push(r, v)
           \/ \E r \in Roles, p \in Places : SetLocation(r, p)
           \/ \E j \in jobs : RequestReboot(j) \/ CheckLocation(j) \/ SyncLocation(j) \/ FailJob(j)
           \/ PollShadow
    PROVE  Types'
<1>1. CASE ShadowTakes
  <2>1. /\ up' \in Seq(Gets \union Reports)
        /\ desired' \in Wants /\ reported' \in [fw : Versions, location : Locations]
        /\ down' \subseteq Wants
    BY <1>1, ShadowTakesProperties
  <2> QED
    BY <1>1, <2>1 DEF ShadowTakes, Types, agent, disk, dashboard, observed
<1>2. ASSUME NEW r \in Roles, CheckReboot(r)
      PROVE  Types'
  <2>1. PICK b \in BOOLEAN : jobs' = jobs \union {[do |-> "reboot", place |-> "none", stale |-> b]}
    BY <1>2 DEF CheckReboot
  <2>2. jobs' \subseteq Jobs
    BY <2>1 DEF Jobs, Sites, Types
  <2> QED
    BY <1>2, <2>2 DEF CheckReboot, Types, network, agent, disk, dashboard, observed
<1>3. ASSUME NEW p \in Sites, TableWritten(p)
      PROVE  Types'
  <2>1. PICK b \in BOOLEAN : jobs' = jobs \union {[do |-> "check", place |-> p, stale |-> b]}
    BY <1>3 DEF TableWritten
  <2>2. jobs' \subseteq Jobs
    BY <2>1 DEF Jobs, Types
  <2>3. table' \in Sites /\ overlap' \in BOOLEAN
    BY <1>3 DEF TableWritten
  <2> QED
    BY <1>3, <2>2, <2>3 DEF TableWritten, Types, network, agent, disk, dashboard
<1>4. ASSUME NEW r \in Roles, NEW v \in Versions, Push(r, v)
      PROVE  Types'
  <2> DEFINE d == [desired EXCEPT !.target = v]
  <2>1. d \in Wants
    BY VersionsAssumption DEF Types, Wants
  <2>2. Update(d)
    BY <1>4 DEF Push
  <2> HIDE DEF d
  <2>3. desired' \in Wants /\ down' \subseteq Wants
    BY <2>1, <2>2, UpdateProperties
  <2> QED
    BY <1>4, <2>3 DEF Push, Types, agent, disk, dashboard, observed
<1>5. ASSUME NEW j \in jobs, RequestReboot(j)
      PROVE  Types'
  <2> DEFINE n == issued + 1
             d == [desired EXCEPT !.reboot = n]
  <2>0. n \in Nat /\ desired \in Wants
    BY DEF Types
  <2> HIDE DEF n
  <2>1. d \in Wants
    BY <2>0 DEF Wants
  <2>2. Update(d) /\ issued' = n /\ jobs' = jobs \ {j}
    BY <1>5 DEF RequestReboot, n
  <2> HIDE DEF d
  <2>3. desired' \in Wants /\ down' \subseteq Wants
    BY <2>1, <2>2, UpdateProperties
  <2> QED
    BY <1>5, <2>0, <2>2, <2>3 DEF RequestReboot, Types, agent, disk, dashboard
<1>6. ASSUME NEW j \in jobs, CheckLocation(j)
      PROVE  Types'
  <2>1. j \in Jobs
    BY DEF Types
  <2>2. [j EXCEPT !.do = "sync"] \in Jobs
    BY <2>1 DEF Jobs
  <2>3. jobs' \subseteq Jobs /\ told' \in {"fine", "warned", "silent"}
    BY <1>6, <2>2 DEF CheckLocation, Reply, Types
  <2> QED
    BY <1>6, <2>3 DEF CheckLocation, Types, network, agent, disk, observed
<1>7. ASSUME NEW j \in jobs, SyncLocation(j)
      PROVE  Types'
  <2> DEFINE l == Merge(desired.location, LocationShadowDesired(j.place))
             d == [desired EXCEPT !.location = l]
  <2>1. j.place \in Sites /\ desired.location \in Locations
    BY WantsProperties DEF Types, Jobs
  <2>2. l \in Locations
    BY <2>1, DesiredLocation, MergeProperties
  <2>3. Update(d) /\ told' = "fine" /\ jobs' = jobs \ {j}
    BY <1>7 DEF SyncLocation, Reply
  <2> HIDE DEF l
  <2>4. d \in Wants
    BY <2>2 DEF Types, Wants
  <2> HIDE DEF d
  <2>5. desired' \in Wants /\ down' \subseteq Wants
    BY <2>3, <2>4, UpdateProperties
  <2> QED
    BY <1>7, <2>3, <2>5 DEF SyncLocation, Types, agent, disk, observed
<1>8. ASSUME NEW j \in jobs, FailJob(j)
      PROVE  Types'
  <2>1. jobs' \subseteq Jobs /\ told' \in {"fine", "warned", "silent"}
    BY <1>8 DEF FailJob, Reply, Types
  <2> QED
    BY <1>8, <2>1 DEF FailJob, Types, network, agent, disk, observed
<1>9. CASE PollShadow
  BY <1>9 DEF PollShadow, Types, cloud, network, agent, disk, observed
<1>10. ASSUME NEW r \in Roles, NEW p \in Places, SetLocation(r, p) \/ ClearLocation(r)
       PROVE  Types'
  BY <1>3, <1>10 DEF SetLocation, ClearLocation, Sites
<1> QED
  BY <1>1, <1>2, <1>4, <1>5, <1>6, <1>7, <1>8, <1>9, <1>10, VersionsAssumption

LEMMA LinkTypes ==
    ASSUME Types, Connect \/ Disconnect
    PROVE  Types'
<1>1. CASE Connect
  <2>1. up' \in Seq(Gets \union Reports) /\ connected' = TRUE
    BY <1>1, UpProperties, AppendProperties DEF Connect, Types
  <2> QED
    BY <1>1, <2>1 DEF Connect, Types, cloud, dashboard, agent, disk, observed
<1>2. CASE Disconnect
  <2>1. /\ desired' \in Wants /\ reported' \in [fw : Versions, location : Locations]
        /\ down' = {} /\ connected' = FALSE
    <3>1. CASE UNCHANGED <<desired, reported>>
      BY <1>2, <3>1 DEF Disconnect, Types
    <3>2. CASE up # <<>> /\ Absorb(Head(up))
      <4>1. Head(up) \in Gets \union Reports
        BY <3>2, HeadTailProperties DEF Types
      <4> QED
        BY <1>2, <3>2, <4>1, AbsorbProperties DEF Disconnect
    <3> QED
      BY <1>2, <3>1, <3>2 DEF Disconnect
  <2> QED
    BY <1>2, <2>1 DEF Disconnect, Types, dashboard, agent, disk, observed
<1> QED
  BY <1>1, <1>2

(* The file is written as it should be, or kept and known to be wrong.     *)
StoredOrNot ==
    \/ stored' = StoredAfter(known') /\ (~misfiled' => ~misfiled \/ Parsed(known'))
    \/ stored' = stored /\ misfiled' = TRUE

(* A message applied: what the agent then knows, and the file on disk.     *)
LEMMA DeliverProperties ==
    ASSUME Types, NEW m \in down, Deliver(m)
    PROVE  /\ m.reboot \in Nat /\ m.target \in Nat /\ m.location \in Locations
           /\ known' \in Locations
           /\ \/ known' = known /\ stored' = stored /\ misfiled' = misfiled
              \/ /\ known' = Merge(known, m.location) /\ StoredOrNot
                 /\ UnitSupportsLocation(Running)
           /\ UnitSupportsLocation(Running) => DOMAIN m.location \subseteq DOMAIN known'
           /\ \A k \in DOMAIN known \ DOMAIN m.location : known'[k] = known[k]
           /\ config' \in [reboot : Nat, target : Nat] /\ config'.reboot \in {m.reboot, config.reboot}
           /\ call' \in [at : {"idle", "guard", "hand", "target"}, reboot : Nat, target : Nat]
           /\ call'.at \in {"idle", "guard"} /\ call'.reboot \in {0, config'.reboot}
           /\ call = Idle
<1>1. /\ m.reboot \in Nat /\ m.target \in Nat /\ m.location \in Locations
      /\ known \in Locations
      /\ config.reboot \in Nat /\ config.target \in Nat
  BY WantsProperties DEF Types
<1>2. /\ call = Idle /\ ApplyLocation(m.location)
      /\ config' = [reboot |-> IF m.reboot # 0 THEN m.reboot ELSE config.reboot,
                    target |-> IF m.target # 0 THEN m.target ELSE config.target]
      /\ call' = IF config' = config THEN Idle
                 ELSE [at |-> "guard", reboot |-> config'.reboot, target |-> config'.target]
  BY DEF Deliver
<1>3. config' \in [reboot : Nat, target : Nat] /\ config'.reboot \in {m.reboot, config.reboot}
  BY <1>1, <1>2
<1>4. /\ call' \in [at : {"idle", "guard", "hand", "target"}, reboot : Nat, target : Nat]
      /\ call'.at \in {"idle", "guard"} /\ call'.reboot \in {0, config'.reboot}
  BY <1>2, <1>3 DEF Idle
<1>5. CASE m.location # NoKeys /\ UnitSupportsLocation(Running)
  <2>1. known' = Merge(known, m.location) /\ StoredOrNot
    BY <1>2, <1>5, Zenon DEF ApplyLocation, CannotStore, StoredOrNot
  <2>2. /\ known' \in Locations /\ DOMAIN known' = DOMAIN known \union DOMAIN m.location
        /\ \A k \in DOMAIN known \ DOMAIN m.location : known'[k] = known[k]
    BY <1>1, <2>1, MergeProperties
  <2> QED
    BY <1>1, <1>2, <1>3, <1>4, <1>5, <2>1, <2>2
<1>6. CASE ~(m.location # NoKeys /\ UnitSupportsLocation(Running))
  <2>1. known' = known /\ stored' = stored /\ misfiled' = misfiled
    BY <1>2, <1>6 DEF ApplyLocation
  <2>2. UnitSupportsLocation(Running) => DOMAIN m.location = {}
    BY <1>6, NoKeysProperties
  <2> QED
    BY <1>1, <1>2, <1>3, <1>4, <2>1, <2>2
<1> QED
  BY <1>5, <1>6

LEMMA NoneProperties ==
    /\ None \in Asks /\ None.do = "none"
    /\ Idle \in [at : {"idle", "guard", "hand", "target"}, reboot : Nat, target : Nat]
    /\ Idle.at = "idle" /\ Idle.reboot = 0
    /\ NoConfig \in [reboot : Nat, target : Nat] /\ NoConfig.reboot = 0
<1>1. None \in Asks /\ None.do = "none"
  BY DEF None, Asks
<1>2. /\ Idle \in [at : {"idle", "guard", "hand", "target"}, reboot : Nat, target : Nat]
      /\ Idle.at = "idle" /\ Idle.reboot = 0
  BY DEF Idle
<1>3. NoConfig \in [reboot : Nat, target : Nat] /\ NoConfig.reboot = 0
  BY DEF NoConfig
<1> QED
  BY <1>1, <1>2, <1>3

LEMMA SlotProperties ==
    ASSUME NEW s \in Slots
    PROVE  Other(s) \in Slots /\ Other(s) # s /\ \A r \in Slots : r = s \/ r = Other(s)
BY DEF Slots, Other

LEMMA BootProperties ==
    ASSUME NEW s \in Slots, Boot(s)
    PROVE  /\ connected' = FALSE /\ down' = {} /\ up' = <<>> /\ clearTarget' = FALSE
           /\ config' = NoConfig /\ known' = NoKeys /\ call' = Idle /\ worker' = None /\ slot' = s
           /\ down' \subseteq Wants /\ up' \in Seq(Gets \union Reports)
           /\ config' \in [reboot : Nat, target : Nat] /\ known' \in Locations
           /\ call' \in [at : {"idle", "guard", "hand", "target"}, reboot : Nat, target : Nat]
           /\ worker' \in Asks
BY NoneProperties, NoKeysProperties, EmptySeq DEF Boot

LEMMA AgentTypes ==
    ASSUME Types,
           (\E m \in down : Deliver(m)) \/ Guard \/ HandOver \/ OtaTrigger \/ Report
    PROVE  Types'
<1>1. ASSUME NEW m \in down, Deliver(m)
      PROVE  Types'
  <2>1. /\ known' \in Locations /\ config' \in [reboot : Nat, target : Nat]
        /\ call' \in [at : {"idle", "guard", "hand", "target"}, reboot : Nat, target : Nat]
    BY <1>1, DeliverProperties
  <2>2. down' = down \ {m} /\ echoed' = FALSE
    BY <1>1 DEF Deliver
  <2> QED
    BY <1>1, <2>1, <2>2 DEF Deliver, Types, cloud, dashboard
<1>2. CASE Guard
  <2>1. /\ call' \in [at : {"idle", "guard", "hand", "target"}, reboot : Nat, target : Nat]
        /\ honored' \in [Slots -> Nat]
    BY <1>2 DEF Guard, Save, CannotSave, Types
  <2> QED
    BY <1>2, <2>1 DEF Guard, Types, cloud, network, dashboard
<1>3. CASE HandOver
  <2>1. call.reboot \in Nat
    BY DEF Types
  <2>2. [do |-> "reboot", arg |-> call.reboot] \in Asks
    BY <2>1 DEF Asks
  <2>3. request' \in [Slots -> Asks]
    BY <1>3, <2>2 DEF HandOver, WriteRequest, Types
  <2>4. call' \in [at : {"idle", "guard", "hand", "target"}, reboot : Nat, target : Nat]
    BY <1>3 DEF HandOver, Types
  <2> QED
    BY <1>3, <2>3, <2>4 DEF HandOver, Types, cloud, network, dashboard, observed
<1>4. CASE OtaTrigger
  <2>1. [do |-> "install", arg |-> call.target] \in Asks
    BY DEF Asks, Types
  <2>2. request' \in [Slots -> Asks]
    BY <1>4, <2>1 DEF OtaTrigger, WriteRequest, Types
  <2>3. config' \in [reboot : Nat, target : Nat]
    BY <1>4 DEF OtaTrigger, Types
  <2>4. clearTarget' \in BOOLEAN
    BY <1>4 DEF OtaTrigger, Types
  <2>5. call' \in [at : {"idle", "guard", "hand", "target"}, reboot : Nat, target : Nat]
    BY <1>4, NoneProperties DEF OtaTrigger
  <2> QED
    BY <1>4, <2>2, <2>3, <2>4, <2>5 DEF OtaTrigger, Types, cloud, network, dashboard, observed
<1>5. CASE Report
  <2>1. PICK b \in BOOLEAN :
           up' = Append(up, [get |-> FALSE, fw |-> Running, location |-> known, reboot |-> b,
                             target |-> clearTarget])
    BY <1>5 DEF Report
  <2>2. PICK c \in BOOLEAN : c = clearTarget
    BY DEF Types
  <2>3. PICK g \in {FALSE} : g = FALSE
    OBVIOUS
  <2>4. Running \in Versions /\ known \in Locations
    BY DEF Types, Running
  <2>5. [get |-> g, fw |-> Running, location |-> known, reboot |-> b, target |-> c] \in Reports
    BY <2>4 DEF Reports
  <2>6. up' = Append(up, [get |-> g, fw |-> Running, location |-> known, reboot |-> b, target |-> c])
    BY <2>1, <2>2, <2>3, Zenon
  <2>7. up' \in Seq(Gets \union Reports)
    BY <2>5, <2>6, AppendProperties DEF Types
  <2>8. config' \in [reboot : Nat, target : Nat]
    BY <1>5 DEF Report, Types
  <2>9. clearTarget' \in BOOLEAN /\ echoed' \in BOOLEAN
    BY <1>5 DEF Report
  <2> QED
    BY <1>5, <2>7, <2>8, <2>9 DEF Report, Types, cloud, dashboard, disk
<1> QED
  BY <1>1, <1>2, <1>3, <1>4, <1>5

LEMMA ColdResetProperties ==
    ASSUME Types, ColdReset
    PROVE  /\ reboots' \in [Requests -> Nat]
           /\ \A r \in Requests : r # worker.arg => reboots'[r] = reboots[r]
           /\ \A r \in Requests : reboots'[r] <= reboots[r] + 1
<1> DEFINE old == reboots[worker.arg]
           new == IF old < 2 THEN old + 1 ELSE old
<1>1. reboots' = [reboots EXCEPT ![worker.arg] = new]
  BY DEF ColdReset
<1>2. reboots \in [Requests -> Nat]
  BY DEF Types
<1>3. worker.arg \in Requests => old \in Nat /\ new \in Nat /\ new <= old + 1
  BY <1>2
<1>4. \A r \in Requests : reboots'[r] = IF r = worker.arg THEN new ELSE reboots[r]
  BY <1>1, <1>2
<1>5. DOMAIN reboots' = Requests /\ reboots' = [r \in Requests |-> reboots'[r]]
  BY <1>1, <1>2
<1> HIDE DEF new
<1>6. \A r \in Requests : reboots'[r] \in Nat
  BY <1>2, <1>3, <1>4
<1>7. \A r \in Requests : reboots'[r] <= reboots[r] + 1
  BY <1>2, <1>3, <1>4
<1> QED
  BY <1>4, <1>5, <1>6, <1>7

LEMMA UnitTypes ==
    ASSUME Types,
           \/ TakeRequest \/ ColdReset \/ Install \/ InstallFails \/ Confirm \/ RollBack \/ PowerCut
    PROVE  Types'
<1>0. slot \in Slots /\ Other(slot) \in Slots
  BY SlotProperties DEF Types
<1>1. CASE TakeRequest
  <2>1. request' \in [Slots -> Asks] /\ worker' \in Asks
    BY <1>1, NoneProperties DEF TakeRequest, WriteRequest, Types
  <2> QED
    BY <1>1, <2>1 DEF TakeRequest, Types, cloud, network, dashboard, agent, observed
<1>2. CASE ColdReset
  <2>1. Boot(slot)
    BY <1>2 DEF ColdReset
  <2>2. reboots' \in [Requests -> Nat]
    BY <1>2, ColdResetProperties
  <2> QED
    BY <1>0, <1>2, <2>1, <2>2, BootProperties DEF ColdReset, Types, cloud, dashboard
<1>3. ASSUME ChangeSlot
      PROVE  jobs' \subseteq Jobs
  <2>1. ASSUME NEW j \in jobs
        PROVE  [j EXCEPT !.stale = j.do = "reboot"] \in Jobs
    <3>1. PICK b \in BOOLEAN : b = (j.do = "reboot")
      OBVIOUS
    <3>2. [j EXCEPT !.stale = b] \in Jobs
      BY DEF Types, Jobs
    <3> QED
      BY <3>1, <3>2, Zenon
  <2> QED
    BY <1>3, <2>1 DEF ChangeSlot
<1>4. CASE Install
  <2>1. Boot(Other(slot)) /\ jobs' \subseteq Jobs
    BY <1>3, <1>4 DEF Install
  <2>2. image' \in [Slots -> Versions] /\ honored' \in [Slots -> Nat] /\ request' \in [Slots -> Asks]
    BY <1>4, NoneProperties DEF Install, Types
  <2> QED
    BY <1>0, <1>4, <2>1, <2>2, BootProperties DEF Install, Types, dashboard
<1>5. CASE InstallFails
  BY <1>5, NoneProperties DEF InstallFails, Types, cloud, network, dashboard, agent, observed
<1>6. CASE Confirm
  BY <1>6 DEF Confirm, Types, cloud, network, dashboard, agent, observed
<1>7. CASE RollBack
  <2>1. Boot(Other(slot)) /\ jobs' \subseteq Jobs
    BY <1>3, <1>7 DEF RollBack
  <2> QED
    BY <1>0, <1>7, <2>1, BootProperties DEF RollBack, Types, dashboard
<1>8. CASE PowerCut
  <2>1. Boot(slot)
    BY <1>8 DEF PowerCut
  <2> QED
    BY <1>0, <1>8, <2>1, BootProperties DEF PowerCut, Types, cloud, dashboard, observed
<1> QED
  BY <1>1, <1>2, <1>4, <1>5, <1>6, <1>7, <1>8

LEMMA TypesKept ==
    ASSUME Types, [Next]_vars
    PROVE  Types'
<1>1. CASE UNCHANGED vars
  BY <1>1 DEF Types, vars, cloud, network, dashboard, agent, disk, observed
<1> QED
  BY <1>1, CloudTypes, LinkTypes, AgentTypes, UnitTypes DEF Next

-----------------------------------------------------------------------------
(* Reboots and installs: one lemma per action that touches them.           *)

LEMMA CarriedNat ==
    /\ Types => \A r \in Requests : Carried(r) \in Nat
    /\ Types' => \A r \in Requests : Carried(r)' \in Nat
<1>1. Types => \A r \in Requests : Carried(r) \in Nat
  BY DEF Carried, Count, Types
<1>2. Types' => \A r \in Requests : Carried(r)' \in Nat
  BY DEF Carried, Count, Types
<1> QED
  BY <1>1, <1>2

(* When nothing is carried out more than before, the guard still tells.    *)
LEMMA OnceKept ==
    ASSUME Types, Types', Once, honored' = honored, slot' = slot,
           \A r \in Requests : r \notin excused' => r \notin excused /\ Carried(r)' <= Carried(r)
    PROVE  Once'
<1> SUFFICES ASSUME NEW r \in Requests, r \notin excused'
             PROVE  Carried(r)' <= 1 /\ (Carried(r)' = 1 => r <= honored'[slot'])
  BY DEF Once
<1>1. Carried(r) \in Nat /\ Carried(r)' \in Nat
  BY CarriedNat
<1>2. r \notin excused /\ Carried(r)' <= Carried(r) /\ Carried(r) <= 1
      /\ (Carried(r) = 1 => r <= honored[slot])
  BY DEF Once
<1> QED
  BY <1>1, <1>2

LEMMA OthersKeep ==
    ASSUME RInv, Types',
           UNCHANGED <<call, slot, image, honored, request, worker, issued, reboots, excused>>,
           desired'.reboot \in {0, desired.reboot}, config'.reboot \in {0, config.reboot},
           \A m \in down' \ down : m.reboot \in {0, desired.reboot},
           \A j \in jobs' \ jobs : j.do = "reboot" /\ ~j.stale => Guarded
    PROVE  RInv'
<1>1. 0 <= issued
  BY DEF RInv, Types
<1>2. Made'
  BY <1>1 DEF RInv, Made
<1>3. Checked'
  BY DEF RInv, Checked, Guarded, Running
<1>4. Once'
  <2>1. \A r \in Requests : Carried(r)' = Carried(r)
    BY DEF Carried
  <2> QED
    BY <2>1 DEF RInv, Once
<1>5. NewImage'
  BY DEF RInv, NewImage
<1> QED
  BY <1>2, <1>3, <1>4, <1>5 DEF RInv

LEMMA RequestRebootKeeps ==
    ASSUME RInv, Types', NEW j \in jobs, RequestReboot(j)
    PROVE  RInv'
<1> DEFINE n == issued + 1
           d == [desired EXCEPT !.reboot = n]
<1>1. /\ j.do = "reboot" /\ jobs' = jobs \ {j} /\ issued' = n /\ Update(d)
      /\ excused' = IF j.stale THEN excused \union {n} ELSE excused
      /\ UNCHANGED <<config, call, slot, image, honored, request, worker, reboots>>
  BY DEF RequestReboot, agent, disk
<1>2. issued \in Nat /\ n \in Nat /\ issued <= n /\ (1 .. n) = (1 .. issued) \union {n}
  <2>1. issued \in Nat
    BY DEF RInv, Types
  <2> QED
    BY <2>1
<1>a. \A k \in Nat : k <= issued => k <= n
  BY <1>2
<1> HIDE DEF n
<1>3. d \in Wants /\ d.reboot = n
  BY <1>2 DEF RInv, Types, Wants
<1> HIDE DEF d
<1>4. desired' = d /\ \A m \in down' \ down : m.reboot = n
  BY <1>1, <1>3, UpdateProperties DEF RInv
<1>5. Made'
  <2>1. /\ desired'.reboot <= n /\ \A m \in down' : m.reboot <= n
    <3>1. \A m \in down : m.reboot <= n
      BY <1>a, WantsProperties DEF RInv, Made, Types
    <3> QED
      BY <1>2, <1>3, <1>4, <3>1
  <2>2. config.reboot <= n /\ call.reboot <= n
    BY <1>a DEF RInv, Made, Types
  <2>3. \A s \in Slots : honored[s] <= n /\ (request[s].do = "reboot" => request[s].arg <= n)
    BY <1>a DEF RInv, Made, Types, Asks
  <2>4. worker.do = "reboot" => worker.arg <= n
    BY <1>a DEF RInv, Made, Types, Asks
  <2>5. \A r \in Requests : r > n => reboots[r] = 0
    BY <1>2, VersionsAssumption DEF RInv, Made, Requests
  <2> QED
    BY <1>1, <2>1, <2>2, <2>3, <2>4, <2>5 DEF Made
<1>6. Checked'
  <2>1. Guarded' <=> Guarded
    BY <1>1 DEF Guarded, Running
  <2>2. ASSUME NEW r \in 1 .. n, r \notin excused'
        PROVE  Guarded
    <3>1. CASE r \in 1 .. issued
      BY <1>1, <2>2, <3>1 DEF RInv, Checked
    <3>2. CASE r = n
      BY <1>1, <2>2, <3>2 DEF RInv, Checked
    <3> QED
      BY <1>2, <3>1, <3>2
  <2> QED
    BY <1>1, <2>1, <2>2 DEF RInv, Checked
<1>7. Once'
  <2>1. \A r \in Requests : r \notin excused' => r \notin excused
    BY <1>1
  <2>2. \A r \in Requests : Carried(r)' = Carried(r)
    BY <1>1 DEF Carried
  <2> QED
    BY <1>1, <2>1, <2>2 DEF RInv, Once
<1>8. NewImage'
  BY <1>1 DEF RInv, NewImage
<1> QED
  BY <1>5, <1>6, <1>7, <1>8 DEF RInv

LEMMA DeliverKeeps ==
    ASSUME RInv, Types', NEW m \in down, Deliver(m)
    PROVE  RInv'
<1>1. /\ UNCHANGED <<desired, jobs, slot, image, honored, request, worker, issued, reboots, excused>>
      /\ down' = down \ {m}
  BY DEF Deliver, cloud
<1>2. /\ config'.reboot \in {m.reboot, config.reboot} /\ call'.at \in {"idle", "guard"}
      /\ call'.reboot \in {0, config'.reboot} /\ call.at = "idle"
  BY DeliverProperties, NoneProperties DEF RInv
<1>3. Made'
  <2>1. 0 <= issued
    BY DEF RInv, Types
  <2>2. config'.reboot <= issued /\ call'.reboot <= issued
    BY <1>2, <2>1 DEF RInv, Made
  <2> QED
    BY <1>1, <2>2 DEF RInv, Made
<1>4. Checked'
  BY <1>1 DEF RInv, Checked, Guarded, Running
<1>5. Once'
  <2>1. \A r \in Requests : Carried(r)' = Carried(r)
    BY <1>1, <1>2 DEF Carried
  <2> QED
    BY <1>1, <2>1 DEF RInv, Once
<1>6. NewImage'
  BY <1>1 DEF RInv, NewImage
<1> QED
  BY <1>3, <1>4, <1>5, <1>6 DEF RInv

LEMMA GuardKeeps ==
    ASSUME RInv, Types', Guard
    PROVE  RInv'
<1>1. /\ call.at = "guard"
      /\ UNCHANGED <<desired, jobs, down, config, slot, image, request, worker, issued, reboots>>
  BY DEF Guard, cloud, network
<1> DEFINE q == call.reboot
           h == honored[slot]
<1>2. /\ slot \in Slots /\ q \in Nat /\ h \in Nat /\ q <= issued /\ issued \in Nat
      /\ honored \in [Slots -> Nat]
  BY DEF RInv, Types, Made
<1>3. call'.reboot = q /\ call'.at \in {"hand", "target"}
  BY DEF Guard, Types, RInv
<1>4. \/ honored' = honored /\ excused' = excused /\ call'.at = "target"
      \/ /\ q # 0 /\ (Guarded => q # h) /\ call'.at = "hand"
         /\ honored' = IF Guarded THEN [honored EXCEPT ![slot] = q] ELSE honored
         /\ excused' = IF q < h THEN excused \union q .. h ELSE excused
  BY DEF Guard, Save, CannotSave, ShouldHonor, Types, RInv
<1>5. honored'[slot] \in {q, h} /\ \A s \in Slots : honored'[s] \in {q, honored[s]}
  BY <1>2, <1>4
<1>6. \A r \in Requests : r \notin excused' => r \notin excused
  BY <1>4
<1> HIDE DEF q, h
<1>7. Made'
  <2>1. \A s \in Slots : honored'[s] <= issued
    BY <1>2, <1>5 DEF RInv, Made
  <2>2. call'.reboot <= issued
    BY <1>2, <1>3
  <2> QED
    BY <1>1, <2>1, <2>2 DEF RInv, Made
<1>8. Checked'
  <2>1. \A r \in 1 .. issued : r \notin excused' => r \notin excused
    BY <1>4
  <2> QED
    BY <1>1, <2>1 DEF RInv, Checked, Guarded, Running
<1>9. Once'
  <2> SUFFICES ASSUME NEW r \in Requests, r \notin excused'
               PROVE  Carried(r)' <= 1 /\ (Carried(r)' = 1 => r <= honored'[slot])
    BY <1>1 DEF Once
  <2>1. /\ r \in Nat /\ r >= 1 /\ Carried(r) \in Nat /\ Carried(r) <= 1
        /\ Carried(r) = 1 => r <= h
    BY <1>6, CarriedNat, VersionsAssumption DEF RInv, Once, Requests, h
  <2>2. CASE call'.at = "target" \/ r # q
    <3>1. Carried(r)' = Carried(r)
      BY <1>1, <1>3, <2>2 DEF Carried
    <3>2. CASE honored' = honored
      BY <2>1, <3>1, <3>2 DEF h
    <3>3. CASE honored' # honored
      <4>1. honored'[slot] = q /\ (q < h => r \notin q .. h)
        BY <1>2, <1>4, <3>3
      <4> QED
        BY <1>2, <2>1, <3>1, <4>1
    <3> QED
      BY <3>2, <3>3
  <2>3. CASE call'.at = "hand" /\ r = q
    <3>1. r \in 1 .. issued /\ Guarded
      BY <1>2, <1>6, <2>1, <2>3 DEF RInv, Checked
    <3>2. honored'[slot] = q /\ q # h /\ ~(q < h)
      <4>1. q # h /\ honored'[slot] = q
        BY <1>2, <1>4, <2>3, <3>1
      <4>2. ~(q < h)
        BY <1>2, <1>4, <2>3
      <4> QED
        BY <4>1, <4>2
    <3>3. Carried(r) = 0
      BY <1>2, <2>1, <2>3, <3>2
    <3>4. reboots[r] \in Nat
      BY DEF RInv, Types
    <3>5. Carried(r)' = 1
      BY <1>1, <1>3, <2>3, <3>3, <3>4 DEF Carried, Count, q
    <3> QED
      BY <1>2, <2>3, <3>2, <3>5
  <2> QED
    BY <1>3, <2>2, <2>3
<1>10. NewImage'
  BY <1>1 DEF RInv, NewImage
<1> QED
  BY <1>7, <1>8, <1>9, <1>10 DEF RInv

LEMMA HandOverKeeps ==
    ASSUME RInv, Types', HandOver
    PROVE  RInv'
<1> DEFINE q == [do |-> "reboot", arg |-> call.reboot]
<1>1. /\ call.at = "hand" /\ request' = [request EXCEPT ![slot] = q]
      /\ call' = [call EXCEPT !.at = "target"]
      /\ UNCHANGED <<desired, jobs, down, config, slot, image, honored, worker, issued, reboots,
                     excused>>
  BY DEF HandOver, WriteRequest, cloud, network, observed
<1>2. q.do = "reboot" /\ q.arg = call.reboot
  OBVIOUS
<1> HIDE DEF q
<1>3. call'.at = "target" /\ call'.reboot = call.reboot
  BY <1>1 DEF RInv, Types
<1>4. slot \in Slots /\ request'[slot] = q /\ \A s \in Slots \ {slot} : request'[s] = request[s]
  BY <1>1 DEF RInv, Types
<1>5. Made'
  BY <1>1, <1>2, <1>3, <1>4 DEF RInv, Made
<1>6. Checked'
  BY <1>1 DEF RInv, Checked, Guarded, Running
<1>7. Once'
  <2>1. ASSUME NEW r \in Requests
        PROVE  Carried(r)' <= Carried(r)
    <3>1. reboots[r] \in Nat
      BY DEF RInv, Types
    <3> QED
      BY <1>1, <1>2, <1>3, <1>4, <3>1 DEF Carried, Count
  <2> QED
    BY <1>1, <2>1, OnceKept DEF RInv
<1>8. NewImage'
  BY <1>1, <1>2, <1>4 DEF RInv, NewImage
<1> QED
  BY <1>5, <1>6, <1>7, <1>8 DEF RInv

LEMMA OtaTriggerKeeps ==
    ASSUME RInv, Types', OtaTrigger
    PROVE  RInv'
<1> DEFINE q == [do |-> "install", arg |-> call.target]
<1>1. /\ call.at = "target" /\ call' = Idle
      /\ UNCHANGED <<desired, jobs, down, slot, image, honored, worker, issued, reboots, excused>>
  BY DEF OtaTrigger, cloud, network, observed
<1>2. \/ request' = request
      \/ request' = [request EXCEPT ![slot] = q] /\ call.target # Running
  BY DEF OtaTrigger, WriteRequest
<1>3. config'.reboot = config.reboot
  BY DEF OtaTrigger, RInv, Types
<1>4. q.do = "install" /\ q.arg = call.target
  OBVIOUS
<1> HIDE DEF q
<1>5. /\ slot \in Slots /\ \A s \in Slots \ {slot} : request'[s] = request[s]
      /\ request'[slot] = request[slot] \/ (request'[slot] = q /\ call.target # image[slot])
  BY <1>2 DEF RInv, Types, Running
<1>6. call'.at = "idle" /\ call'.reboot = 0
  BY <1>1, NoneProperties
<1>7. Made'
  <2>1. 0 <= issued
    BY DEF RInv, Types
  <2> QED
    BY <1>1, <1>3, <1>4, <1>5, <1>6, <2>1 DEF RInv, Made
<1>8. Checked'
  BY <1>1 DEF RInv, Checked, Guarded, Running
<1>9. Once'
  <2>1. ASSUME NEW r \in Requests
        PROVE  Carried(r)' <= Carried(r)
    <3>1. reboots[r] \in Nat
      BY DEF RInv, Types
    <3> QED
      BY <1>1, <1>4, <1>5, <1>6, <3>1 DEF Carried, Count
  <2> QED
    BY <1>1, <2>1, OnceKept DEF RInv
<1>10. NewImage'
  BY <1>1, <1>4, <1>5 DEF RInv, NewImage
<1> QED
  BY <1>7, <1>8, <1>9, <1>10 DEF RInv

LEMMA TakeRequestKeeps ==
    ASSUME RInv, Types', TakeRequest
    PROVE  RInv'
<1>1. /\ worker = None /\ worker' = request[slot] /\ request' = [request EXCEPT ![slot] = None]
      /\ UNCHANGED <<desired, jobs, down, config, call, slot, image, honored, issued, reboots,
                     excused>>
  BY DEF TakeRequest, WriteRequest, cloud, network, agent, observed
<1>2. slot \in Slots /\ request'[slot] = None /\ \A s \in Slots \ {slot} : request'[s] = request[s]
  BY <1>1 DEF RInv, Types
<1>3. None.do = "none"
  BY NoneProperties
<1>4. Made'
  BY <1>1, <1>2, <1>3 DEF RInv, Made
<1>5. Checked'
  BY <1>1 DEF RInv, Checked, Guarded, Running
<1>6. Once'
  <2>1. ASSUME NEW r \in Requests
        PROVE  Carried(r)' <= Carried(r)
    <3>1. reboots[r] \in Nat
      BY DEF RInv, Types
    <3> QED
      BY <1>1, <1>2, <1>3, <3>1 DEF Carried, Count
  <2> QED
    BY <1>1, <2>1, OnceKept DEF RInv
<1>7. NewImage'
  BY <1>1, <1>2, <1>3 DEF RInv, NewImage
<1> QED
  BY <1>4, <1>5, <1>6, <1>7 DEF RInv

LEMMA InstallFailsKeeps ==
    ASSUME RInv, Types', InstallFails
    PROVE  RInv'
<1>1. /\ worker.do = "install" /\ worker' = None
      /\ UNCHANGED <<desired, jobs, down, config, call, slot, image, honored, request, issued,
                     reboots, excused>>
  BY DEF InstallFails, cloud, network, agent, observed
<1>2. None.do = "none"
  BY NoneProperties
<1>3. Made' /\ Checked' /\ NewImage'
  BY <1>1, <1>2 DEF RInv, Made, Checked, NewImage, Guarded, Running
<1>4. Once'
  <2>1. ASSUME NEW r \in Requests
        PROVE  Carried(r)' <= Carried(r)
    <3>1. reboots[r] \in Nat
      BY DEF RInv, Types
    <3> QED
      BY <1>1, <1>2, <3>1 DEF Carried, Count
  <2> QED
    BY <1>1, <2>1, OnceKept DEF RInv
<1> QED
  BY <1>3, <1>4 DEF RInv

(* The unit starts again from the slot it ran, after a reset or a power    *)
(* cut.                                                                    *)
LEMMA RestartKeeps ==
    ASSUME RInv, Types', ColdReset \/ PowerCut
    PROVE  RInv'
<1>1. /\ Boot(slot)
      /\ UNCHANGED <<desired, jobs, image, honored, request, issued, excused>>
  BY DEF ColdReset, PowerCut, cloud, observed
<1>2. /\ down' = {} /\ config'.reboot = 0 /\ call'.at = "idle" /\ call'.reboot = 0
      /\ worker'.do = "none" /\ slot' = slot
  <2>1. slot \in Slots
    BY DEF RInv, Types
  <2> QED
    BY <1>1, <2>1, BootProperties, NoneProperties
<1>3. ASSUME NEW r \in Requests
      PROVE  /\ reboots'[r] \in Nat /\ reboots[r] \in Nat
             /\ reboots'[r] <= reboots[r] + Count(worker.do = "reboot" /\ worker.arg = r)
  <2>1. reboots[r] \in Nat /\ reboots'[r] \in Nat
    BY DEF RInv, Types
  <2>2. CASE PowerCut
    BY <2>1, <2>2 DEF PowerCut, observed, Count
  <2>3. CASE ColdReset
    BY <2>1, <2>3, ColdResetProperties DEF ColdReset, RInv, Count
  <2> QED
    BY <2>2, <2>3
<1>4. Made'
  <2>1. issued \in Nat
    BY DEF RInv, Types
  <2>2. ASSUME NEW r \in Requests, r > issued
        PROVE  reboots'[r] = 0
    <3>1. r \in Nat /\ reboots[r] = 0
      BY <2>2, VersionsAssumption DEF RInv, Made, Requests
    <3>2. ~(worker.do = "reboot" /\ worker.arg = r)
      BY <2>1, <2>2, <3>1 DEF RInv, Made
    <3>3. reboots'[r] <= 0 /\ reboots'[r] \in Nat
      BY <1>3, <3>1, <3>2 DEF Count
    <3> QED
      BY <3>3
  <2> QED
    BY <1>1, <1>2, <2>1, <2>2 DEF RInv, Made
<1>5. Checked'
  BY <1>1, <1>2 DEF RInv, Checked, Guarded, Running
<1>6. Once'
  <2>1. ASSUME NEW r \in Requests
        PROVE  Carried(r)' <= Carried(r)
    BY <1>1, <1>2, <1>3 DEF Carried, Count
  <2> QED
    BY <1>1, <1>2, <2>1, OnceKept DEF RInv
<1>7. NewImage'
  BY <1>1 DEF RInv, NewImage
<1> QED
  BY <1>4, <1>5, <1>6, <1>7 DEF RInv

(* The unit starts from its other slot, installed or gone back to: its     *)
(* guard is another one, and every request made so far is excused.         *)
LEMMA OtherSlotKeeps ==
    ASSUME RInv, Types', Install \/ RollBack
    PROVE  RInv'
<1>1. Boot(Other(slot)) /\ ChangeSlot /\ UNCHANGED <<desired, issued, reboots>>
  BY DEF Install, RollBack
<1>2. slot \in Slots /\ Other(slot) \in Slots /\ Other(slot) # slot
  BY SlotProperties DEF RInv, Types
<1>3. /\ down' = {} /\ config'.reboot = 0 /\ call'.at = "idle" /\ call'.reboot = 0
      /\ worker'.do = "none" /\ slot' = Other(slot)
  BY <1>1, <1>2, BootProperties, NoneProperties
<1>4. excused' = excused \union 1 .. issued /\ issued \in Nat
  BY <1>1 DEF ChangeSlot, RInv, Types
<1>5. \A s \in Slots : /\ honored'[s] \in {0, honored[s]}
                       /\ \/ request'[s] = request[s] /\ image'[s] = image[s]
                          \/ request'[s].do = "none"
  <2>1. CASE RollBack
    BY <2>1 DEF RollBack
  <2>2. CASE Install
    BY <1>2, <2>2, NoneProperties DEF Install, RInv, Types
  <2> QED
    BY <2>1, <2>2
<1>6. Made'
  BY <1>1, <1>3, <1>4, <1>5 DEF RInv, Made
<1>7. Checked'
  <2>1. ASSUME NEW j \in jobs', j.do = "reboot"
        PROVE  j.stale
    <3>1. PICK i \in jobs : j = [i EXCEPT !.stale = i.do = "reboot"]
      BY <1>1 DEF ChangeSlot
    <3>2. i \in Jobs
      BY DEF RInv, Types
    <3> QED
      BY <2>1, <3>1, <3>2 DEF Jobs
  <2> QED
    BY <1>1, <1>4, <2>1 DEF Checked
<1>8. Once'
  <2> SUFFICES ASSUME NEW r \in Requests, r \notin excused'
               PROVE  Carried(r)' = 0
    BY DEF Once
  <2>1. r \in Nat /\ r > issued
    BY <1>4, VersionsAssumption DEF Requests
  <2>2. reboots'[r] = 0
    BY <1>1, <2>1 DEF RInv, Made
  <2>3. ~(request'[slot'].do = "reboot" /\ request'[slot'].arg = r)
    BY <1>2, <1>3, <1>4, <1>5, <2>1 DEF RInv, Made
  <2> QED
    BY <1>3, <2>2, <2>3 DEF Carried, Count
<1>9. NewImage'
  BY <1>5 DEF RInv, NewImage
<1> QED
  BY <1>6, <1>7, <1>8, <1>9 DEF RInv

LEMMA CloudKeeps ==
    ASSUME RInv, Types',
           \/ ShadowTakes
           \/ \E r \in Roles : CheckReboot(r) \/ ClearLocation(r)
           \/ \E r \in Roles, v \in Versions : Push(r, v)
           \/ \E r \in Roles, p \in Places : SetLocation(r, p)
           \/ \E j \in jobs : CheckLocation(j) \/ SyncLocation(j) \/ FailJob(j)
           \/ PollShadow
    PROVE  RInv'
<1>0. Types
  BY DEF RInv
<1>1. CASE ShadowTakes
  <2>1. /\ desired'.reboot \in {0, desired.reboot}
        /\ \A m \in down' \ down : m.reboot \in {0, desired.reboot}
    BY <1>0, <1>1, ShadowTakesProperties, AbsorbProperties
  <2> QED
    BY <1>1, <2>1, OthersKeep DEF ShadowTakes, agent, disk, observed
<1>2. ASSUME NEW r \in Roles, CheckReboot(r)
      PROVE  RInv'
  <2>1. \A j \in jobs' \ jobs : j.do = "reboot" /\ ~j.stale => Guarded
    <3>1. SupportsRemoteReboot(reported.fw)
      BY <1>2 DEF CheckReboot
    <3>2. PICK b \in BOOLEAN : b = (reported.fw # Running)
      OBVIOUS
    <3>3. jobs' = jobs \union {[do |-> "reboot", place |-> "none", stale |-> b]}
      BY <1>2, <3>2, Zenon DEF CheckReboot
    <3>4. [do |-> "reboot", place |-> "none", stale |-> b].stale = b
      OBVIOUS
    <3>5. ~b => Guarded
      BY <3>1, <3>2 DEF Guarded
    <3> QED
      BY <3>3, <3>4, <3>5
  <2> QED
    BY <1>2, <2>1, OthersKeep DEF CheckReboot, network, agent, disk, observed
<1>3. ASSUME NEW p, TableWritten(p)
      PROVE  RInv'
  <2>1. \A j \in jobs' \ jobs : j.do # "reboot"
    BY <1>3 DEF TableWritten
  <2> QED
    BY <1>3, <2>1, OthersKeep DEF TableWritten, network, agent, disk
<1>4. ASSUME NEW r \in Roles, NEW v \in Versions, Push(r, v)
      PROVE  RInv'
  <2> DEFINE d == [desired EXCEPT !.target = v]
  <2>1. d \in Wants /\ d.reboot = desired.reboot
    BY <1>0, VersionsAssumption DEF Types, Wants
  <2>2. Update(d)
    BY <1>4 DEF Push
  <2> HIDE DEF d
  <2>3. desired' = d /\ \A m \in down' \ down : m.reboot = desired.reboot
    BY <1>0, <2>1, <2>2, UpdateProperties
  <2> QED
    BY <1>4, <2>1, <2>3, OthersKeep DEF Push, agent, disk, observed
<1>5. ASSUME NEW j \in jobs, CheckLocation(j)
      PROVE  RInv'
  <2>1. j \in Jobs /\ j.do = "check"
    BY <1>0, <1>5 DEF Types, CheckLocation
  <2>2. [j EXCEPT !.do = "sync"].do = "sync"
    BY <2>1 DEF Jobs
  <2>3. \A i \in jobs' \ jobs : i.do # "reboot"
    BY <1>5, <2>2 DEF CheckLocation
  <2> QED
    BY <1>5, <2>3, OthersKeep DEF CheckLocation, network, agent, disk, observed
<1>6. ASSUME NEW j \in jobs, SyncLocation(j)
      PROVE  RInv'
  <2> DEFINE l == Merge(desired.location, LocationShadowDesired(j.place))
             d == [desired EXCEPT !.location = l]
  <2>1. j.place \in Sites /\ desired.location \in Locations
    BY <1>0, WantsProperties DEF Types, Jobs
  <2>2. l \in Locations
    BY <2>1, DesiredLocation, MergeProperties
  <2>3. Update(d) /\ jobs' = jobs \ {j}
    BY <1>6 DEF SyncLocation
  <2> HIDE DEF l
  <2>4. d \in Wants /\ d.reboot = desired.reboot
    BY <1>0, <2>2 DEF Types, Wants
  <2> HIDE DEF d
  <2>5. desired' = d /\ \A m \in down' \ down : m.reboot = desired.reboot
    BY <1>0, <2>3, <2>4, UpdateProperties
  <2> QED
    BY <1>6, <2>3, <2>4, <2>5, OthersKeep DEF SyncLocation, agent, disk, observed
<1>7. ASSUME NEW j \in jobs, FailJob(j)
      PROVE  RInv'
  <2>1. jobs' = jobs \ {j}
    BY <1>7 DEF FailJob
  <2> QED
    BY <1>7, <2>1, OthersKeep DEF FailJob, network, agent, disk, observed
<1>8. CASE PollShadow
  BY <1>8, OthersKeep DEF PollShadow, cloud, network, agent, disk, observed
<1> QED
  BY <1>1, <1>2, <1>3, <1>4, <1>5, <1>6, <1>7, <1>8 DEF SetLocation, ClearLocation

LEMMA RebootsKept ==
    ASSUME RInv, [Next]_vars
    PROVE  RInv'
<1>0. Types /\ Types'
  BY TypesKept DEF RInv
<1>1. CASE Connect
  BY <1>0, <1>1, OthersKeep DEF Connect, cloud, agent, disk, observed
<1>2. CASE Disconnect
  <2>1. desired'.reboot \in {0, desired.reboot}
    <3>1. CASE UNCHANGED <<desired, reported>>
      BY <3>1
    <3>2. CASE up # <<>> /\ Absorb(Head(up))
      <4>1. Head(up) \in Gets \union Reports
        BY <1>0, <3>2, HeadTailProperties DEF Types
      <4> QED
        BY <1>0, <3>2, <4>1, AbsorbProperties
    <3> QED
      BY <1>2, <3>1, <3>2 DEF Disconnect
  <2> QED
    BY <1>0, <1>2, <2>1, OthersKeep DEF Disconnect, agent, disk, observed
<1>3. CASE Report
  <2>1. config'.reboot = 0
    BY <1>0, <1>3 DEF Report, Types
  <2> QED
    BY <1>0, <1>3, <2>1, OthersKeep DEF Report, cloud, disk
<1>4. CASE Confirm
  BY <1>0, <1>4, OthersKeep DEF Confirm, cloud, network, agent, observed
<1>5. CASE UNCHANGED vars
  BY <1>0, <1>5, OthersKeep DEF vars, cloud, network, agent, disk, observed
<1> QED
  BY <1>0, <1>1, <1>2, <1>3, <1>4, <1>5, CloudKeeps, RequestRebootKeeps, DeliverKeeps, GuardKeeps,
     HandOverKeeps, OtaTriggerKeeps, TakeRequestKeeps, InstallFailsKeeps, RestartKeeps,
     OtherSlotKeeps DEF Next

LEMMA StartsRight ==
    ASSUME Init
    PROVE  Types /\ RInv
<1>1. /\ desired = [reboot |-> 0, target |-> 0, location |-> NoKeys]
      /\ reported = [fw |-> First, location |-> NoKeys]
      /\ table = "none" /\ jobs = {} /\ connected = TRUE /\ down = {} /\ up = <<>>
      /\ told = "fine" /\ config = NoConfig /\ clearTarget = FALSE /\ known = NoKeys /\ call = Idle
      /\ slot = "a" /\ honored = [s \in Slots |-> 0] /\ request = [s \in Slots |-> None]
      /\ worker = None /\ issued = 0 /\ reboots = [r \in Requests |-> 0] /\ excused = {}
      /\ overlap = FALSE /\ echoed = TRUE
  BY DEF Init
<1>2. PICK v \in Versions : image = [s \in Slots |-> IF s = "a" THEN First ELSE v]
  BY DEF Init
<1>3. First \in Versions
  BY VersionsAssumption
<1>4. Types
  <2>1. desired \in Wants /\ reported \in [fw : Versions, location : Locations] /\ known \in Locations
    BY <1>1, <1>3, NoKeysProperties DEF Wants
  <2>2. /\ table \in Sites /\ jobs \subseteq Jobs /\ down \subseteq Wants
        /\ up \in Seq(Gets \union Reports) /\ told \in {"fine", "warned", "silent"}
    BY <1>1, EmptySeq DEF Sites
  <2>3. connected \in BOOLEAN /\ clearTarget \in BOOLEAN /\ overlap \in BOOLEAN /\ echoed \in BOOLEAN
    BY <1>1
  <2>4. /\ config \in [reboot : Nat, target : Nat]
        /\ call \in [at : {"idle", "guard", "hand", "target"}, reboot : Nat, target : Nat]
        /\ request \in [Slots -> Asks] /\ worker \in Asks
    BY <1>1, NoneProperties
  <2>5. slot \in Slots /\ image \in [Slots -> Versions] /\ honored \in [Slots -> Nat]
    BY <1>1, <1>2, <1>3 DEF Slots
  <2>6. issued \in Nat /\ reboots \in [Requests -> Nat]
    BY <1>1
  <2> QED
    BY <2>1, <2>2, <2>3, <2>4, <2>5, <2>6 DEF Types
<1>5. Made
  <2>1. desired.reboot = 0
    BY <1>1
  <2> QED
    BY <1>1, <2>1, NoneProperties DEF Made
<1>6. Checked
  BY <1>1 DEF Checked
<1>7. Once
  <2>1. \A r \in Requests : Carried(r) = 0
    BY <1>1, NoneProperties DEF Carried, Count, Slots
  <2> QED
    BY <2>1 DEF Once
<1>8. NewImage
  BY <1>1, NoneProperties DEF NewImage
<1> QED
  BY <1>4, <1>5, <1>6, <1>7, <1>8 DEF RInv

LEMMA RebootsInductive == Spec => []RInv
<1>1. Init => RInv
  BY StartsRight
<1>2. RInv /\ [Next]_vars => RInv'
  BY RebootsKept
<1> QED
  BY <1>1, <1>2, PTL DEF Spec

(* One request reboots the unit at most once, through every loss, repeat   *)
(* and reordering of its messages, every restart and every power cut, with *)
(* any number of requests; unless the slot changed since, the version that *)
(* was checked no longer ran, or late requests met newer ones              *)
(* (reboot_guard.c, main.c:517-541).                                       *)
THEOREM RebootsOnce == Spec => []RebootOnce
<1>1. RInv => RebootOnce
  <2> SUFFICES ASSUME RInv, NEW r \in Requests, reboots[r] > 1, r \notin excused
               PROVE  FALSE
    BY DEF RebootOnce
  <2>1. reboots[r] \in Nat /\ Carried(r) <= 1
    BY DEF RInv, Types, Once
  <2> QED
    BY <2>1 DEF Carried, Count
<1> QED
  BY <1>1, RebootsInductive, PTL

(* The worker never sets out to install what runs, however often a target  *)
(* that was left standing is met again (main.c:474-496).                   *)
THEOREM NeverReinstalls == Spec => NoReinstall
<1>1. RInv /\ [Next]_vars => [worker # worker' /\ worker'.do = "install" => worker'.arg # Running]_vars
  <2> SUFFICES ASSUME RInv, Next, worker # worker', worker'.do = "install"
               PROVE  worker'.arg # Running
    OBVIOUS
  <2>1. slot \in Slots /\ None.do = "none" /\ Other(slot) \in Slots
    BY NoneProperties, SlotProperties DEF RInv, Types
  <2>2. CASE TakeRequest
    BY <2>1, <2>2 DEF TakeRequest, RInv, NewImage, Running
  <2>3. CASE ColdReset \/ Install \/ RollBack \/ PowerCut
    BY <2>1, <2>3 DEF ColdReset, Install, RollBack, PowerCut, Boot
  <2>4. CASE InstallFails
    BY <2>1, <2>4 DEF InstallFails
  <2>5. CASE UNCHANGED worker
    BY <2>5
  <2>6. CASE \/ ShadowTakes \/ PollShadow \/ Connect \/ Disconnect
             \/ \E r \in Roles : CheckReboot(r) \/ ClearLocation(r)
             \/ \E r \in Roles, v \in Versions : Push(r, v)
             \/ \E r \in Roles, p \in Places : SetLocation(r, p)
             \/ \E j \in jobs : RequestReboot(j) \/ CheckLocation(j) \/ SyncLocation(j) \/ FailJob(j)
    BY <2>5, <2>6 DEF ShadowTakes, PollShadow, Connect, Disconnect, CheckReboot, ClearLocation,
       Push, SetLocation, TableWritten, RequestReboot, CheckLocation, SyncLocation, FailJob, disk
  <2>7. CASE \/ \E m \in down : Deliver(m)
             \/ Guard \/ HandOver \/ OtaTrigger \/ Report \/ Confirm
    BY <2>5, <2>7 DEF Deliver, Guard, HandOver, OtaTrigger, Report, Confirm, disk
  <2> QED
    BY <2>2, <2>3, <2>4, <2>6, <2>7 DEF Next
<1> QED
  BY <1>1, RebootsInductive, PTL DEF Spec, NoReinstall

-----------------------------------------------------------------------------
(* Locations: what a step leaves alone.                                    *)

LEMMA WireKept ==
    ASSUME Types, Wire,
           UNCHANGED <<known, stored, misfiled, echoed, reported, up, connected, slot, image>>,
           desired'.location = desired.location, down \subseteq down',
           \A m \in down' \ down : DOMAIN m.location \subseteq DOMAIN desired.location
    PROVE  Wire'
<1>1. Grown'
  BY DEF Wire, Grown
<1>2. Echoed'
  BY DEF Wire, Echoed, Within, Last
<1>3. Filed'
  BY DEF Wire, Filed
<1>4. InHand'
  BY DEF Wire, InHand, Covered, HasReport, Running
<1> QED
  BY <1>1, <1>2, <1>3, <1>4 DEF Wire

LEMMA TableKept ==
    ASSUME Alone, Agreed, UNCHANGED <<table, overlap, told>>, desired'.location = desired.location,
           \A j \in jobs' : Located(j) => j \in jobs,
           \A j \in jobs : Located(j) => j \in jobs'
    PROVE  Alone' /\ Agreed'
<1>1. Alone'
  BY DEF Alone, Located
<1>2. Agreed'
  BY DEF Agreed, Located
<1> QED
  BY <1>1, <1>2

(* A queue of which the first message is gone.                             *)
LEMMA TailIndexes ==
    ASSUME NEW S, NEW s \in Seq(S), s # <<>>
    PROVE  /\ 1 \in DOMAIN s /\ Head(s) = s[1]
           /\ \A i \in DOMAIN Tail(s) : i + 1 \in DOMAIN s /\ Tail(s)[i] = s[i + 1]
           /\ \A i \in DOMAIN s : i = 1 \/ (i - 1 \in DOMAIN Tail(s) /\ Tail(s)[i - 1] = s[i])
           /\ DOMAIN s \subseteq Nat /\ DOMAIN Tail(s) \subseteq Nat
<1>1. DOMAIN s = 1 .. Len(s) /\ Len(s) \in Nat \ {0}
  BY LenProperties, EmptySeq
<1>2. /\ Tail(s) \in Seq(S) /\ Len(Tail(s)) = Len(s) - 1
      /\ \A i \in 1 .. Len(Tail(s)) : Tail(s)[i] = s[i + 1]
  BY HeadTailProperties
<1>3. DOMAIN Tail(s) = 1 .. (Len(s) - 1)
  BY <1>2, LenProperties
<1>4. Head(s) = s[1]
  OBVIOUS
<1>5. ASSUME NEW i \in DOMAIN s, i # 1
      PROVE  i - 1 \in DOMAIN Tail(s) /\ Tail(s)[i - 1] = s[i]
  <2>1. i - 1 \in 1 .. (Len(s) - 1) /\ (i - 1) + 1 = i
    BY <1>1, <1>5
  <2> QED
    BY <1>2, <1>3, <2>1
<1>6. \A i \in DOMAIN Tail(s) : i + 1 \in DOMAIN s
  BY <1>1, <1>3
<1> QED
  BY <1>1, <1>2, <1>3, <1>4, <1>5, <1>6

(* A queue of which the last message is new.                               *)
LEMMA AppendIndexes ==
    ASSUME NEW S, NEW s \in Seq(S), NEW m \in S, NEW t, t = Append(s, m)
    PROVE  \E n \in Nat : /\ n \notin DOMAIN s /\ DOMAIN t = DOMAIN s \union {n} /\ t[n] = m
                          /\ \A i \in DOMAIN s : i \in Nat /\ i < n /\ t[i] = s[i]
<1> DEFINE n == Len(s) + 1
<1>1. DOMAIN s = 1 .. Len(s) /\ Len(s) \in Nat
  BY LenProperties
<1>2. t \in Seq(S) /\ Len(t) = n /\ t[n] = m /\ \A i \in 1 .. Len(s) : t[i] = s[i]
  BY AppendProperties
<1>3. DOMAIN t = 1 .. n
  BY <1>2, LenProperties
<1>4. n \in Nat /\ n \notin 1 .. Len(s) /\ 1 .. n = (1 .. Len(s)) \union {n}
  BY <1>1
<1>5. \A i \in 1 .. Len(s) : i \in Nat /\ i < n
  BY <1>1
<1> HIDE DEF n
<1> QED
  BY <1>1, <1>2, <1>3, <1>4, <1>5

(* After a restart the agent knows nothing, and nothing is on its way.     *)
LEMMA WireRestarts ==
    ASSUME Types, Wire, NEW s \in Slots, Boot(s), UNCHANGED <<desired, reported, stored>>
    PROVE  Wire'
<1>1. /\ connected' = FALSE /\ down' = {} /\ DOMAIN known' = {} /\ DOMAIN up' = {}
  <2>1. DOMAIN up' = 1 .. Len(up') /\ Len(up') = 0
    BY BootProperties, EmptySeq, LenProperties
  <2>2. DOMAIN up' = {}
    BY <2>1
  <2> QED
    BY <2>2, BootProperties, NoKeysProperties
<1>2. Grown'
  BY <1>1 DEF Wire, Grown
<1>3. Echoed'
  BY <1>1 DEF Echoed, Within
<1>4. Filed'
  BY <1>1 DEF Filed
<1>5. InHand'
  BY <1>1 DEF InHand
<1> QED
  BY <1>2, <1>3, <1>4, <1>5 DEF Wire

-----------------------------------------------------------------------------
(* Locations on the wire: one lemma per step that moves them.              *)

LEMMA ShadowTakesWire ==
    ASSUME Types, Types', Wire, ShadowTakes
    PROVE  Wire'
<1> DEFINE h == Head(up)
<1>1. /\ up \in Seq(Gets \union Reports) /\ known \in Locations
      /\ desired.location \in Locations /\ reported.location \in Locations
  BY WantsProperties DEF Types
<1>2. /\ connected /\ up # <<>> /\ h \in Gets \union Reports /\ Absorb(h) /\ up' = Tail(up)
      /\ down \subseteq down' /\ reported'.location \in Locations
      /\ \A m \in down' \ down : DOMAIN m.location \subseteq DOMAIN desired.location
      /\ UNCHANGED <<connected, known, stored, misfiled, echoed, slot, image>>
  BY ShadowTakesProperties DEF ShadowTakes, agent, disk, observed
<1>3. /\ desired'.location = desired.location
      /\ h.get => reported' = reported
      /\ ~h.get => h.location \in Locations
                   /\ reported'.location = Merge(reported.location, h.location)
  BY <1>2, AbsorbProperties
<1>4. PICK l \in Locations :
          /\ l # NoKeys => \E m \in down' : m.location = l
          /\ l = IF h.get THEN desired.location ELSE Differing(desired.location, reported'.location)
  BY ShadowTakesProperties
<1>5. /\ 1 \in DOMAIN up /\ h = up[1]
      /\ \A i \in DOMAIN up' : i + 1 \in DOMAIN up /\ up'[i] = up[i + 1]
      /\ \A i \in DOMAIN up : i = 1 \/ (i - 1 \in DOMAIN up' /\ up'[i - 1] = up[i])
      /\ DOMAIN up \subseteq Nat /\ DOMAIN up' \subseteq Nat
  BY <1>1, <1>2, TailIndexes
<1> HIDE DEF h
<1>6. ~h.get => /\ DOMAIN reported'.location = DOMAIN reported.location \union DOMAIN h.location
                /\ \A k \in DOMAIN h.location : reported'.location[k] = h.location[k]
  <2> SUFFICES ASSUME ~h.get
               PROVE  /\ DOMAIN reported'.location = DOMAIN reported.location \union DOMAIN h.location
                      /\ \A k \in DOMAIN h.location : reported'.location[k] = h.location[k]
    OBVIOUS
  <2>1. reported.location \in Locations
    BY <1>1
  <2>2. h.location \in Locations /\ reported'.location = Merge(reported.location, h.location)
    BY <1>3
  <2>3. /\ DOMAIN Merge(reported.location, h.location) = DOMAIN reported.location \union DOMAIN h.location
        /\ \A k \in DOMAIN h.location : Merge(reported.location, h.location)[k] = h.location[k]
    BY <2>1, <2>2, MergeProperties
  <2> QED
    BY <2>2, <2>3
<1>7. \A k : k \in DOMAIN l => \E m \in down' : k \in DOMAIN m.location
  BY <1>4, NoKeysProperties
<1>8. (~h.get /\ \A i \in DOMAIN up' : up'[i].get) => Last(1)
  BY <1>5 DEF Last
<1>9. Grown'
  <2>1. DOMAIN reported'.location \subseteq DOMAIN desired.location
    <3>1. CASE h.get
      BY <1>3, <3>1 DEF Wire, Grown
    <3>2. CASE ~h.get
      <4>1. DOMAIN reported'.location = DOMAIN reported.location \union DOMAIN h.location
        BY <1>6, <3>2
      <4> QED
        BY <1>5, <3>2, <4>1 DEF Wire, Grown
    <3> QED
      BY <3>1, <3>2
  <2>2. \A i \in DOMAIN up' : ~up'[i].get => DOMAIN up'[i].location \subseteq DOMAIN desired.location
    BY <1>5 DEF Wire, Grown
  <2> QED
    BY <1>2, <1>3, <2>1, <2>2 DEF Wire, Grown
<1>10. Echoed'
  <2>1. ASSUME echoed, \A i \in DOMAIN up' : up'[i].get
        PROVE  Within(known, reported'.location)
    <3>1. CASE h.get
      <4>1. \A i \in DOMAIN up : up[i].get
        BY <1>5, <2>1, <3>1
      <4> QED
        BY <1>3, <2>1, <3>1, <4>1 DEF Wire, Echoed
    <3>2. CASE ~h.get
      <4>1. h.location = known
        BY <1>5, <1>8, <2>1, <3>2 DEF Wire, Echoed
      <4> QED
        BY <1>6, <3>2, <4>1 DEF Within
    <3> QED
      BY <3>1, <3>2
  <2>2. ASSUME echoed, NEW i \in DOMAIN up', Last(i)'
        PROVE  up'[i].location = known
    <3>1. Last(i + 1)
      <4>1. ASSUME NEW j \in DOMAIN up, j > i + 1
            PROVE  up[j].get
        <5>1. i \in Nat /\ j \in Nat /\ j # 1
          BY <1>5, <4>1
        <5>2. j - 1 \in DOMAIN up' /\ up'[j - 1] = up[j] /\ j - 1 > i
          BY <1>5, <4>1, <5>1
        <5> QED
          BY <2>2, <5>2 DEF Last
      <4> QED
        BY <1>5, <2>2, <4>1 DEF Last
    <3> QED
      BY <1>5, <2>2, <3>1 DEF Wire, Echoed
  <2> QED
    BY <1>2, <2>1, <2>2 DEF Echoed
<1>11. Filed'
  BY <1>2 DEF Wire, Filed
<1>12. InHand'
  <2> SUFFICES ASSUME connected, UnitSupportsLocation(Running), NEW k \in DOMAIN desired.location
               PROVE  Covered(k)'
    BY <1>2, <1>3 DEF InHand, Running
  <2>1. Covered(k)
    BY DEF Wire, InHand
  <2>2. CASE \E m \in down : k \in DOMAIN m.location
    BY <1>2, <2>2 DEF Covered
  <2>3. CASE \E i \in DOMAIN up : up[i].get
    <3>1. PICK i \in DOMAIN up : up[i].get
      BY <2>3
    <3>2. CASE i = 1
      BY <1>4, <1>5, <1>7, <3>1, <3>2 DEF Covered
    <3>3. CASE i # 1
      BY <1>5, <3>1, <3>3 DEF Covered
    <3> QED
      BY <3>2, <3>3
  <2>4. CASE k \in DOMAIN known /\ (known[k] = desired.location[k] \/ ~echoed \/ HasReport)
    <3>1. CASE known[k] = desired.location[k] \/ ~echoed \/ HasReport'
      BY <1>2, <1>3, <2>4, <3>1 DEF Covered
    <3>2. CASE known[k] # desired.location[k] /\ echoed /\ HasReport /\ ~HasReport'
      <4>1. \A i \in DOMAIN up' : up'[i].get
        BY <3>2 DEF HasReport
      <4>2. ~h.get
        <5>1. PICK i \in DOMAIN up : ~up[i].get
          BY <3>2 DEF HasReport
        <5>2. i = 1
          BY <1>5, <4>1, <5>1
        <5> QED
          BY <1>5, <5>1, <5>2
      <4>3. h.location = known
        BY <1>5, <1>8, <3>2, <4>1, <4>2 DEF Wire, Echoed
      <4>4. reported'.location[k] = known[k]
        BY <1>6, <2>4, <4>2, <4>3
      <4>5. k \in DOMAIN l
        BY <1>1, <1>2, <1>4, <3>2, <4>2, <4>4, DifferingProperties
      <4> QED
        BY <1>7, <4>5 DEF Covered
    <3> QED
      BY <2>4, <3>1, <3>2
  <2> QED
    BY <2>1, <2>2, <2>3, <2>4 DEF Covered
<1> QED
  BY <1>9, <1>10, <1>11, <1>12 DEF Wire

LEMMA ConnectWire ==
    ASSUME Types, Wire, Connect
    PROVE  Wire'
<1>1. /\ up \in Seq(Gets \union Reports) /\ [get |-> TRUE] \in Gets \union Reports
      /\ up' = Append(up, [get |-> TRUE])
      /\ UNCHANGED <<desired, reported, down, known, stored, misfiled, echoed, slot, image>>
  BY UpProperties DEF Connect, Types, cloud, agent, disk, observed
<1>2. PICK n \in Nat : /\ n \notin DOMAIN up /\ DOMAIN up' = DOMAIN up \union {n}
                       /\ up'[n] = [get |-> TRUE]
                       /\ \A i \in DOMAIN up : i \in Nat /\ i < n /\ up'[i] = up[i]
  BY <1>1, AppendIndexes
<1>3. up'[n].get
  BY <1>2
<1>4. Grown'
  BY <1>1, <1>2, <1>3 DEF Wire, Grown
<1>5. Echoed'
  <2>1. (\A i \in DOMAIN up' : up'[i].get) => \A i \in DOMAIN up : up[i].get
    BY <1>2
  <2>2. \A i \in DOMAIN up' : Last(i)' => Last(i) /\ up'[i] = up[i]
    BY <1>2, <1>3 DEF Last
  <2> QED
    BY <1>1, <2>1, <2>2 DEF Wire, Echoed, Last
<1>6. Filed'
  BY <1>1 DEF Wire, Filed
<1>7. InHand'
  BY <1>2, <1>3 DEF InHand, Covered
<1> QED
  BY <1>4, <1>5, <1>6, <1>7 DEF Wire

LEMMA DisconnectWire ==
    ASSUME Types, Wire, Disconnect
    PROVE  Wire'
<1>1. /\ connected' = FALSE /\ down' = {}
      /\ UNCHANGED <<up, known, stored, misfiled, echoed, slot, image>>
      /\ UNCHANGED <<desired, reported>> \/ (up # <<>> /\ Absorb(Head(up)))
  BY DEF Disconnect, agent, disk, observed
<1>2. CASE UNCHANGED <<desired, reported>>
  <2>1. Grown'
    BY <1>1, <1>2 DEF Wire, Grown
  <2>2. Echoed'
    BY <1>1, <1>2 DEF Wire, Echoed, Last
  <2> QED
    BY <1>1, <2>1, <2>2 DEF Wire, Filed, InHand
<1>3. CASE up # <<>> /\ Absorb(Head(up))
  <2> DEFINE h == Head(up)
  <2>1. up \in Seq(Gets \union Reports) /\ reported.location \in Locations
    BY DEF Types
  <2>2. 1 \in DOMAIN up /\ h = up[1] /\ h \in Gets \union Reports
    BY <1>3, <2>1, TailIndexes, HeadTailProperties
  <2>3. /\ desired'.location = desired.location
        /\ h.get => reported' = reported
        /\ ~h.get => h.location \in Locations
                     /\ reported'.location = Merge(reported.location, h.location)
    BY <1>3, <2>2, AbsorbProperties
  <2> HIDE DEF h
  <2>4. DOMAIN reported'.location \subseteq DOMAIN desired.location
    <3>1. CASE h.get
      BY <2>3, <3>1 DEF Wire, Grown
    <3>2. CASE ~h.get
      <4>1. DOMAIN reported'.location = DOMAIN reported.location \union DOMAIN h.location
        BY <2>1, <2>3, <3>2, MergeProperties
      <4> QED
        BY <2>2, <3>2, <4>1 DEF Wire, Grown
    <3> QED
      BY <3>1, <3>2
  <2>5. Grown'
    BY <1>1, <2>3, <2>4 DEF Wire, Grown
  <2>6. Echoed'
    BY <1>1, <2>2, <2>3 DEF Wire, Echoed, Last
  <2> QED
    BY <1>1, <2>5, <2>6 DEF Wire, Filed, InHand
<1> QED
  BY <1>1, <1>2, <1>3

LEMMA ReportWire ==
    ASSUME Types, Wire, Report
    PROVE  Wire'
<1>1. PICK m \in Reports : m.location = known /\ ~m.get /\ up' = Append(up, m)
  <2>1. PICK b \in BOOLEAN :
           up' = Append(up, [get |-> FALSE, fw |-> Running, location |-> known, reboot |-> b,
                             target |-> clearTarget])
    BY DEF Report
  <2>2. PICK c \in BOOLEAN : c = clearTarget
    BY DEF Types
  <2>3. PICK g \in {FALSE} : g = FALSE
    OBVIOUS
  <2>4. Running \in Versions /\ known \in Locations
    BY DEF Types, Running
  <2> DEFINE m == [get |-> g, fw |-> Running, location |-> known, reboot |-> b, target |-> c]
  <2>5. m \in Reports
    BY <2>4 DEF Reports
  <2>6. up' = Append(up, m)
    BY <2>1, <2>2, <2>3, Zenon
  <2>7. m.location = known
    OBVIOUS
  <2> HIDE DEF m
  <2> QED
    BY <2>5, <2>6, <2>7, UpProperties
<1>2. /\ up \in Seq(Gets \union Reports) /\ m \in Gets \union Reports /\ echoed' = TRUE
      /\ UNCHANGED <<desired, reported, connected, down, known, stored, misfiled, slot, image>>
  BY DEF Report, Types, cloud, disk
<1>3. PICK n \in Nat : /\ n \notin DOMAIN up /\ DOMAIN up' = DOMAIN up \union {n} /\ up'[n] = m
                       /\ \A i \in DOMAIN up : i \in Nat /\ i < n /\ up'[i] = up[i]
  BY <1>1, <1>2, AppendIndexes
<1>4. Grown'
  BY <1>1, <1>2, <1>3 DEF Wire, Grown
<1>5. Echoed'
  <2>1. \A i \in DOMAIN up' : Last(i)' => i = n
    BY <1>1, <1>3 DEF Last
  <2> QED
    BY <1>1, <1>2, <1>3, <2>1 DEF Echoed
<1>6. Filed'
  BY <1>2 DEF Wire, Filed
<1>7. InHand'
  <2>1. HasReport'
    BY <1>1, <1>3 DEF HasReport
  <2>2. \A k : Covered(k) => Covered(k)'
    BY <1>2, <1>3, <2>1 DEF Covered
  <2> QED
    BY <1>2, <2>2 DEF Wire, InHand, Running
<1> QED
  BY <1>4, <1>5, <1>6, <1>7 DEF Wire

LEMMA DeliverWire ==
    ASSUME Types, Wire, NEW m \in down, Deliver(m)
    PROVE  Wire'
<1>1. /\ down' = down \ {m} /\ echoed' = FALSE
      /\ UNCHANGED <<desired, reported, connected, up, slot, image>>
  BY DEF Deliver, cloud
<1>2. /\ \/ known' = known /\ stored' = stored /\ misfiled' = misfiled
         \/ known' = Merge(known, m.location) /\ StoredOrNot
      /\ UnitSupportsLocation(Running) => DOMAIN m.location \subseteq DOMAIN known'
      /\ known \in Locations /\ m.location \in Locations
  BY DeliverProperties DEF Types
<1>3. DOMAIN known \subseteq DOMAIN known' /\ DOMAIN known' \subseteq DOMAIN known \union DOMAIN m.location
  <2>1. DOMAIN Merge(known, m.location) = DOMAIN known \union DOMAIN m.location
    BY <1>2, MergeProperties
  <2> QED
    BY <1>2, <2>1
<1>4. stored' = stored \/ stored' = StoredAfter(known')
  BY <1>2 DEF StoredOrNot
<1>5. Grown'
  <2>1. DOMAIN known' \subseteq DOMAIN desired.location
    BY <1>3 DEF Wire, Grown
  <2>2. "assigned" \notin DOMAIN desired.location => stored' = "none"
    BY <1>4, <2>1 DEF Wire, Grown, StoredAfter, Parsed
  <2> QED
    BY <1>1, <2>1, <2>2 DEF Wire, Grown
<1>6. Echoed'
  BY <1>1 DEF Echoed
<1>7. Filed'
  <2>1. CASE known' = known /\ stored' = stored /\ misfiled' = misfiled
    BY <2>1 DEF Wire, Filed
  <2>2. CASE StoredOrNot
    BY <2>2 DEF Filed, StoredOrNot, StoredAfter, Parsed
  <2> QED
    BY <1>2, <2>1, <2>2
<1>8. InHand'
  <2>1. ASSUME UnitSupportsLocation(Running), NEW k, Covered(k)
        PROVE  Covered(k)'
    <3>1. CASE k \in DOMAIN known \/ k \in DOMAIN m.location
      BY <1>1, <1>2, <1>3, <2>1, <3>1 DEF Covered
    <3>2. CASE \E i \in DOMAIN up : up[i].get
      BY <1>1, <3>2 DEF Covered
    <3>3. CASE \E x \in down : k \in DOMAIN x.location /\ x # m
      BY <1>1, <3>3 DEF Covered
    <3> QED
      BY <2>1, <3>1, <3>2, <3>3 DEF Covered
  <2> QED
    BY <1>1, <2>1 DEF Wire, InHand, Running
<1> QED
  BY <1>5, <1>6, <1>7, <1>8 DEF Wire

(* What the shadow comes to desire when a place is set or removed.         *)
LEMMA SyncLocationProperties ==
    ASSUME Types, NEW j \in jobs, SyncLocation(j)
    PROVE  /\ desired'.location \in Locations /\ Says(desired'.location, j.place)
           /\ DOMAIN desired.location \subseteq DOMAIN desired'.location
           /\ down \subseteq down'
           /\ \A m \in down' \ down : DOMAIN m.location \subseteq DOMAIN desired'.location
           /\ connected => \A k \in DOMAIN desired'.location :
                  \/ \E m \in down' : k \in DOMAIN m.location
                  \/ /\ k \in DOMAIN reported.location
                     /\ reported.location[k] = desired'.location[k]
<1> DEFINE l == Merge(desired.location, LocationShadowDesired(j.place))
           d == [desired EXCEPT !.location = l]
           x == Differing(l, reported.location)
<1>1. j.place \in Sites /\ desired.location \in Locations /\ reported.location \in Locations
  BY WantsProperties DEF Types, Jobs
<1>2. /\ l \in Locations /\ Says(l, j.place)
      /\ DOMAIN desired.location \subseteq DOMAIN l
  <2>1. LocationShadowDesired(j.place) \in Locations /\ Says(l, j.place)
    BY <1>1, DesiredLocation
  <2>2. /\ l \in Locations
        /\ DOMAIN l = DOMAIN desired.location \union DOMAIN LocationShadowDesired(j.place)
    BY <1>1, <2>1, MergeProperties
  <2> QED
    BY <2>1, <2>2
<1>3. Update(d)
  BY DEF SyncLocation
<1> HIDE DEF l
<1>4. d \in Wants /\ d.location = l
  BY <1>2 DEF Types, Wants
<1> HIDE DEF d
<1>5. /\ desired' = d /\ down' \subseteq Wants /\ down \subseteq down'
      /\ \A m \in down' \ down : m.location = x
      /\ connected /\ x # NoKeys => \E m \in down' : m.location = x
  BY <1>3, <1>4, UpdateProperties
<1>6. /\ DOMAIN x \subseteq DOMAIN l
      /\ \A k \in DOMAIN l :
             ~(k \in DOMAIN reported.location /\ reported.location[k] = l[k]) => k \in DOMAIN x
  BY <1>1, <1>2, DifferingProperties
<1> HIDE DEF x
<1>7. DOMAIN NoKeys = {}
  BY NoKeysProperties
<1> QED
  BY <1>2, <1>4, <1>5, <1>6, <1>7

LEMMA SyncLocationWire ==
    ASSUME Types, Wire, NEW j \in jobs, SyncLocation(j)
    PROVE  Wire'
<1>1. UNCHANGED <<reported, known, stored, misfiled, echoed, connected, up, slot, image>>
  BY DEF SyncLocation, agent, disk, observed
<1>2. /\ DOMAIN desired.location \subseteq DOMAIN desired'.location
      /\ down \subseteq down'
      /\ \A m \in down' \ down : DOMAIN m.location \subseteq DOMAIN desired'.location
      /\ connected => \A k \in DOMAIN desired'.location :
             \/ \E m \in down' : k \in DOMAIN m.location
             \/ /\ k \in DOMAIN reported.location
                /\ reported.location[k] = desired'.location[k]
  BY SyncLocationProperties
<1>3. Grown'
  BY <1>1, <1>2 DEF Wire, Grown
<1>4. Echoed'
  BY <1>1 DEF Wire, Echoed, Within, Last
<1>5. Filed'
  BY <1>1 DEF Wire, Filed
<1>6. InHand'
  <2> SUFFICES ASSUME connected, UnitSupportsLocation(Running),
                      NEW k \in DOMAIN desired'.location
               PROVE  Covered(k)'
    BY <1>1 DEF InHand, Running
  <2>1. CASE \E m \in down' : k \in DOMAIN m.location
    BY <2>1 DEF Covered
  <2>2. CASE k \in DOMAIN reported.location /\ reported.location[k] = desired'.location[k]
    <3>1. Covered(k)
      BY <2>2 DEF Wire, Grown, InHand
    <3>2. CASE k \in DOMAIN known
      <4>1. ~echoed \/ HasReport \/ known[k] = reported.location[k]
        BY <3>2 DEF Wire, Echoed, Within, HasReport
      <4> QED
        BY <1>1, <2>2, <3>2, <4>1 DEF Covered, HasReport
    <3>3. CASE k \notin DOMAIN known
      BY <1>1, <1>2, <3>1, <3>3 DEF Covered
    <3> QED
      BY <3>2, <3>3
  <2> QED
    BY <1>2, <2>1, <2>2
<1> QED
  BY <1>3, <1>4, <1>5, <1>6 DEF Wire

LEMMA WireInductive ==
    ASSUME Types, Types', Wire, [Next]_vars
    PROVE  Wire'
<1>0. slot \in Slots /\ Other(slot) \in Slots
  BY SlotProperties DEF Types
<1>1. ASSUME NEW r \in Roles, CheckReboot(r) \/ ClearLocation(r)
      PROVE  Wire'
  BY <1>1, WireKept DEF CheckReboot, ClearLocation, TableWritten, network, agent, disk, observed
<1>2. ASSUME NEW r \in Roles, NEW p \in Places, SetLocation(r, p)
      PROVE  Wire'
  BY <1>2, WireKept DEF SetLocation, TableWritten, network, agent, disk, observed
<1>3. ASSUME NEW d \in Wants, Update(d), d.location = desired.location,
             UNCHANGED <<known, stored, misfiled, echoed, reported, up, connected, slot, image>>
      PROVE  Wire'
  <2>1. /\ desired' = d /\ down \subseteq down'
        /\ \A m \in down' \ down : m.location = Differing(d.location, reported.location)
    BY <1>3, UpdateProperties
  <2>2. DOMAIN Differing(d.location, reported.location) \subseteq DOMAIN desired.location
    BY <1>3, WantsProperties, DifferingProperties DEF Types
  <2> QED
    BY <1>3, <2>1, <2>2, WireKept
<1>4. ASSUME NEW r \in Roles, NEW v \in Versions, Push(r, v)
      PROVE  Wire'
  <2> DEFINE d == [desired EXCEPT !.target = v]
  <2>1. d \in Wants /\ d.location = desired.location
    BY VersionsAssumption DEF Types, Wants
  <2>2. Update(d)
    BY <1>4 DEF Push
  <2> HIDE DEF d
  <2> QED
    BY <1>3, <1>4, <2>1, <2>2 DEF Push, agent, disk, observed
<1>5. ASSUME NEW j \in jobs, RequestReboot(j)
      PROVE  Wire'
  <2> DEFINE n == issued + 1
             d == [desired EXCEPT !.reboot = n]
  <2>1. n \in Nat
    BY DEF Types
  <2>2. Update(d)
    BY <1>5 DEF RequestReboot
  <2> HIDE DEF n
  <2>3. d \in Wants /\ d.location = desired.location
    BY <2>1 DEF Types, Wants
  <2> HIDE DEF d
  <2> QED
    BY <1>3, <1>5, <2>2, <2>3 DEF RequestReboot, agent, disk
<1>6. ASSUME NEW j \in jobs, CheckLocation(j) \/ FailJob(j)
      PROVE  Wire'
  BY <1>6, WireKept DEF CheckLocation, FailJob, network, agent, disk, observed
<1>7. CASE PollShadow
  BY <1>7, WireKept DEF PollShadow, cloud, network, agent, disk, observed
<1>8. CASE Guard \/ HandOver \/ OtaTrigger
  BY <1>8, WireKept DEF Guard, HandOver, OtaTrigger, cloud, network, observed
<1>9. CASE TakeRequest \/ InstallFails \/ Confirm
  BY <1>9, WireKept DEF TakeRequest, InstallFails, Confirm, cloud, network, agent, observed
<1>10. CASE ColdReset \/ Install \/ RollBack \/ PowerCut
  BY <1>0, <1>10, WireRestarts DEF ColdReset, Install, RollBack, PowerCut, cloud
<1>11. CASE UNCHANGED vars
  BY <1>11, WireKept DEF vars, cloud, network, agent, disk, observed
<1> QED
  BY <1>1, <1>2, <1>4, <1>5, <1>6, <1>7, <1>8, <1>9, <1>10, <1>11, ShadowTakesWire, ConnectWire,
     DisconnectWire, DeliverWire, ReportWire, SyncLocationWire DEF Next

-----------------------------------------------------------------------------
(* The table, the shadow and what the operator was told.                   *)

LEMMA TableWrittenKeeps ==
    ASSUME Alone, NEW p \in Sites, TableWritten(p)
    PROVE  Alone' /\ Agreed'
<1> DEFINE new == [do |-> "check", place |-> p, stale |-> FALSE]
<1>1. /\ table' = p /\ jobs' = jobs \union {new}
      /\ overlap' = \E j \in jobs : Located(j)
  BY DEF TableWritten, Located
<1>2. new.do = "check" /\ new.place = p
  OBVIOUS
<1> HIDE DEF new
<1>3. Located(new) /\ new \in jobs'
  BY <1>1, <1>2 DEF Located
<1>4. Alone'
  <2> SUFFICES ASSUME ~overlap', NEW j \in jobs', Located(j)
               PROVE  j.place = table' /\ \A i \in jobs' : Located(i) => i = j
    BY DEF Alone, Located
  <2>1. \A i \in jobs' : Located(i) => i = new
    BY <1>1
  <2> QED
    BY <1>1, <1>2, <2>1
<1>5. Agreed'
  BY <1>3 DEF Agreed, Located
<1> QED
  BY <1>4, <1>5

LEMMA JobEnds ==
    ASSUME Alone, NEW j \in jobs, jobs' = jobs \ {j}, UNCHANGED <<table, overlap>>,
           told' # "fine" \/ (Located(j) /\ Says(desired'.location, j.place))
    PROVE  Alone' /\ Agreed'
<1>1. Alone'
  BY DEF Alone, Located
<1>2. Agreed'
  <2>1. CASE told' # "fine"
    BY <2>1 DEF Agreed
  <2>2. CASE Located(j) /\ Says(desired'.location, j.place)
    <3>1. ~overlap => j.place = table
      BY <2>2 DEF Alone
    <3> QED
      BY <2>2, <3>1 DEF Agreed, Says
  <2> QED
    BY <2>1, <2>2
<1> QED
  BY <1>1, <1>2

LEMMA CheckLocationKeeps ==
    ASSUME Types, Alone, Agreed, NEW j \in jobs, CheckLocation(j)
    PROVE  Alone' /\ Agreed'
<1>1. j.do = "check" /\ UNCHANGED <<desired, table, overlap>>
  BY DEF CheckLocation, observed
<1>2. CASE UnitSupportsLocation(reported.fw)
  <2> DEFINE new == [j EXCEPT !.do = "sync"]
  <2>1. jobs' = (jobs \ {j}) \union {new} /\ told' = told
    BY <1>2 DEF CheckLocation
  <2>2. new.do = "sync" /\ new.place = j.place
    BY DEF Types, Jobs
  <2> HIDE DEF new
  <2>3. Located(j) /\ Located(new) /\ new \in jobs'
    BY <1>1, <2>1, <2>2 DEF Located
  <2>4. Alone'
    <3> SUFFICES ASSUME ~overlap, NEW x \in jobs', Located(x)
                 PROVE  x.place = table /\ \A i \in jobs' : Located(i) => i = x
      BY <1>1 DEF Alone, Located
    <3>1. j.place = table /\ \A i \in jobs : Located(i) => i = j
      BY <2>3 DEF Alone
    <3>2. \A i \in jobs' : Located(i) => i = new
      BY <2>1, <3>1
    <3> QED
      BY <2>2, <3>1, <3>2
  <2>5. Agreed'
    BY <2>3 DEF Agreed, Located
  <2> QED
    BY <2>4, <2>5
<1>3. CASE ~UnitSupportsLocation(reported.fw)
  <2>1. jobs' = jobs \ {j} /\ told' # "fine"
    BY <1>3 DEF CheckLocation, Reply
  <2> QED
    BY <1>1, <2>1, JobEnds
<1> QED
  BY <1>2, <1>3

LEMMA ChangeSlotKeeps ==
    ASSUME Types, Alone, Agreed, ChangeSlot, UNCHANGED <<desired, table, overlap, told>>
    PROVE  Alone' /\ Agreed'
<1>0. ASSUME NEW j \in jobs
      PROVE  LET x == [j EXCEPT !.stale = j.do = "reboot"] IN x.do = j.do /\ x.place = j.place
  <2>1. j \in Jobs
    BY DEF Types
  <2> QED
    BY <2>1 DEF Jobs
<1>1. \A x \in jobs' : \E j \in jobs :
          x = [j EXCEPT !.stale = j.do = "reboot"] /\ x.do = j.do /\ x.place = j.place
  BY <1>0 DEF ChangeSlot
<1>2. \A j \in jobs : \E x \in jobs' : x.do = j.do
  BY <1>0 DEF ChangeSlot
<1>3. Alone'
  <2> SUFFICES ASSUME ~overlap, NEW x \in jobs', Located(x)
               PROVE  x.place = table /\ \A y \in jobs' : Located(y) => y = x
    BY DEF Alone, Located
  <2>1. PICK j \in jobs :
            x = [j EXCEPT !.stale = j.do = "reboot"] /\ x.do = j.do /\ x.place = j.place
    BY <1>1
  <2>2. Located(j)
    BY <2>1 DEF Located
  <2>3. j.place = table /\ \A i \in jobs : Located(i) => i = j
    BY <2>2 DEF Alone
  <2>4. ASSUME NEW y \in jobs', Located(y)
        PROVE  y = x
    <3>1. PICK i \in jobs : y = [i EXCEPT !.stale = i.do = "reboot"] /\ y.do = i.do
      BY <1>1
    <3>2. Located(i)
      BY <2>4, <3>1 DEF Located
    <3>3. i = j
      BY <2>3, <3>2
    <3> QED
      BY <2>1, <3>1, <3>3, Zenon
  <2> QED
    BY <2>1, <2>3, <2>4
<1>4. Agreed'
  BY <1>2 DEF Agreed, Located
<1> QED
  BY <1>3, <1>4

LEMMA TableInductive ==
    ASSUME Types, Alone, Agreed, [Next]_vars
    PROVE  Alone' /\ Agreed'
<1>1. ASSUME NEW r \in Roles, CheckReboot(r)
      PROVE  Alone' /\ Agreed'
  <2> DEFINE new == [do |-> "reboot", place |-> "none", stale |-> reported.fw # Running]
  <2>1. jobs' = jobs \union {new} /\ UNCHANGED <<desired, table, overlap, told>>
    BY <1>1 DEF CheckReboot, dashboard, observed
  <2>2. new.do = "reboot"
    OBVIOUS
  <2> HIDE DEF new
  <2> QED
    BY <2>1, <2>2, TableKept DEF Located
<1>2. ASSUME NEW r \in Roles, ClearLocation(r)
      PROVE  Alone' /\ Agreed'
  BY <1>2, TableWrittenKeeps DEF ClearLocation, Sites
<1>3. ASSUME NEW r \in Roles, NEW p \in Places, SetLocation(r, p)
      PROVE  Alone' /\ Agreed'
  BY <1>3, TableWrittenKeeps DEF SetLocation, Sites
<1>4. ASSUME NEW r \in Roles, NEW v \in Versions, Push(r, v)
      PROVE  Alone' /\ Agreed'
  <2>1. desired'.location = desired.location /\ UNCHANGED <<jobs, table, overlap, told>>
    BY <1>4 DEF Push, Update, Types, Wants, dashboard, observed
  <2> QED
    BY <2>1, TableKept
<1>5. ASSUME NEW j \in jobs, RequestReboot(j)
      PROVE  Alone' /\ Agreed'
  <2>1. /\ desired'.location = desired.location /\ UNCHANGED <<table, overlap, told>>
        /\ jobs' = jobs \ {j} /\ ~Located(j)
    BY <1>5 DEF RequestReboot, Update, Types, Wants, Located, dashboard
  <2> QED
    BY <2>1, TableKept
<1>6. ASSUME NEW j \in jobs, SyncLocation(j)
      PROVE  Alone' /\ Agreed'
  <2>1. Says(desired'.location, j.place)
    BY <1>6, SyncLocationProperties
  <2>2. Located(j) /\ jobs' = jobs \ {j} /\ UNCHANGED <<table, overlap>>
    BY <1>6 DEF SyncLocation, Located, observed
  <2> QED
    BY <2>1, <2>2, JobEnds
<1>7. ASSUME NEW j \in jobs, FailJob(j)
      PROVE  Alone' /\ Agreed'
  <2>1. jobs' = jobs \ {j} /\ UNCHANGED <<desired, table, overlap>>
    BY <1>7 DEF FailJob, observed
  <2>2. CASE j.do = "reboot"
    <3>1. told' = told /\ ~Located(j)
      BY <1>7, <2>2 DEF FailJob, Located
    <3> QED
      BY <2>1, <3>1, TableKept
  <2>3. CASE j.do # "reboot"
    <3>1. told' # "fine"
      BY <1>7, <2>3 DEF FailJob, Reply
    <3> QED
      BY <2>1, <3>1, JobEnds
  <2> QED
    BY <2>2, <2>3
<1>8. CASE ShadowTakes
  <2>1. desired'.location = desired.location
    BY <1>8, ShadowTakesProperties, AbsorbProperties
  <2> QED
    BY <1>8, <2>1, TableKept DEF ShadowTakes, dashboard, observed
<1>9. CASE Disconnect
  <2>1. desired'.location = desired.location
    <3>1. CASE UNCHANGED desired
      BY <3>1
    <3>2. CASE up # <<>> /\ Absorb(Head(up))
      <4>1. Head(up) \in Gets \union Reports
        BY <3>2, HeadTailProperties DEF Types
      <4> QED
        BY <3>2, <4>1, AbsorbProperties
    <3> QED
      BY <1>9, <3>1, <3>2 DEF Disconnect
  <2> QED
    BY <1>9, <2>1, TableKept DEF Disconnect, dashboard, observed
<1>10. CASE PollShadow \/ Connect
  BY <1>10, TableKept DEF PollShadow, Connect, cloud, dashboard, observed
<1>11. CASE (\E m \in down : Deliver(m)) \/ Guard \/ HandOver \/ OtaTrigger \/ Report
  BY <1>11, TableKept DEF Deliver, Guard, HandOver, OtaTrigger, Report, cloud, dashboard, observed
<1>12. CASE TakeRequest \/ InstallFails \/ Confirm \/ ColdReset \/ PowerCut
  BY <1>12, TableKept DEF TakeRequest, InstallFails, Confirm, ColdReset, PowerCut, cloud, dashboard,
     observed
<1>13. CASE Install \/ RollBack
  BY <1>13, ChangeSlotKeeps DEF Install, RollBack, dashboard
<1>14. CASE UNCHANGED vars
  BY <1>14, TableKept DEF vars, cloud, dashboard, observed
<1> QED
  BY <1>1, <1>2, <1>3, <1>4, <1>5, <1>6, <1>7, <1>8, <1>9, <1>10, <1>11, <1>12, <1>13, <1>14,
     CheckLocationKeeps DEF Next

LEMMA LocationInductive == Spec => []LInv
<1>1. Init => LInv
  <2> SUFFICES ASSUME Init
               PROVE  LInv
    OBVIOUS
  <2>1. Types
    BY StartsRight
  <2>2. /\ desired.location = NoKeys /\ reported.location = NoKeys /\ known = NoKeys
        /\ table = "none" /\ stored = "none" /\ jobs = {} /\ down = {} /\ up = <<>>
    BY DEF Init
  <2>3. DOMAIN NoKeys = {} /\ DOMAIN up = {}
    <3>1. DOMAIN up = 1 .. Len(up) /\ Len(up) = 0
      BY <2>1, <2>2, LenProperties, EmptySeq DEF Types
    <3> QED
      BY <3>1, NoKeysProperties
  <2>4. Wire
    BY <2>2, <2>3 DEF Wire, Grown, Echoed, Within, Filed, InHand
  <2>5. Alone /\ Agreed
    BY <2>2, <2>3 DEF Alone, Agreed, Says
  <2> QED
    BY <2>1, <2>4, <2>5 DEF LInv
<1>2. LInv /\ [Next]_vars => LInv'
  BY TypesKept, WireInductive, TableInductive DEF LInv
<1> QED
  BY <1>1, <1>2, PTL DEF Spec

(* When nothing is on its way any more, the forecast on the unit is for    *)
(* the place the fleet map shows, or the operator was told, or the place   *)
(* was cleared in vain or written twice at a time, or the unit could not   *)
(* store it: through every loss and repeat of messages, every restart and  *)
(* every change of slot (api.js:776-817, shadow.c:162-195).                *)
THEOREM ForecastFollowsMap == Spec => []LocationAgrees
<1>1. LInv => LocationAgrees
  <2> SUFFICES ASSUME LInv, Quiet, told = "fine", ~overlap, ~misfiled
               PROVE  table = stored
    BY DEF LocationAgrees, LInv, Types
  <2>1. Says(desired.location, table)
    BY DEF LInv, Agreed, Quiet
  <2>2. DOMAIN up = {}
    <3>1. DOMAIN up = 1 .. Len(up) /\ Len(up) = 0
      BY LenProperties, EmptySeq DEF Quiet, LInv, Types
    <3> QED
      BY <3>1
  <2>3. \A k \in DOMAIN desired.location : k \in DOMAIN known /\ known[k] = desired.location[k]
    BY <2>2 DEF LInv, Wire, InHand, Covered, HasReport, Quiet
  <2>4. CASE table = "none"
    <3>1. CASE "assigned" \in DOMAIN desired.location
      <4>1. "assigned" \in DOMAIN known /\ ~known.assigned
        BY <2>1, <2>3, <2>4, <3>1 DEF Says
      <4> QED
        BY <2>4, <4>1 DEF LInv, Wire, Filed
    <3>2. CASE "assigned" \notin DOMAIN desired.location
      BY <2>4, <3>2 DEF LInv, Wire, Grown
    <3> QED
      BY <3>1, <3>2
  <2>5. CASE table # "none"
    <3>1. /\ "assigned" \in DOMAIN known /\ known.assigned
          /\ "place" \in DOMAIN known /\ known.place = table
      BY <2>1, <2>3, <2>5 DEF Says
    <3> QED
      BY <3>1 DEF LInv, Wire, Filed
  <2> QED
    BY <2>4, <2>5
<1> QED
  BY <1>1, LocationInductive, PTL
=============================================================================
