-------------------------- MODULE FleetViewsProofs --------------------------
(***************************************************************************)
(* Theorems about FleetViews, for every finite fleet, all situations of    *)
(* its units, every order of the ranges and every bound.                   *)
(***************************************************************************)
EXTENDS FleetViews, FiniteSetTheorems, SequenceTheorems, TLAPS

-----------------------------------------------------------------------------
(* The inductive invariant.                                                *)

(* What a unit has sent, or will send when it is connected.                *)
Heard(u) == rows[u] \cup backlog[u].rows
Said(u) == events[u] \cup backlog[u].events

EventType == [ts : Nat, code : 0 .. NoReply, state : {"cleared", "standby", "active"}]

UnitTypeOK ==
    /\ now \in Nat \ {0} /\ net \subseteq Units
    /\ at \in [Units -> Conditions \cup {Silent, Off}] /\ hrs \in [Units -> Nat]
    /\ last \in [Units -> 0 .. NoReply] /\ since \in [Units -> Nat \cup {Null}]
    /\ was \in [Units -> Seq(Conditions \cup {Silent, Off})]
    /\ \A u \in Units : Len(was[u]) = now
CloudTypeOK ==
    /\ rows \in [Units -> SUBSET RowType] /\ events \in [Units -> SUBSET EventType]
    /\ link \in [Units -> LinkType \cup {Null}]
    /\ backlog \in [Units -> [rows : SUBSET RowType, events : SUBSET EventType]]
    /\ \A u \in Units : IsFiniteSet(Heard(u)) /\ IsFiniteSet(Said(u))
PageTypeOK ==
    /\ cache \in [Units -> [pending : BOOLEAN, known : BOOLEAN, tele : TeleType \cup {Null}]]
    /\ sel \in Units /\ list \subseteq Units /\ posting \in Units \cup {Null}
    /\ {loading, failed, raced} \subseteq BOOLEAN
    /\ IF page = "dashboard" THEN reqs = {} /\ shown = Null ELSE page \in Pages /\ key \in KeyType
    /\ \A r \in reqs : r.key \in KeyType

(* A row is what was the case then, a link report a silence of then.       *)
RowTrue(u, r) ==
    r.ts \in 1 .. now /\ was[u][r.ts] \in Conditions /\ r = Row(r.ts, was[u][r.ts], r.hrs)
LinkTrue(u, l) == l # Null => l.hb \in 1 .. now /\ (l.apu = "down" => was[u][l.hb] = Silent)
RowsTrue ==
    \A u \in Units :
        /\ \A r \in Heard(u) : RowTrue(u, r)
        /\ LinkTrue(u, link[u])
CardsTrue ==
    \A u \in Units : cache[u].tele # Null =>
        /\ cache[u].tele.row # Null => RowTrue(u, cache[u].tele.row)
        /\ LinkTrue(u, cache[u].tele.link)

(* The code that the events S leave standing at time t.                    *)
Standing(S, t, code) ==
    \/ code = 0 /\ \A e \in S : e.ts > t
    \/ \E e \in S : e.ts <= t /\ e.code = code /\ \A f \in S : f.ts <= t => f.ts <= e.ts

(* The events of a unit tell the code of each row, and the one it sent     *)
(* last; between two rows only a silence that lasted is an event.          *)
EventsTell ==
    \A u \in Units :
        /\ \A e \in Said(u) : e.ts <= now /\ (e.state = "active" <=> e.code \notin {0, STANDBY})
        /\ \A e, f \in Said(u) : e.ts = f.ts => e = f
        /\ Standing(Said(u), now, last[u])
        /\ \A r \in Heard(u) : Standing(Said(u), r.ts, r.err)
SilenceTold ==
    \A u \in Units :
        /\ since[u] # Null => since[u] <= now /\ \A r \in Heard(u) : r.ts < since[u]
        /\ \A r \in Heard(u), e \in Said(u) : r.ts < e.ts =>
               \/ \E q \in Heard(u) : r.ts < q.ts /\ q.ts <= e.ts
               \/ e.code = NoReply /\ e.ts - r.ts > Fresh

(* A page that drops old answers has none in flight and shows none; of the *)
(* others, the answer to another selection is one of a race, and no answer *)
(* is a fetch that is on or has failed.                                    *)
PagesTell ==
    /\ posting # Null => page = "maintenance"
    /\ ~TakesAny(page) => /\ \A r \in reqs : r.key = key
                          /\ shown # Null => shown.key = key
    /\ shown # Null /\ shown.key # key => loading \/ raced \/ failed
    /\ page \notin {"dashboard", "alerts"} /\ shown = Null => loading \/ raced \/ failed
    /\ page = "alerts" => /\ key.units \subseteq Units
                          /\ shown # Null => DOMAIN shown.content.faults \subseteq Units

FleetInv ==
    /\ UnitTypeOK /\ CloudTypeOK /\ PageTypeOK
    /\ RowsTrue /\ CardsTrue /\ EventsTell /\ SilenceTold /\ PagesTell

-----------------------------------------------------------------------------
(* Lemmas about the queries.                                               *)

(* Of rows no newer than n one is the newest.                              *)
LEMMA NewestExists ==
    ASSUME NEW n \in Nat, NEW S, S # {}, \A x \in S : x.ts \in 0 .. n
    PROVE  \E x \in S : \A y \in S : y.ts <= x.ts
<1> DEFINE T == {n - x.ts : x \in S}
           R == OpToRel(<, Nat)
<1>1. T \subseteq Nat /\ T # {}
  <2>1. \A x \in S : n - x.ts \in Nat
    OBVIOUS
  <2>2. PICK x \in S : TRUE
    OBVIOUS
  <2>3. n - x.ts \in T
    BY <2>2
  <2> QED
    BY <2>1, <2>3
<1>2. PICK t \in T : \A s \in T : <<s, t>> \notin R
  <2> HIDE DEF T, R
  <2>1. IsWellFoundedOn(R, Nat)
    BY NatLessThanWellFounded DEF R
  <2> QED
    BY <1>1, <2>1, WFMin
<1>3. \A s \in T : ~(s < t)
  BY <1>1, <1>2 DEF OpToRel
<1>4. PICK x \in S : t = n - x.ts
  BY <1>2
<1>5. \A y \in S : y.ts <= x.ts
  <2> TAKE y \in S
  <2>1. ~(n - y.ts < n - x.ts)
    BY <1>3, <1>4
  <2> QED
    BY <2>1
<1> QED
  BY <1>5

(* A query with a limit returns rows it was given, the newest among them.  *)
LEMMA NewestIn ==
    ASSUME NEW n \in Nat \ {0}, NEW S
    PROVE  /\ NewestOf(n, S) \subseteq S
           /\ \A x \in S : (\A y \in S : ~(y.ts > x.ts)) => x \in NewestOf(n, S)
<1>1. ASSUME NEW x \in S, \A y \in S : ~(y.ts > x.ts)
      PROVE  x \in NewestOf(n, S)
  <2>1. {y \in S : y.ts > x.ts} = {}
    BY <1>1
  <2>2. Cardinality({y \in S : y.ts > x.ts}) = 0
    BY <2>1, FS_EmptySet
  <2> QED
    BY <2>2 DEF NewestOf
<1> QED
  BY <1>1 DEF NewestOf

(* The query for one row returns the newest, all of them if several tie.   *)
LEMMA NewestOne ==
    ASSUME NEW S, IsFiniteSet(S), \A x \in S : x.ts \in Nat
    PROVE  NewestOf(1, S) = {x \in S : \A y \in S : y.ts <= x.ts}
<1>1. ASSUME NEW x \in S
      PROVE  Cardinality({y \in S : y.ts > x.ts}) < 1 <=> \A y \in S : y.ts <= x.ts
  <2> DEFINE newer == {y \in S : y.ts > x.ts}
  <2>1. IsFiniteSet(newer)
    BY FS_Subset
  <2>2. Cardinality(newer) \in Nat /\ (Cardinality(newer) = 0 <=> newer = {})
    <3> HIDE DEF newer
    <3> QED
      BY <2>1, FS_CardinalityType, FS_EmptySet
  <2>3. newer = {} <=> \A y \in S : y.ts <= x.ts
    OBVIOUS
  <2> HIDE DEF newer
  <2>4. Cardinality(newer) < 1 <=> Cardinality(newer) = 0
    BY <2>2
  <2>5. Cardinality(newer) < 1 <=> \A y \in S : y.ts <= x.ts
    BY <2>2, <2>3, <2>4
  <2> QED
    BY <2>5 DEF newer
<1> QED
  BY <1>1 DEF NewestOf

(* The tail of every series, then sort and limit over the merged table, is *)
(* sort and limit over all rows: a row that some series cut off has as     *)
(* many newer rows of that series in the table: "tail(n) per series is     *)
(* exact" (flux.js:37-38).                                                 *)
LEMMA SeriesTail ==
    ASSUME NEW n \in Nat, NEW k \in Nat, NEW S, IsFiniteSet(S), \A x \in S : x.ts \in 0 .. n
    PROVE  NewestOf(k, UNION {NewestOf(k, s) : s \in Series(S)}) = NewestOf(k, S)
<1> DEFINE U == UNION {NewestOf(k, s) : s \in Series(S)}
           series(x) == {r \in S : Tags(r) = Tags(x)}
           newer(T, x) == {y \in T : y.ts > x.ts}
<1>1. U \subseteq S /\ \A x \in S : x \in U <=> Cardinality(newer(series(x), x)) < k
  <2>1. \A s \in Series(S) : s \subseteq S /\ \A x \in s : s = series(x)
    BY DEF Series
  <2>2. \A x \in S : series(x) \in Series(S) /\ x \in series(x)
    BY DEF Series
  <2>3. \A s : NewestOf(k, s) = {x \in s : Cardinality(newer(s, x)) < k}
    BY DEF NewestOf
  <2> HIDE DEF newer, series
  <2> QED
    BY <2>1, <2>2, <2>3
<1>2. ASSUME NEW T \in SUBSET S, NEW V \in SUBSET S, NEW x, NEW y, newer(T, x) \subseteq newer(V, y)
      PROVE  /\ Cardinality(newer(T, x)) \in Nat /\ Cardinality(newer(V, y)) \in Nat
             /\ Cardinality(newer(T, x)) <= Cardinality(newer(V, y))
  <2>1. newer(V, y) \subseteq S /\ newer(T, x) \subseteq S
    OBVIOUS
  <2> HIDE DEF newer
  <2>2. IsFiniteSet(newer(V, y)) /\ IsFiniteSet(newer(T, x))
    BY <2>1, FS_Subset
  <2> QED
    BY <1>2, <2>2, FS_Subset, FS_CardinalityType
<1>3. \A x : series(x) \in SUBSET S
  OBVIOUS
<1>4. ASSUME NEW x \in S, Cardinality(newer(S, x)) < k
      PROVE  x \in U /\ Cardinality(newer(U, x)) < k
  <2>1. newer(series(x), x) \subseteq newer(S, x)
    OBVIOUS
  <2>2. newer(U, x) \subseteq newer(S, x)
    BY <1>1
  <2> HIDE DEF U, newer, series
  <2>3. Cardinality(newer(series(x), x)) < k
    BY <1>2, <1>3, <1>4, <2>1
  <2>4. Cardinality(newer(U, x)) < k
    BY <1>1, <1>2, <1>4, <2>2
  <2> QED
    BY <1>1, <2>3, <2>4
<1>5. ASSUME NEW x \in U, Cardinality(newer(U, x)) < k
      PROVE  Cardinality(newer(S, x)) < k
  <2> HIDE DEF U
  <2> DEFINE D == newer(S, x) \ U
  <2>1. x \in S /\ D \subseteq S
    BY <1>1
  <2>2. ASSUME D # {} PROVE FALSE
    <3>1. PICK y \in D : \A z \in D : z.ts <= y.ts
      <4>1. \A z \in D : z.ts \in 0 .. n
        BY <2>1
      <4> HIDE DEF D
      <4> QED
        BY <2>2, <4>1, NewestExists
    <3>2. y \in S /\ y.ts > x.ts /\ y \notin U
      BY <3>1
    <3>3. newer(series(y), y) \subseteq newer(U, x)
      <4> SUFFICES ASSUME NEW z \in S, z.ts > y.ts PROVE z \in U /\ z.ts > x.ts
        OBVIOUS
      <4>1. z.ts \in Nat /\ y.ts \in Nat /\ x.ts \in Nat
        BY <2>1, <3>2
      <4>2. z.ts > x.ts
        BY <3>2, <4>1
      <4>3. z \notin D
        BY <3>1, <4>1
      <4> QED
        BY <4>2, <4>3
    <3> HIDE DEF newer, series
    <3> QED
      BY <1>1, <1>2, <1>3, <1>5, <3>2, <3>3
  <2>3. newer(S, x) = newer(U, x)
    BY <1>1, <2>2
  <2> QED
    BY <1>5, <2>3
<1>6. NewestOf(k, U) = {x \in U : Cardinality(newer(U, x)) < k}
  BY DEF NewestOf
<1>7. NewestOf(k, S) = {x \in S : Cardinality(newer(S, x)) < k}
  BY DEF NewestOf
<1> HIDE DEF U, newer
<1> QED
  BY <1>1, <1>4, <1>5, <1>6, <1>7 DEF U

(* GET /latest returns a row of the last day, and one at least as new as   *)
(* any row of it, whatever series the tags make (flux.js:latestFlux).      *)
LEMMA LatestRow ==
    ASSUME NEW n \in Nat, NEW R, IsFiniteSet(R), \A r \in R : r.ts \in 0 .. n
    PROVE  /\ LatestFlux(R, n) \subseteq R
           /\ \A r \in R : n - r.ts <= Day =>
                  LatestFlux(R, n) # {} /\ \A x \in LatestFlux(R, n) : r.ts <= x.ts
<1> DEFINE in == InRange(R, n, Day)
<1>1. in \subseteq R /\ \A r \in R : n - r.ts <= Day => r \in in
  BY DEF InRange
<1>2. LatestFlux(R, n) = NewestOf(1, UNION {NewestOf(1, s) : s \in Series(in)})
  BY DEF LatestFlux
<1> HIDE DEF in
<1>3. IsFiniteSet(in) /\ \A r \in in : r.ts \in 0 .. n
  BY <1>1, FS_Subset
<1>4. LatestFlux(R, n) = {x \in in : \A y \in in : y.ts <= x.ts}
  BY <1>2, <1>3, SeriesTail, NewestOne
<1>5. in # {} => \E x \in in : \A y \in in : y.ts <= x.ts
  BY <1>3, NewestExists
<1> QED
  BY <1>1, <1>4, <1>5

(* Of the newest hundred events of a week, the newest is that of all, when *)
(* it is no older than a week (flux.js:faultsFlux, contract.js:335-342).   *)
LEMMA NewestEvent ==
    ASSUME NEW n \in Nat, NEW E, IsFiniteSet(E), \A e \in E : e.ts \in 0 .. n
    PROVE  NewestOf(1, FaultsFlux(E, n, Week, 100)) = {e \in NewestOf(1, E) : n - e.ts <= Week}
<1> DEFINE G == InRange(E, n, Week)
           F == FaultsFlux(E, n, Week, 100)
<1>1. /\ G = {e \in E : n - e.ts <= Week}
      /\ F \subseteq G
      /\ \A x \in G : (\A y \in G : ~(y.ts > x.ts)) => x \in F
  <2>1. F = NewestOf(100, G)
    BY DEF FaultsFlux
  <2> HIDE DEF F
  <2>2. G = {e \in E : n - e.ts <= Week}
    BY DEF InRange
  <2> HIDE DEF G
  <2> QED
    BY <2>1, <2>2, NewestIn
<1> HIDE DEF F, G
<1>2. IsFiniteSet(F) /\ F \subseteq E /\ \A e \in F : e.ts \in 0 .. n
  BY <1>1, FS_Subset
<1>3. NewestOf(1, F) = {x \in F : \A y \in F : y.ts <= x.ts}
  BY <1>2, NewestOne
<1>4. NewestOf(1, E) = {x \in E : \A y \in E : y.ts <= x.ts}
  BY NewestOne
<1>5. ASSUME NEW e \in E, n - e.ts <= Week, \A y \in E : y.ts <= e.ts
      PROVE  e \in F /\ \A y \in F : y.ts <= e.ts
  <2>1. e \in G /\ \A y \in G : ~(y.ts > e.ts)
    BY <1>1, <1>5
  <2> QED
    BY <1>1, <1>2, <1>5, <2>1
<1>6. ASSUME NEW e \in F, \A y \in F : y.ts <= e.ts, NEW y \in E
      PROVE  y.ts <= e.ts /\ n - e.ts <= Week
  <2>1. e \in G /\ e \in E /\ n - e.ts <= Week /\ e.ts \in 0 .. n /\ y.ts \in 0 .. n
    BY <1>1, <1>2
  <2>2. SUFFICES ASSUME y.ts > e.ts PROVE FALSE
    BY <2>1
  <2>3. y \in G
    BY <1>1, <2>1, <2>2, ViewsAssumption
  <2>4. PICK m \in G : \A x \in G : x.ts <= m.ts
    BY <1>1, <2>3, NewestExists
  <2>5. m.ts \in 0 .. n
    BY <1>1
  <2>6. m \in F
    BY <1>1, <2>4
  <2> QED
    BY <1>6, <2>1, <2>2, <2>3, <2>4, <2>5, <2>6
<1>7. ASSUME NEW e \in NewestOf(1, F)
      PROVE  e \in NewestOf(1, E) /\ n - e.ts <= Week
  <2>1. e \in F /\ e \in E /\ \A y \in F : y.ts <= e.ts
    BY <1>2, <1>3
  <2>2. (\A y \in E : y.ts <= e.ts) /\ n - e.ts <= Week
    BY <1>6, <2>1
  <2> QED
    BY <1>4, <2>1, <2>2
<1>8. ASSUME NEW e \in NewestOf(1, E), n - e.ts <= Week
      PROVE  e \in NewestOf(1, F)
  BY <1>3, <1>4, <1>5, <1>8
<1> QED
  BY <1>7, <1>8 DEF F

-----------------------------------------------------------------------------
(* Lemmas about the events that stand.                                     *)

(* What stands at a time is not changed by later events.                   *)
LEMMA StandingStays ==
    ASSUME NEW S, NEW N, NEW t, NEW c, Standing(S, t, c),
           \A e \in N : ~(e.ts <= t) /\ e.ts > t
    PROVE  Standing(S \cup N, t, c)
BY DEF Standing

(* A code that differs from the one that stands is an event, and the next  *)
(* to stand; the same code goes on standing.                               *)
LEMMA StandingNext ==
    ASSUME NEW S, NEW n \in Nat, NEW c, NEW old, Standing(S, n, old),
           \A e \in S : e.ts \in Nat /\ e.ts <= n
    PROVE  Standing(S \cup EventOf(n + 1, c, old), n + 1, c)
<1>1. CASE c = old
  BY <1>1 DEF Standing, EventOf
<1>2. CASE c # old
  <2> DEFINE s == CASE c = 0 -> "cleared" [] c = STANDBY -> "standby" [] OTHER -> "active"
             e == [ts |-> n + 1, code |-> c, state |-> s]
  <2>1. EventOf(n + 1, c, old) = {e}
    BY <1>2 DEF EventOf
  <2>2. e.ts = n + 1 /\ e.code = c
    OBVIOUS
  <2> HIDE DEF e
  <2> QED
    BY <2>1, <2>2 DEF Standing
<1> QED
  BY <1>1, <1>2

-----------------------------------------------------------------------------
(* The invariant holds initially.                                          *)

LEMMA EventProperties ==
    ASSUME NEW t \in Nat, NEW c \in 0 .. NoReply, NEW old
    PROVE  /\ EventOf(t, c, old) \in SUBSET EventType
           /\ IsFiniteSet(EventOf(t, c, old))
           /\ \A e \in EventOf(t, c, old) :
                  /\ e.ts = t /\ e.code = c /\ c # old
                  /\ e.state = "active" <=> c \notin {0, STANDBY}
           /\ \A e, f \in EventOf(t, c, old) : e = f
<1>1. CASE c = old
  BY <1>1, FS_EmptySet DEF EventOf
<1>2. CASE c # old
  <2> DEFINE s == CASE c = 0 -> "cleared" [] c = STANDBY -> "standby" [] OTHER -> "active"
  <2>1. s \in {"cleared", "standby", "active"} /\ (s = "active" <=> c \notin {0, STANDBY})
    BY DEF STANDBY
  <2>2. EventOf(t, c, old) = {[ts |-> t, code |-> c, state |-> s]}
    BY <1>2 DEF EventOf
  <2> HIDE DEF s
  <2>3. IsFiniteSet(EventOf(t, c, old))
    BY <2>2, FS_Singleton
  <2> QED
    BY <1>2, <2>1, <2>2, <2>3 DEF EventType
<1> QED
  BY <1>1, <1>2

LEMMA RowProperties ==
    ASSUME NEW t \in Nat, NEW c \in Conditions, NEW h \in Nat
    PROVE  /\ Row(t, c, h) \in RowType
           /\ Row(t, c, h).ts = t /\ Row(t, c, h).err = c.err /\ Row(t, c, h).hrs = h
BY DEF Row, RowType, Conditions

LEMMA FleetInitial == Init => FleetInv
<1> SUFFICES ASSUME Init PROVE FleetInv
  OBVIOUS
<1>1. ASSUME NEW u \in Units
      PROVE  /\ at[u] \in Conditions /\ was[u] = <<at[u]>>
             /\ was[u] \in Seq(Conditions \cup {Silent, Off}) /\ Len(was[u]) = 1
             /\ hrs[u] = 0 /\ since[u] = Null /\ last[u] = at[u].err /\ at[u].err \in 0 .. 255
  BY FleetAssumption DEF Init, Conditions
<1>2. ASSUME NEW u \in Units
      PROVE  /\ backlog[u] = Empty
             /\ rows[u] = {Row(1, at[u], 0)} /\ Heard(u) = {Row(1, at[u], 0)}
             /\ events[u] = EventOf(1, at[u].err, 0) /\ Said(u) = EventOf(1, at[u].err, 0)
  BY DEF Init, Heard, Said, Empty
<1>3. now = 1 /\ at \in [Units -> Conditions \cup {Silent, Off}]
  <2>1. at = [u \in Units |-> at[u]]
    BY DEF Init
  <2>2. \A u \in Units : at[u] \in Conditions
    BY <1>1
  <2> QED
    BY <2>1, <2>2 DEF Init
<1>4. UnitTypeOK
  <2>1. last \in [Units -> 0 .. NoReply]
    BY <1>1 DEF Init, NoReply
  <2>2. was \in [Units -> Seq(Conditions \cup {Silent, Off})] /\ \A u \in Units : Len(was[u]) = now
    BY <1>1, <1>3 DEF Init
  <2> QED
    BY <1>3, <2>1, <2>2, FleetAssumption DEF Init, UnitTypeOK
<1>5. CloudTypeOK
  <2>1. ASSUME NEW u \in Units
        PROVE  /\ rows[u] \in SUBSET RowType /\ IsFiniteSet(Heard(u))
               /\ events[u] \in SUBSET EventType /\ IsFiniteSet(Said(u))
               /\ backlog[u] \in [rows : SUBSET RowType, events : SUBSET EventType]
               /\ link[u] \in LinkType \cup {Null}
    <3>1. Row(1, at[u], 0) \in RowType
      BY <1>1, RowProperties
    <3>2. EventOf(1, at[u].err, 0) \in SUBSET EventType /\ IsFiniteSet(EventOf(1, at[u].err, 0))
      <4>1. at[u].err \in 0 .. NoReply
        BY <1>1 DEF NoReply
      <4> QED
        BY <4>1, EventProperties
    <3>3. link[u] \in LinkType \cup {Null}
      BY DEF Init, Link, LinkType
    <3>4. backlog[u] \in [rows : SUBSET RowType, events : SUBSET EventType]
      BY <1>2 DEF Empty
    <3>5. IsFiniteSet(Heard(u))
      BY <1>2, FS_Singleton
    <3> QED
      BY <1>2, <3>1, <3>2, <3>3, <3>4, <3>5
  <2>2. /\ rows = [u \in Units |-> rows[u]] /\ events = [u \in Units |-> events[u]]
        /\ backlog = [u \in Units |-> backlog[u]] /\ link = [u \in Units |-> link[u]]
    BY DEF Init
  <2>3. /\ rows \in [Units -> SUBSET RowType] /\ events \in [Units -> SUBSET EventType]
        /\ backlog \in [Units -> [rows : SUBSET RowType, events : SUBSET EventType]]
        /\ link \in [Units -> LinkType \cup {Null}]
    BY <2>1, <2>2
  <2> QED
    BY <2>1, <2>3 DEF CloudTypeOK
<1>6. PageTypeOK
  <2>1. sel \in Units /\ list \subseteq Units
    BY FleetAssumption DEF Init
  <2>2. cache \in [Units -> [pending : BOOLEAN, known : BOOLEAN, tele : TeleType \cup {Null}]]
    BY DEF Init
  <2> QED
    BY <2>1, <2>2 DEF Init, PageTypeOK
<1>7. RowsTrue
  <2> SUFFICES ASSUME NEW u \in Units
               PROVE  (\A r \in Heard(u) : RowTrue(u, r)) /\ LinkTrue(u, link[u])
    BY DEF RowsTrue
  <2>1. RowTrue(u, Row(1, at[u], 0))
    <3>1. Row(1, at[u], 0).ts = 1 /\ Row(1, at[u], 0).hrs = 0
      BY DEF Row
    <3>2. was[u][1] = at[u]
      BY <1>1
    <3> QED
      BY <1>1, <1>3, <3>1, <3>2 DEF RowTrue
  <2>2. LinkTrue(u, link[u])
    BY <1>3 DEF Init, Link, LinkTrue
  <2> QED
    BY <1>2, <2>1, <2>2
<1>8. CardsTrue
  BY DEF Init, CardsTrue
<1>9. EventsTell
  <2> SUFFICES ASSUME NEW u \in Units
               PROVE  /\ \A e \in Said(u) : e.ts <= now /\ (e.state = "active" <=> e.code \notin {0, STANDBY})
                      /\ \A e, f \in Said(u) : e.ts = f.ts => e = f
                      /\ Standing(Said(u), now, last[u])
                      /\ \A r \in Heard(u) : Standing(Said(u), r.ts, r.err)
    BY DEF EventsTell
  <2>1. Standing(Said(u), 1, at[u].err)
    <3>1. Standing({}, 0, 0)
      BY DEF Standing
    <3>2. Standing({} \cup EventOf(0 + 1, at[u].err, 0), 0 + 1, at[u].err)
      BY <3>1, StandingNext
    <3> QED
      BY <1>2, <3>2
  <2>2. at[u].err \in 0 .. NoReply
    BY <1>1 DEF NoReply
  <2>3. \A e \in Said(u) : e.ts = 1 /\ (e.state = "active" <=> e.code \notin {0, STANDBY})
    BY <1>2, <2>2, EventProperties
  <2>4. \A e, f \in Said(u) : e = f
    BY <1>2, <2>2, EventProperties
  <2>5. \A r \in Heard(u) : r.ts = 1 /\ r.err = at[u].err
    BY <1>2 DEF Row
  <2> QED
    BY <1>1, <1>3, <2>1, <2>3, <2>4, <2>5
<1>10. SilenceTold
  <2> SUFFICES ASSUME NEW u \in Units
               PROVE  /\ since[u] = Null
                      /\ \A r \in Heard(u), e \in Said(u) : ~(r.ts < e.ts)
    BY DEF SilenceTold
  <2>1. at[u].err \in 0 .. NoReply
    BY <1>1 DEF NoReply
  <2>2. \A e \in Said(u) : e.ts = 1
    BY <1>2, <2>1, EventProperties
  <2>3. \A r \in Heard(u) : r.ts = 1
    BY <1>2 DEF Row
  <2> QED
    BY <1>1, <2>2, <2>3
<1>11. PagesTell
  BY DEF Init, PagesTell, TakesAny
<1> QED
  BY <1>4, <1>5, <1>6, <1>7, <1>8, <1>9, <1>10, <1>11 DEF FleetInv

-----------------------------------------------------------------------------
(* Every action keeps the invariant: what the actions leave alone.         *)

LEMMA StoryUnchanged ==
    ASSUME RowsTrue, EventsTell, SilenceTold, UNCHANGED <<now, last, since, was, link>>,
           \A u \in Units : Heard(u)' = Heard(u) /\ Said(u)' = Said(u)
    PROVE  RowsTrue' /\ EventsTell' /\ SilenceTold'
<1>1. RowsTrue'
  BY DEF RowsTrue, RowTrue, LinkTrue
<1>2. EventsTell'
  BY DEF EventsTell
<1>3. SilenceTold'
  BY DEF SilenceTold
<1> QED
  BY <1>1, <1>2, <1>3

LEMMA CardsUnchanged ==
    ASSUME CardsTrue, UNCHANGED <<now, was, cache>>
    PROVE  CardsTrue'
BY DEF CardsTrue, RowTrue, LinkTrue

LEMMA PagesUnchanged ==
    ASSUME PageTypeOK, PagesTell, UNCHANGED <<cache, body>>
    PROVE  PageTypeOK' /\ PagesTell'
<1>1. PageTypeOK'
  BY DEF PageTypeOK, body
<1>2. PagesTell'
  BY DEF PagesTell, TakesAny, body
<1> QED
  BY <1>1, <1>2

LEMMA UnitsUnchanged ==
    ASSUME FleetInv, UNCHANGED <<device, cloud>>
    PROVE  /\ UnitTypeOK' /\ CloudTypeOK'
           /\ RowsTrue' /\ EventsTell' /\ SilenceTold'
<1> USE DEF FleetInv, device, cloud
<1>1. UnitTypeOK' /\ CloudTypeOK'
  BY DEF UnitTypeOK, CloudTypeOK, Heard, Said
<1>2. \A u \in Units : Heard(u)' = Heard(u) /\ Said(u)' = Said(u)
  BY DEF Heard, Said
<1> QED
  BY <1>1, <1>2, StoryUnchanged

-----------------------------------------------------------------------------
(* Every action keeps the invariant: the units.                            *)

LEMMA SituationKeeps == FleetInv /\ (Change \/ ResetHours \/ NetDown) => FleetInv'
<1> SUFFICES ASSUME FleetInv, Change \/ ResetHours \/ NetDown PROVE FleetInv'
  OBVIOUS
<1>1. UNCHANGED <<now, last, since, backlog, was, rows, events, link, cache, body>> /\ net' \subseteq net
  BY DEF Change, ResetHours, NetDown, cloud, cards
<1>2. \A u \in Units : Heard(u)' = Heard(u) /\ Said(u)' = Said(u)
  BY <1>1 DEF Heard, Said
<1>3. at' \in [Units -> Conditions \cup {Silent, Off}]
  <2>1. CASE at' = at
    BY <2>1 DEF FleetInv, UnitTypeOK
  <2>2. CASE Change
    BY <2>2, FleetAssumption DEF FleetInv, UnitTypeOK, Change
  <2> QED
    BY <2>1, <2>2 DEF ResetHours, NetDown
<1>4. hrs' \in [Units -> Nat]
  <2>1. CASE hrs' = hrs
    BY <2>1 DEF FleetInv, UnitTypeOK
  <2>2. CASE ResetHours
    <3>1. PICK u \in Units : hrs' = [hrs EXCEPT ![u] = 0]
      BY <2>2 DEF ResetHours
    <3>2. hrs \in [Units -> Nat]
      BY DEF FleetInv, UnitTypeOK
    <3> QED
      BY <3>1, <3>2
  <2> QED
    BY <2>1, <2>2 DEF Change, NetDown
<1>5. UnitTypeOK'
  BY <1>1, <1>3, <1>4 DEF FleetInv, UnitTypeOK
<1>6. CloudTypeOK'
  BY <1>1, <1>2 DEF FleetInv, CloudTypeOK
<1> QED
  BY <1>1, <1>2, <1>5, <1>6, StoryUnchanged, CardsUnchanged, PagesUnchanged DEF FleetInv

(* A batch moves from the buffer to the cloud.                             *)
LEMMA SentProperties ==
    ASSUME FleetInv, NEW u \in Units
    PROVE  /\ Sent(u).rows \subseteq backlog[u].rows /\ Sent(u).events \subseteq backlog[u].events
           /\ Unsent(u).rows = backlog[u].rows \ Sent(u).rows
           /\ Unsent(u).events = backlog[u].events \ Sent(u).events
           /\ Unsent(u) \in [rows : SUBSET RowType, events : SUBSET EventType]
           /\ rows[u] \in SUBSET RowType /\ events[u] \in SUBSET EventType
           /\ backlog[u].rows \in SUBSET RowType /\ backlog[u].events \in SUBSET EventType
<1>1. /\ Sent(u).rows \subseteq backlog[u].rows /\ Sent(u).events \subseteq backlog[u].events
  BY DEF Sent, OldestOf
<1>2. /\ rows[u] \in SUBSET RowType /\ events[u] \in SUBSET EventType
      /\ backlog[u].rows \in SUBSET RowType /\ backlog[u].events \in SUBSET EventType
  BY DEF FleetInv, CloudTypeOK
<1>3. Unsent(u) \in [rows : SUBSET RowType, events : SUBSET EventType]
  BY <1>2 DEF Unsent
<1> QED
  BY <1>1, <1>2, <1>3 DEF Unsent

LEMMA NetUpKeeps == FleetInv /\ NetUp => FleetInv'
<1> SUFFICES ASSUME FleetInv, NetUp PROVE FleetInv'
  OBVIOUS
<1>1. UNCHANGED <<now, at, hrs, last, since, was, link, cache, body>>
  BY DEF NetUp, cards
<1>2. PICK w \in Units \ net :
          /\ net' = net \cup {w}
          /\ rows' = [rows EXCEPT ![w] = @ \cup Sent(w).rows]
          /\ events' = [events EXCEPT ![w] = @ \cup Sent(w).events]
          /\ backlog' = [backlog EXCEPT ![w] = Unsent(w)]
  BY DEF NetUp
<1> DEFINE sent == Sent(w)
           rest == Unsent(w)
<1>3. /\ sent.rows \subseteq backlog[w].rows /\ sent.events \subseteq backlog[w].events
      /\ rest.rows = backlog[w].rows \ sent.rows /\ rest.events = backlog[w].events \ sent.events
      /\ rest \in [rows : SUBSET RowType, events : SUBSET EventType]
      /\ rows[w] \in SUBSET RowType /\ events[w] \in SUBSET EventType
      /\ backlog[w].rows \in SUBSET RowType /\ backlog[w].events \in SUBSET EventType
  BY SentProperties
<1>4. /\ rows' = [rows EXCEPT ![w] = @ \cup sent.rows]
      /\ events' = [events EXCEPT ![w] = @ \cup sent.events]
      /\ backlog' = [backlog EXCEPT ![w] = rest]
  BY <1>2
<1>5. /\ rows \in [Units -> SUBSET RowType] /\ events \in [Units -> SUBSET EventType]
      /\ backlog \in [Units -> [rows : SUBSET RowType, events : SUBSET EventType]]
  BY DEF FleetInv, CloudTypeOK
<1> HIDE DEF sent, rest
<1>6. /\ rows' \in [Units -> SUBSET RowType] /\ events' \in [Units -> SUBSET EventType]
      /\ backlog' \in [Units -> [rows : SUBSET RowType, events : SUBSET EventType]]
  <2>1. rows[w] \cup sent.rows \in SUBSET RowType /\ events[w] \cup sent.events \in SUBSET EventType
    BY <1>3
  <2> QED
    BY <1>3, <1>4, <1>5, <2>1
<1>7. /\ rows'[w] = rows[w] \cup sent.rows /\ events'[w] = events[w] \cup sent.events
      /\ backlog'[w] = rest
      /\ \A u \in Units \ {w} : rows'[u] = rows[u] /\ events'[u] = events[u] /\ backlog'[u] = backlog[u]
  BY <1>4, <1>5
<1>8. \A u \in Units : Heard(u)' = Heard(u) /\ Said(u)' = Said(u)
  <2>1. /\ rows'[w] \cup backlog'[w].rows = rows[w] \cup backlog[w].rows
        /\ events'[w] \cup backlog'[w].events = events[w] \cup backlog[w].events
    BY <1>3, <1>7
  <2> QED
    BY <1>7, <2>1 DEF Heard, Said
<1>9. UnitTypeOK'
  BY <1>1, <1>2 DEF FleetInv, UnitTypeOK
<1>10. CloudTypeOK'
  BY <1>1, <1>6, <1>8 DEF FleetInv, CloudTypeOK
<1> QED
  BY <1>1, <1>8, <1>9, <1>10, StoryUnchanged, CardsUnchanged, PagesUnchanged DEF FleetInv

(* What a cycle adds to one unit.                                          *)
LEMMA TickAdds ==
    ASSUME FleetInv, Tick, NEW u \in Units
    PROVE  /\ Heard(u)' = Heard(u) \cup NewRows(u, now')
           /\ Said(u)' = Said(u) \cup NewEvents(u, now')
<1>1. /\ rows'[u] = IF u \in net THEN rows[u] \cup NewRows(u, now') \cup Sent(u).rows ELSE rows[u]
      /\ events'[u] = IF u \in net THEN events[u] \cup NewEvents(u, now') \cup Sent(u).events
                      ELSE events[u]
      /\ backlog'[u] = IF u \in net THEN Unsent(u)
                       ELSE [rows |-> backlog[u].rows \cup NewRows(u, now'),
                             events |-> backlog[u].events \cup NewEvents(u, now')]
  BY DEF Tick
<1>2. /\ Sent(u).rows \subseteq backlog[u].rows /\ Sent(u).events \subseteq backlog[u].events
      /\ Unsent(u).rows = backlog[u].rows \ Sent(u).rows
      /\ Unsent(u).events = backlog[u].events \ Sent(u).events
  BY SentProperties
<1>3. Heard(u)' = rows'[u] \cup backlog'[u].rows /\ Said(u)' = events'[u] \cup backlog'[u].events
  BY DEF Heard, Said
<1>4. CASE u \in net
  <2>1. /\ rows'[u] = rows[u] \cup NewRows(u, now') \cup Sent(u).rows
        /\ events'[u] = events[u] \cup NewEvents(u, now') \cup Sent(u).events
        /\ backlog'[u].rows = backlog[u].rows \ Sent(u).rows
        /\ backlog'[u].events = backlog[u].events \ Sent(u).events
    BY <1>1, <1>2, <1>4
  <2> QED
    BY <1>2, <1>3, <2>1 DEF Heard, Said
<1>5. CASE u \notin net
  <2>1. /\ rows'[u] = rows[u] /\ backlog'[u].rows = backlog[u].rows \cup NewRows(u, now')
        /\ events'[u] = events[u] /\ backlog'[u].events = backlog[u].events \cup NewEvents(u, now')
    BY <1>1, <1>5
  <2> QED
    BY <1>3, <2>1 DEF Heard, Said
<1> QED
  BY <1>4, <1>5

LEMMA TickKnows ==
    ASSUME FleetInv, Tick, NEW u \in Units
    PROVE  /\ now' = now + 1 /\ now \in Nat \ {0}
           /\ was'[u] \in Seq(Conditions \cup {Silent, Off}) /\ Len(was'[u]) = now'
           /\ (\A t \in 1 .. now : was'[u][t] = was[u][t]) /\ was'[u][now'] = at[u]
           /\ last'[u] = Code(u, now') /\ last'[u] \in 0 .. NoReply
           /\ since'[u] = SilentSince(u, now') /\ since'[u] \in Nat \cup {Null}
           /\ hrs'[u] \in Nat
           /\ Answers(u) <=> at[u] \in Conditions
<1> USE DEF FleetInv, UnitTypeOK
<1>1. now' = now + 1 /\ now \in Nat \ {0}
  BY DEF Tick
<1>2. /\ last'[u] = Code(u, now') /\ since'[u] = SilentSince(u, now')
      /\ was'[u] = Append(was[u], at[u])
      /\ hrs'[u] = IF Answers(u) /\ at[u].on THEN hrs[u] + 1 ELSE hrs[u]
  BY DEF Tick
<1>3. Answers(u) <=> at[u] \in Conditions
  BY FleetAssumption DEF Answers
<1>4. Code(u, now') \in 0 .. NoReply
  BY <1>3 DEF Code, NoReply, Conditions
<1>5. SilentSince(u, now') \in Nat \cup {Null}
  BY <1>1 DEF SilentSince
<1>6. /\ was'[u] \in Seq(Conditions \cup {Silent, Off}) /\ Len(was'[u]) = now'
      /\ (\A t \in 1 .. now : was'[u][t] = was[u][t]) /\ was'[u][now'] = at[u]
  <2>1. was[u] \in Seq(Conditions \cup {Silent, Off}) /\ at[u] \in Conditions \cup {Silent, Off} /\ Len(was[u]) = now
    OBVIOUS
  <2> QED
    BY <1>1, <1>2, <2>1, AppendProperties
<1>7. hrs'[u] \in Nat
  BY <1>2
<1> QED
  BY <1>1, <1>2, <1>3, <1>4, <1>5, <1>6, <1>7

(* A cycle's row and event are of the time, the condition and the code.    *)
LEMMA TickNews ==
    ASSUME FleetInv, Tick, NEW u \in Units
    PROVE  /\ NewRows(u, now') \in SUBSET RowType /\ NewEvents(u, now') \in SUBSET EventType
           /\ IsFiniteSet(NewRows(u, now')) /\ IsFiniteSet(NewEvents(u, now'))
           /\ \A r \in NewRows(u, now') :
                  r.ts = now' /\ Answers(u) /\ r = Row(now', at[u], r.hrs) /\ r.err = at[u].err
           /\ Answers(u) => NewRows(u, now') # {}
           /\ \A e \in NewEvents(u, now') :
                  /\ e.ts = now' /\ e.code = Code(u, now') /\ e.code # last[u]
                  /\ e.state = "active" <=> e.code \notin {0, STANDBY}
           /\ \A e, f \in NewEvents(u, now') : e = f
<1>1. /\ now' \in Nat /\ hrs'[u] \in Nat /\ Code(u, now') \in 0 .. NoReply
      /\ Answers(u) <=> at[u] \in Conditions
  BY TickKnows
<1>4. /\ NewEvents(u, now') \in SUBSET EventType /\ IsFiniteSet(NewEvents(u, now'))
      /\ \A e \in NewEvents(u, now') :
             /\ e.ts = now' /\ e.code = Code(u, now') /\ e.code # last[u]
             /\ e.state = "active" <=> e.code \notin {0, STANDBY}
      /\ \A e, f \in NewEvents(u, now') : e = f
  BY <1>1, EventProperties DEF NewEvents
<1>2. CASE Answers(u)
  <2>1. NewRows(u, now') = {Row(now', at[u], hrs'[u])}
    BY <1>2 DEF NewRows
  <2>2. /\ Row(now', at[u], hrs'[u]) \in RowType
        /\ Row(now', at[u], hrs'[u]).ts = now' /\ Row(now', at[u], hrs'[u]).err = at[u].err
        /\ Row(now', at[u], hrs'[u]).hrs = hrs'[u]
    BY <1>1, <1>2, RowProperties
  <2>3. IsFiniteSet(NewRows(u, now'))
    BY <2>1, FS_Singleton
  <2> QED
    BY <1>2, <1>4, <2>1, <2>2, <2>3
<1>3. CASE ~Answers(u)
  <2>1. NewRows(u, now') = {}
    BY <1>3 DEF NewRows
  <2> QED
    BY <1>3, <1>4, <2>1, FS_EmptySet
<1> QED
  BY <1>2, <1>3

LEMMA TickTypes == FleetInv /\ Tick => UnitTypeOK' /\ CloudTypeOK'
<1> SUFFICES ASSUME FleetInv, Tick PROVE UnitTypeOK' /\ CloudTypeOK'
  OBVIOUS
<1>1. UnitTypeOK'
  <2>1. /\ hrs' = [u \in Units |-> hrs'[u]] /\ last' = [u \in Units |-> last'[u]]
        /\ since' = [u \in Units |-> since'[u]] /\ was' = [u \in Units |-> was'[u]]
    BY DEF Tick
  <2>2. /\ hrs' \in [Units -> Nat] /\ last' \in [Units -> 0 .. NoReply]
        /\ since' \in [Units -> Nat \cup {Null}]
        /\ was' \in [Units -> Seq(Conditions \cup {Silent, Off})]
        /\ \A u \in Units : Len(was'[u]) = now'
    BY <2>1, TickKnows
  <2>3. now' \in Nat \ {0}
    BY DEF FleetInv, UnitTypeOK, Tick
  <2> QED
    BY <2>2, <2>3 DEF FleetInv, UnitTypeOK, Tick
<1>2. ASSUME NEW u \in Units
      PROVE  /\ rows'[u] \in SUBSET RowType /\ events'[u] \in SUBSET EventType
             /\ backlog'[u] \in [rows : SUBSET RowType, events : SUBSET EventType]
             /\ IsFiniteSet(Heard(u)') /\ IsFiniteSet(Said(u)')
  <2>1. /\ NewRows(u, now') \in SUBSET RowType /\ NewEvents(u, now') \in SUBSET EventType
        /\ IsFiniteSet(NewRows(u, now')) /\ IsFiniteSet(NewEvents(u, now'))
    BY TickNews
  <2>2. /\ rows[u] \in SUBSET RowType /\ events[u] \in SUBSET EventType
        /\ backlog[u] \in [rows : SUBSET RowType, events : SUBSET EventType]
        /\ IsFiniteSet(Heard(u)) /\ IsFiniteSet(Said(u))
    BY DEF FleetInv, CloudTypeOK
  <2>3. IsFiniteSet(Heard(u)') /\ IsFiniteSet(Said(u)')
    <3>1. IsFiniteSet(Heard(u) \cup NewRows(u, now'))
      BY <2>1, <2>2, FS_Union
    <3>2. IsFiniteSet(Said(u) \cup NewEvents(u, now'))
      BY <2>1, <2>2, FS_Union
    <3> QED
      BY <3>1, <3>2, TickAdds
  <2>4. /\ rows'[u] \in SUBSET RowType /\ events'[u] \in SUBSET EventType
        /\ backlog'[u] \in [rows : SUBSET RowType, events : SUBSET EventType]
    <3>1. CASE u \in net
      <4>1. /\ Sent(u).rows \subseteq RowType /\ Sent(u).events \subseteq EventType
            /\ Unsent(u) \in [rows : SUBSET RowType, events : SUBSET EventType]
        BY SentProperties
      <4>2. /\ rows'[u] = rows[u] \cup NewRows(u, now') \cup Sent(u).rows
            /\ events'[u] = events[u] \cup NewEvents(u, now') \cup Sent(u).events
            /\ backlog'[u] = Unsent(u)
        BY <3>1 DEF Tick
      <4> QED
        BY <2>1, <2>2, <4>1, <4>2
    <3>2. CASE u \notin net
      <4>1. /\ rows'[u] = rows[u] /\ events'[u] = events[u]
            /\ backlog'[u] = [rows |-> backlog[u].rows \cup NewRows(u, now'),
                              events |-> backlog[u].events \cup NewEvents(u, now')]
        BY <3>2 DEF Tick
      <4> QED
        BY <2>1, <2>2, <4>1
    <3> QED
      BY <3>1, <3>2
  <2> QED
    BY <2>3, <2>4
<1>3. ASSUME NEW u \in Units
      PROVE  link'[u] \in LinkType \cup {Null}
  <2>1. now' \in Nat /\ SilentSince(u, now') \in Nat \cup {Null}
    <3>1. now' = now + 1 /\ now \in Nat \ {0}
      BY TickKnows
    <3>2. since'[u] = SilentSince(u, now') /\ since'[u] \in Nat \cup {Null}
      BY TickKnows
    <3> QED
      BY <3>1, <3>2
  <2>2. Link(IF Answers(u) THEN "ok" ELSE "down", SilentSince(u, now'), now') \in LinkType
    BY <2>1 DEF Link, LinkType
  <2>3. link[u] \in LinkType \cup {Null}
    BY DEF FleetInv, CloudTypeOK
  <2> QED
    BY <2>2, <2>3 DEF Tick, NewLink
<1>4. /\ rows' = [u \in Units |-> rows'[u]] /\ events' = [u \in Units |-> events'[u]]
      /\ backlog' = [u \in Units |-> backlog'[u]] /\ link' = [u \in Units |-> link'[u]]
  BY DEF Tick
<1>5. /\ rows' \in [Units -> SUBSET RowType] /\ events' \in [Units -> SUBSET EventType]
      /\ backlog' \in [Units -> [rows : SUBSET RowType, events : SUBSET EventType]]
      /\ link' \in [Units -> LinkType \cup {Null}]
  BY <1>2, <1>3, <1>4
<1>6. CloudTypeOK'
  BY <1>2, <1>5 DEF CloudTypeOK
<1> QED
  BY <1>1, <1>6

(* What was true of a row or a report stays true of it.                    *)
LEMMA TruthKept ==
    ASSUME FleetInv, Tick, NEW u \in Units
    PROVE  /\ \A r : RowTrue(u, r) => RowTrue(u, r)'
           /\ \A l : LinkTrue(u, l) => LinkTrue(u, l)'
<1>1. now' = now + 1 /\ now \in Nat /\ \A t \in 1 .. now : was'[u][t] = was[u][t]
  BY TickKnows
<1> QED
  BY <1>1 DEF RowTrue, LinkTrue

LEMMA TickTruth == FleetInv /\ Tick => RowsTrue' /\ CardsTrue'
<1> SUFFICES ASSUME FleetInv, Tick PROVE RowsTrue' /\ CardsTrue'
  OBVIOUS
<1>1. ASSUME NEW u \in Units, NEW r \in Heard(u)'
      PROVE  RowTrue(u, r)'
  <2>1. CASE r \in Heard(u)
    BY <2>1, TruthKept DEF FleetInv, RowsTrue
  <2>2. CASE r \in NewRows(u, now')
    <3>1. r.ts = now' /\ Answers(u) /\ r = Row(now', at[u], r.hrs)
      BY <2>2, TickNews
    <3>2. now' \in 1 .. now' /\ was'[u][now'] = at[u] /\ at[u] \in Conditions
      BY <3>1, TickKnows
    <3> QED
      BY <3>1, <3>2 DEF RowTrue
  <2> QED
    BY <1>1, <2>1, <2>2, TickAdds
<1>2. ASSUME NEW u \in Units
      PROVE  LinkTrue(u, link[u])'
  <2>1. CASE link'[u] = link[u]
    <3>1. LinkTrue(u, link[u])
      BY DEF FleetInv, RowsTrue
    <3>2. now' = now + 1 /\ now \in Nat /\ \A t \in 1 .. now : was'[u][t] = was[u][t]
      BY TickKnows
    <3> QED
      BY <2>1, <3>1, <3>2 DEF LinkTrue
  <2>2. CASE /\ at[u] # Off
             /\ link'[u] = Link(IF Answers(u) THEN "ok" ELSE "down", SilentSince(u, now'), now')
    <3>1. now' \in 1 .. now' /\ was'[u][now'] = at[u]
      BY TickKnows
    <3>2. link'[u].hb = now' /\ (link'[u].apu = "down" => ~Answers(u))
      BY <2>2 DEF Link
    <3> QED
      BY <2>2, <3>1, <3>2 DEF LinkTrue, Answers
  <2> QED
    BY <2>1, <2>2 DEF Tick, NewLink
<1>3. ASSUME NEW u \in Units, cache[u].tele # Null
      PROVE  /\ cache[u].tele.row # Null => RowTrue(u, cache[u].tele.row)'
             /\ LinkTrue(u, cache[u].tele.link)'
  <2>1. /\ cache[u].tele.row # Null => RowTrue(u, cache[u].tele.row)
        /\ LinkTrue(u, cache[u].tele.link)
    BY <1>3 DEF FleetInv, CardsTrue
  <2>2. now' = now + 1 /\ now \in Nat /\ \A t \in 1 .. now : was'[u][t] = was[u][t]
    BY TickKnows
  <2>3. cache' = cache
    BY DEF Tick, cards
  <2> QED
    BY <2>1, <2>2, <2>3 DEF RowTrue, LinkTrue
<1>4. RowsTrue'
  BY <1>1, <1>2 DEF RowsTrue
<1>5. CardsTrue'
  <2>1. cache' = cache
    BY DEF Tick, cards
  <2> QED
    BY <1>3, <2>1 DEF CardsTrue
<1> QED
  BY <1>4, <1>5

LEMMA Times ==
    ASSUME FleetInv, NEW u \in Units
    PROVE  /\ \A r \in Heard(u) : r \in RowType /\ r.ts \in 1 .. now
           /\ \A e \in Said(u) : e \in EventType /\ e.ts \in 0 .. now
<1>1. \A r \in Heard(u) : r \in RowType
  BY DEF FleetInv, CloudTypeOK, Heard
<1>2. \A e \in Said(u) : e \in EventType
  BY DEF FleetInv, CloudTypeOK, Said
<1>3. \A r \in Heard(u) : r.ts \in 1 .. now
  BY DEF FleetInv, RowsTrue, RowTrue
<1>4. \A e \in Said(u) : e.ts <= now
  BY DEF FleetInv, EventsTell
<1> QED
  BY <1>1, <1>2, <1>3, <1>4 DEF EventType, FleetInv, UnitTypeOK

LEMMA TickTold == FleetInv /\ Tick => EventsTell' /\ SilenceTold'
<1> SUFFICES ASSUME FleetInv, Tick, NEW u \in Units
             PROVE  /\ /\ \A e \in Said(u)' : e.ts <= now' /\ (e.state = "active" <=> e.code \notin {0, STANDBY})
                       /\ \A e, f \in Said(u)' : e.ts = f.ts => e = f
                       /\ Standing(Said(u)', now', last'[u])
                       /\ \A r \in Heard(u)' : Standing(Said(u)', r.ts, r.err)
                    /\ /\ since'[u] # Null => since'[u] <= now' /\ \A r \in Heard(u)' : r.ts < since'[u]
                       /\ \A r \in Heard(u)', e \in Said(u)' : r.ts < e.ts =>
                              \/ \E q \in Heard(u)' : r.ts < q.ts /\ q.ts <= e.ts
                              \/ e.code = NoReply /\ e.ts - r.ts > Fresh
  BY DEF EventsTell, SilenceTold
<1> DEFINE R == Heard(u)
           E == Said(u)
           NR == NewRows(u, now')
           NE == NewEvents(u, now')
           c == Code(u, now')
<1>1. /\ now' = now + 1 /\ now \in Nat \ {0}
      /\ last'[u] = c /\ since'[u] = SilentSince(u, now')
  BY TickKnows
<1>2. Heard(u)' = R \cup NR /\ Said(u)' = E \cup NE
  BY TickAdds
<1>3. /\ \A r \in R : r \in RowType /\ r.ts \in 1 .. now
      /\ \A e \in E : e \in EventType /\ e.ts \in 0 .. now
  BY Times
<1>4. /\ \A r \in NR : r.ts = now + 1 /\ Answers(u) /\ r.err = at[u].err
      /\ Answers(u) => NR # {}
      /\ \A e \in NE : /\ e.ts = now + 1 /\ e.code = c /\ e.code # last[u]
                       /\ e.state = "active" <=> e.code \notin {0, STANDBY}
      /\ \A e, f \in NE : e = f
  BY <1>1, TickNews
<1>5. /\ \A e \in E : e.ts <= now /\ (e.state = "active" <=> e.code \notin {0, STANDBY})
      /\ \A e, f \in E : e.ts = f.ts => e = f
      /\ Standing(E, now, last[u])
      /\ \A r \in R : Standing(E, r.ts, r.err)
  BY DEF FleetInv, EventsTell
<1>6. /\ since[u] # Null => since[u] <= now /\ \A r \in R : r.ts < since[u]
      /\ \A r \in R, e \in E : r.ts < e.ts =>
             \/ \E q \in R : r.ts < q.ts /\ q.ts <= e.ts
             \/ e.code = NoReply /\ e.ts - r.ts > Fresh
  BY DEF FleetInv, SilenceTold
<1>7. NE = EventOf(now + 1, c, last[u])
  BY <1>1 DEF NewEvents
<1>8. Answers(u) => c = at[u].err
  BY DEF Code
<1>9. /\ ~Answers(u) /\ c # last[u] => /\ at[u] = Silent /\ c = NoReply
                                       /\ now' - SilentSince(u, now') >= Fresh
      /\ at[u] # Silent => SilentSince(u, now') = Null
      /\ SilentSince(u, now') # Null => SilentSince(u, now') = IF since[u] = Null THEN now' ELSE since[u]
  BY DEF Code, SilentSince
<1>10. at[u] = Silent => ~Answers(u) /\ SilentSince(u, now') # Null
  <2>1. since[u] \in Nat \cup {Null} /\ now' \in Nat
    BY <1>1 DEF FleetInv, UnitTypeOK
  <2> QED
    BY <2>1, NullAssumption DEF Answers, SilentSince
<1>11. SilentSince(u, now') # Null =>
           /\ SilentSince(u, now') \in Nat /\ SilentSince(u, now') <= now + 1 /\ NR = {}
           /\ \A r \in R : r.ts < SilentSince(u, now')
  <2>1. since[u] \in Nat \cup {Null}
    BY DEF FleetInv, UnitTypeOK
  <2> QED
    BY <1>1, <1>3, <1>4, <1>6, <1>9, <1>10, <2>1
<1> HIDE DEF R, E, NR, NE, c
<1>12. \A e \in E \cup NE : e.ts <= now + 1 /\ (e.state = "active" <=> e.code \notin {0, STANDBY})
  BY <1>1, <1>3, <1>4, <1>5
<1>13. \A e, f \in E \cup NE : e.ts = f.ts => e = f
  BY <1>1, <1>3, <1>4, <1>5
<1>14. Standing(E \cup NE, now + 1, c)
  BY <1>1, <1>3, <1>5, <1>7, StandingNext
<1>15. \A r \in R \cup NR : Standing(E \cup NE, r.ts, r.err)
  <2> TAKE r \in R \cup NR
  <2>1. CASE r \in R
    <3>1. Standing(E, r.ts, r.err) /\ \A e \in NE : ~(e.ts <= r.ts) /\ e.ts > r.ts
      BY <1>1, <1>3, <1>4, <1>5, <2>1
    <3> QED
      BY <3>1, StandingStays
  <2>2. CASE r \in NR
    BY <1>4, <1>8, <1>14, <2>2
  <2> QED
    BY <2>1, <2>2
<1>16. since'[u] # Null => since'[u] <= now + 1 /\ \A r \in R \cup NR : r.ts < since'[u]
  BY <1>1, <1>11
<1>17. \A r \in R \cup NR, e \in E \cup NE : r.ts < e.ts =>
           \/ \E q \in R \cup NR : r.ts < q.ts /\ q.ts <= e.ts
           \/ e.code = NoReply /\ e.ts - r.ts > Fresh
  <2> SUFFICES ASSUME NEW r \in R \cup NR, NEW e \in E \cup NE, r.ts < e.ts
               PROVE  \/ \E q \in R \cup NR : r.ts < q.ts /\ q.ts <= e.ts
                      \/ e.code = NoReply /\ e.ts - r.ts > Fresh
    OBVIOUS
  <2>1. r \in R
    BY <1>1, <1>3, <1>4
  <2>2. CASE e \in E
    BY <1>6, <2>1, <2>2
  <2>3. CASE e \in NE /\ Answers(u)
    <3>1. PICK q \in NR : q.ts = now + 1
      BY <1>4, <2>3
    <3>2. r.ts < q.ts /\ q.ts <= e.ts
      BY <1>1, <1>3, <1>4, <2>1, <2>3, <3>1
    <3> QED
      BY <3>1, <3>2
  <2>4. CASE e \in NE /\ ~Answers(u)
    <3>1. e.code = c /\ c # last[u] /\ e.ts = now + 1
      BY <1>4, <2>4
    <3>2. c = NoReply /\ now' - SilentSince(u, now') >= Fresh /\ SilentSince(u, now') # Null
      BY <1>9, <1>10, <2>4, <3>1
    <3>3. SilentSince(u, now') \in Nat /\ r.ts < SilentSince(u, now') /\ r.ts \in 1 .. now
      BY <1>3, <1>11, <2>1, <3>2
    <3> HIDE DEF SilentSince
    <3> QED
      BY <1>1, <3>1, <3>2, <3>3, ViewsAssumption
  <2> QED
    BY <2>2, <2>3, <2>4
<1> QED
  BY <1>1, <1>2, <1>12, <1>13, <1>14, <1>15, <1>16, <1>17

LEMMA TickKeeps == FleetInv /\ Tick => FleetInv'
<1> SUFFICES ASSUME FleetInv, Tick PROVE FleetInv'
  OBVIOUS
<1>1. UNCHANGED <<cache, body>>
  BY DEF Tick, cards
<1> QED
  BY <1>1, TickTypes, TickTruth, TickTold, PagesUnchanged DEF FleetInv

-----------------------------------------------------------------------------
(* Every action keeps the invariant: the cards.                            *)

(* What GET /latest answers: the newest row of the day, if there is one.   *)
LEMMA LatestAnswer ==
    ASSUME FleetInv, NEW u \in Units, NEW l, NEW g, g = GetLatest(rows[u], l, now)
    PROVE  /\ g = [row |-> g.row, link |-> l]
           /\ g.row # Null => g.row \in rows[u]
           /\ \A r \in rows[u] : now - r.ts <= Day => g.row # Null /\ r.ts <= g.row.ts
<1> DEFINE L == LatestFlux(rows[u], now)
<1>1. rows[u] \subseteq Heard(u) /\ rows[u] \subseteq RowType /\ now \in Nat
  BY DEF Heard, FleetInv, CloudTypeOK, UnitTypeOK
<1>2. IsFiniteSet(rows[u]) /\ \A r \in rows[u] : r.ts \in 0 .. now
  <2>1. IsFiniteSet(Heard(u))
    BY DEF FleetInv, CloudTypeOK
  <2> QED
    BY <1>1, <2>1, FS_Subset, Times
<1>3. /\ L \subseteq rows[u]
      /\ \A r \in rows[u] : now - r.ts <= Day => L # {} /\ \A x \in L : r.ts <= x.ts
  BY <1>1, <1>2, LatestRow
<1>4. g = [row |-> IF L = {} THEN Null ELSE CHOOSE r \in L : TRUE, link |-> l]
  BY DEF GetLatest
<1> HIDE DEF L
<1>5. g = [row |-> g.row, link |-> l] /\ g.row = IF L = {} THEN Null ELSE CHOOSE r \in L : TRUE
  BY <1>4
<1>6. L # {} => g.row \in L /\ g.row # Null
  BY <1>1, <1>3, <1>5, NullAssumption
<1>7. L = {} => g.row = Null
  BY <1>5
<1> QED
  BY <1>3, <1>5, <1>6, <1>7

LEMMA PollKeeps == FleetInv /\ (PollLatest \/ ListUnits) => FleetInv'
<1> SUFFICES ASSUME FleetInv, PollLatest \/ ListUnits PROVE FleetInv'
  OBVIOUS
<1>1. UNCHANGED <<device, cloud, body>>
  BY DEF PollLatest, ListUnits
<1>2. UnitTypeOK' /\ CloudTypeOK' /\ RowsTrue' /\ EventsTell' /\ SilenceTold'
  BY <1>1, UnitsUnchanged
<1>3. PagesTell'
  BY <1>1 DEF FleetInv, PagesTell, TakesAny, body
<1>4. CASE cache' = cache
  BY <1>1, <1>2, <1>3, <1>4, CardsUnchanged, PagesUnchanged DEF FleetInv, device
<1>5. CASE PollLatest /\ cache' # cache
  <2>1. PICK w : \/ \E l \in ReadLink(w) :
                        cache' = [cache EXCEPT ![w] =
                            [pending |-> FALSE, known |-> TRUE,
                             tele |-> LatestWithLink(GetLatest(rows[w], l, now))]]
                 \/ cache' = [cache EXCEPT ![w].pending = FALSE]
    BY <1>5 DEF PollLatest
  <2>2. cache \in [Units -> [pending : BOOLEAN, known : BOOLEAN, tele : TeleType \cup {Null}]]
    BY DEF FleetInv, PageTypeOK
  <2>3. w \in Units
    BY <1>5, <2>1, <2>2
  <2>4. /\ cache'[w].pending = FALSE
        /\ cache'[w].tele \in TeleType \cup {Null}
        /\ cache'[w].tele # Null =>
               /\ cache'[w].tele.row # Null => RowTrue(w, cache'[w].tele.row)
               /\ LinkTrue(w, cache'[w].tele.link)
        /\ cache'[w] \in [pending : BOOLEAN, known : BOOLEAN, tele : TeleType \cup {Null}]
    <3>1. CASE cache' = [cache EXCEPT ![w].pending = FALSE]
      <4>1. cache[w] \in [pending : BOOLEAN, known : BOOLEAN, tele : TeleType \cup {Null}]
        BY <2>2, <2>3
      <4>2. cache'[w].pending = FALSE /\ cache'[w].tele = cache[w].tele
        BY <2>2, <2>3, <3>1
      <4>3. cache'[w] \in [pending : BOOLEAN, known : BOOLEAN, tele : TeleType \cup {Null}]
        BY <2>2, <2>3, <3>1, <4>1
      <4> QED
        BY <2>3, <4>1, <4>2, <4>3 DEF FleetInv, CardsTrue
    <3>2. ASSUME NEW l \in ReadLink(w),
                 cache' = [cache EXCEPT ![w] =
                     [pending |-> FALSE, known |-> TRUE,
                      tele |-> LatestWithLink(GetLatest(rows[w], l, now))]]
          PROVE  <2>4!:
      <4> DEFINE g == GetLatest(rows[w], l, now)
                 d == LatestWithLink(g)
      <4>1. cache'[w] = [pending |-> FALSE, known |-> TRUE, tele |-> d]
        BY <2>2, <2>3, <3>2
      <4>2. /\ g = [row |-> g.row, link |-> l]
            /\ g.row # Null => g.row \in rows[w]
        BY <2>3, LatestAnswer
      <4>3. d = IF g.row = Null /\ g.link = Null THEN Null ELSE g
        BY DEF LatestWithLink
      <4> HIDE DEF g
      <4>4. g.row \in RowType \cup {Null} /\ (g.row # Null => RowTrue(w, g.row))
        <5>1. g.row # Null => g.row \in Heard(w) /\ g.row \in RowType
          BY <2>3, <4>2 DEF Heard, FleetInv, CloudTypeOK
        <5> QED
          BY <2>3, <5>1 DEF FleetInv, RowsTrue
      <4>5. g.link = l /\ l \in LinkType \cup {Null} /\ LinkTrue(w, l)
        BY <2>3, <3>2, <4>2 DEF ReadLink, FleetInv, CloudTypeOK, RowsTrue, LinkTrue
      <4>6. g \in TeleType
        BY <4>2, <4>4, <4>5 DEF TeleType
      <4>7. d \in TeleType \cup {Null} /\ (d # Null => d = g)
        BY <4>3, <4>6
      <4> HIDE DEF d
      <4>8. cache'[w].pending = FALSE /\ cache'[w].tele = d
        BY <4>1
      <4>9. cache'[w] \in [pending : BOOLEAN, known : BOOLEAN, tele : TeleType \cup {Null}]
        BY <4>1, <4>7
      <4> QED
        BY <4>4, <4>5, <4>7, <4>8, <4>9
    <3> QED
      BY <2>1, <3>1, <3>2
  <2>5. cache' = [u \in Units |-> cache'[u]] /\ \A u \in Units \ {w} : cache'[u] = cache[u]
    BY <2>1, <2>2
  <2>6. PageTypeOK'
    <3>1. cache' \in [Units -> [pending : BOOLEAN, known : BOOLEAN, tele : TeleType \cup {Null}]]
      BY <2>2, <2>4, <2>5
    <3> QED
      BY <1>1, <3>1 DEF FleetInv, PageTypeOK, body
  <2>7. CardsTrue'
    BY <1>1, <2>4, <2>5 DEF FleetInv, CardsTrue, RowTrue, LinkTrue, device
  <2> QED
    BY <1>2, <1>3, <2>6, <2>7 DEF FleetInv
<1> QED
  BY <1>4, <1>5 DEF ListUnits

-----------------------------------------------------------------------------
(* Every action keeps the invariant: the pages.                            *)

(* A request is for the key it was made with.                              *)
LEMMA FetchKeeps ==
    ASSUME FleetInv, page # "dashboard", NEW k \in KeyType, Fetch(k), sel' \in Units,
           page = "alerts" => k.units \subseteq Units,
           UNCHANGED <<cache, page, list, posting, raced>>
    PROVE  PageTypeOK' /\ PagesTell'
<1> DEFINE S == StillAwaited(page)
<1>1. /\ key' = k /\ reqs' = S \cup {Request(k, S)} /\ loading' = TRUE /\ failed' = FALSE
      /\ shown' = IF TakesAny(page) THEN shown ELSE Null
  BY DEF Fetch
<1>2. Request(k, S).key = k
  BY DEF Request
<1>3. \A r \in S : TakesAny(page) /\ r \in reqs
  BY DEF StillAwaited
<1>4. \A r \in reqs' : r.key \in KeyType /\ (~TakesAny(page) => r.key = k)
  BY <1>1, <1>2, <1>3 DEF FleetInv, PageTypeOK
<1> HIDE DEF S
<1>5. PageTypeOK'
  BY <1>1, <1>4 DEF FleetInv, PageTypeOK
<1>6. PagesTell'
  BY <1>1, <1>4 DEF FleetInv, PagesTell, TakesAny
<1> QED
  BY <1>5, <1>6

LEMMA BrowseKeeps == FleetInv /\ (SelectUnit \/ SelectAll \/ SelectRange \/ Refresh) => PageTypeOK' /\ PagesTell'
<1> SUFFICES ASSUME FleetInv, SelectUnit \/ SelectAll \/ SelectRange \/ Refresh PROVE PageTypeOK' /\ PagesTell'
  OBVIOUS
<1>1. /\ UNCHANGED <<cache, page, list, posting, raced>> /\ page # "dashboard"
      /\ sel \in Units /\ list \subseteq Units
  BY DEF SelectUnit, SelectAll, SelectRange, Refresh, cards, FleetInv, PageTypeOK
<1>2. key \in KeyType /\ (page = "alerts" => key.units \subseteq Units)
  BY <1>1 DEF FleetInv, PageTypeOK, PagesTell
<1>3. CASE SelectUnit
  <2>1. PICK u \in list : sel' = u /\ Fetch(KeyOf({u}, key.range))
    BY <1>3 DEF SelectUnit
  <2>2. KeyOf({u}, key.range) \in KeyType /\ KeyOf({u}, key.range).units \subseteq Units
    BY <1>1, <1>2 DEF KeyOf, KeyType
  <2> QED
    BY <1>1, <2>1, <2>2, FetchKeeps
<1>6. CASE SelectAll
  <2>1. sel' = sel /\ Fetch(AllUnits(list))
    BY <1>6 DEF SelectAll
  <2>2. AllUnits(list) \in KeyType /\ AllUnits(list).units \subseteq Units
    BY <1>1 DEF AllUnits, KeyType
  <2> QED
    BY <1>1, <2>1, <2>2, FetchKeeps
<1>4. CASE SelectRange
  <2>1. sel' = sel /\ page # "alerts"
    BY <1>4 DEF SelectRange
  <2>2. PICK range \in {Day, Week} : Fetch(KeyOf(key.units, range))
    BY <1>4 DEF SelectRange
  <2>3. KeyOf(key.units, range) \in KeyType
    BY <1>2 DEF KeyOf, KeyType
  <2> QED
    BY <1>1, <2>1, <2>2, <2>3, FetchKeeps
<1>5. CASE Refresh
  <2>1. sel' = sel /\ page # "alerts" /\ Fetch(key)
    BY <1>5 DEF Refresh
  <2> QED
    BY <1>1, <1>2, <2>1, FetchKeeps
<1> QED
  BY <1>3, <1>4, <1>5, <1>6

LEMMA OpenKeeps == FleetInv /\ Open => PageTypeOK' /\ PagesTell'
<1> SUFFICES ASSUME FleetInv, Open PROVE PageTypeOK' /\ PagesTell'
  OBVIOUS
<1>1. /\ page' \in Pages /\ key' = KeyAtOpen(page') /\ reqs' = {Request(key', {})} /\ shown' = Null
      /\ loading' = TRUE /\ failed' = FALSE /\ raced' = FALSE /\ posting' = Null
      /\ list' = UnitsFlux(rows, now) /\ UNCHANGED <<cache, sel>>
  BY DEF Open, cards
<1>2. key' \in KeyType /\ (page' = "alerts" => key'.units \subseteq Units) /\ list' \subseteq Units
  <2>1. sel \in Units /\ UnitsFlux(rows, now) \subseteq Units
    BY DEF FleetInv, PageTypeOK, UnitsFlux
  <2>2. /\ page' = "alerts" => key' = AllUnits(UnitsFlux(rows, now))
        /\ key' \in {AllUnits(UnitsFlux(rows, now)), KeyOf({sel}, Day), KeyOf(All, Week), KeyOf({sel}, Week)}
    BY <1>1 DEF KeyAtOpen
  <2>3. ASSUME NEW us \in (SUBSET Units) \cup {All}, NEW range \in {Day, Week}
        PROVE  KeyOf(us, range) \in KeyType /\ KeyOf(us, range).units = us
    BY DEF KeyOf, KeyType
  <2>4. /\ AllUnits(UnitsFlux(rows, now)) \in KeyType
        /\ AllUnits(UnitsFlux(rows, now)).units = UnitsFlux(rows, now)
    BY <2>1 DEF AllUnits, KeyType
  <2>5. /\ KeyOf({sel}, Day) \in KeyType
        /\ KeyOf(All, Week) \in KeyType
        /\ KeyOf({sel}, Week) \in KeyType
    <3>1. {sel} \in (SUBSET Units) \cup {All} /\ All \in (SUBSET Units) \cup {All}
      BY <2>1
    <3> QED
      BY <2>3, <3>1
  <2>6. key' \in KeyType
    BY <2>2, <2>4, <2>5
  <2> QED
    BY <1>1, <2>1, <2>2, <2>4, <2>6
<1>3. \A r \in reqs' : r.key = key'
  BY <1>1 DEF Request
<1>4. page' # "dashboard"
  BY <1>1 DEF Pages
<1>5. PageTypeOK'
  BY <1>1, <1>2, <1>3, <1>4 DEF FleetInv, PageTypeOK
<1>6. PagesTell'
  BY <1>1, <1>2, <1>3 DEF PagesTell
<1> QED
  BY <1>5, <1>6

LEMMA SubmitKeeps == FleetInv /\ (Submit \/ Submitted) => PageTypeOK' /\ PagesTell'
<1> SUFFICES ASSUME FleetInv, Submit \/ Submitted PROVE PageTypeOK' /\ PagesTell'
  OBVIOUS
<1>1. UNCHANGED <<cache, page, sel, list, key, shown, failed, raced>> /\ page = "maintenance"
  BY DEF Submit, Submitted, cards, FleetInv, PagesTell
<1>2. posting' \in Units \cup {Null} /\ loading' \in BOOLEAN /\ (loading => loading')
  <2>1. loading \in BOOLEAN /\ posting \in Units \cup {Null} /\ sel \in Units
    BY DEF FleetInv, PageTypeOK
  <2>2. posting' \in {sel, Null}
    BY DEF Submit, Submitted
  <2>3. loading' = loading \/ loading' = TRUE
    BY DEF Submit, Submitted
  <2>4. loading' \in BOOLEAN /\ (loading => loading')
    BY <2>1, <2>3, Zenon
  <2> QED
    BY <2>1, <2>2, <2>4
<1>3. \A r \in reqs' : r.key \in KeyType
  <2>1. CASE reqs' = reqs
    BY <2>1 DEF FleetInv, PageTypeOK
  <2>2. CASE posting # Null /\ reqs' = reqs \cup {Request(KeyOf({posting}, Week), reqs)}
    <3>1. KeyOf({posting}, Week) \in KeyType
      BY <2>2 DEF FleetInv, PageTypeOK, KeyOf, KeyType
    <3>2. Request(KeyOf({posting}, Week), reqs).key = KeyOf({posting}, Week)
      BY DEF Request
    <3> QED
      BY <2>2, <3>1, <3>2 DEF FleetInv, PageTypeOK
  <2> QED
    BY <2>1, <2>2 DEF Submit, Submitted
<1>4. PageTypeOK'
  BY <1>1, <1>2, <1>3 DEF FleetInv, PageTypeOK
<1>5. PagesTell'
  BY <1>1, <1>2 DEF FleetInv, PagesTell, TakesAny
<1> QED
  BY <1>4, <1>5

LEMMA AnswerKeeps == FleetInv /\ Answer => PageTypeOK' /\ PagesTell'
<1> SUFFICES ASSUME FleetInv, Answer PROVE PageTypeOK' /\ PagesTell'
  OBVIOUS
<1>1. PICK r \in reqs :
          /\ reqs' = reqs \ {r}
          /\ \E c \in IF page = "alerts" THEN Partly(Content(r.key)) ELSE {Content(r.key)} :
                 shown' = [key |-> r.key, content |-> c]
          /\ raced' = (reqs' # {} \/ r.key # key)
  BY Zenon DEF Answer
<1>9. /\ shown'.key = r.key
      /\ page # "alerts" => shown' = [key |-> r.key, content |-> Content(r.key)]
      /\ page = "alerts" => \E c \in Partly(Content(r.key)) : shown' = [key |-> r.key, content |-> c]
  BY <1>1
<1>2. loading' = FALSE /\ UNCHANGED <<cache, page, sel, list, key, failed, posting>> /\ page # "dashboard"
  BY <1>1 DEF Answer, cards, FleetInv, PageTypeOK
<1>3. raced' \in BOOLEAN
  BY <1>1
<1>4. r.key \in KeyType /\ key \in KeyType /\ page \in Pages
  BY <1>1, <1>2 DEF FleetInv, PageTypeOK
<1>5. PageTypeOK'
  BY <1>1, <1>2, <1>3 DEF FleetInv, PageTypeOK
<1>6. page # "alerts" => shown' # Null
  <2>1. ASSUME page # "alerts"
        PROVE  \E b \in BOOLEAN : Content(r.key) = [none |-> b]
    <3> DEFINE unkept == \A u \in r.key.units : GetMaintenance(u) = {}
               idle == ZeroRuntime(GetReports(r.key.range))
               unread == \A u \in r.key.units : LET m == GetTelemetrySeries(u, r.key.range)
                                                IN  \A b \in DOMAIN m : m[b] = Null
               sound == \A u \in r.key.units : GetFaults(u, r.key.range) = {}
    <3>1. Content(r.key) \in {[none |-> unkept], [none |-> idle], [none |-> unread], [none |-> sound]}
      BY <1>4, <2>1, Zenon DEF Content, Pages
    <3>2. unkept \in BOOLEAN /\ idle \in BOOLEAN /\ unread \in BOOLEAN /\ sound \in BOOLEAN
      BY DEF ZeroRuntime
    <3> HIDE DEF unkept, idle, unread, sound
    <3> QED
      BY <3>1, <3>2
  <2>2. page # "alerts" => shown' \in [key : KeyType, content : [none : BOOLEAN]]
    <3> SUFFICES ASSUME page # "alerts" PROVE shown' \in [key : KeyType, content : [none : BOOLEAN]]
      OBVIOUS
    <3>1. PICK b \in BOOLEAN : Content(r.key) = [none |-> b]
      BY <2>1
    <3>2. shown' = [key |-> r.key, content |-> [none |-> b]]
      BY <1>9, <3>1, Zenon
    <3> QED
      BY <1>4, <3>2
  <2> QED
    BY <2>2, NullAssumption
<1>7. page = "alerts" => DOMAIN shown'.content.faults \subseteq Units
  <2> SUFFICES ASSUME page = "alerts" PROVE DOMAIN shown'.content.faults \subseteq Units
    OBVIOUS
  <2>1. r.key = key /\ key.units \subseteq Units
    BY <1>1 DEF FleetInv, PagesTell, TakesAny
  <2> DEFINE F == [u \in key.units |-> GetFaults(u, Week)]
  <2>2. Content(r.key) = [faults |-> F]
    BY <2>1 DEF Content
  <2>3. PICK c \in Partly(Content(r.key)) : shown' = [key |-> r.key, content |-> c]
    BY <1>9
  <2>4. DOMAIN c.faults = key.units
    <3>1. DOMAIN F = key.units
      OBVIOUS
    <3> HIDE DEF F
    <3> QED
      BY <2>2, <2>3, <3>1 DEF Partly
  <2> QED
    BY <2>1, <2>3, <2>4
<1>8. PagesTell'
  BY <1>1, <1>2, <1>3, <1>6, <1>7, <1>9 DEF FleetInv, PagesTell, TakesAny
<1> QED
  BY <1>5, <1>8

LEMMA FailKeeps == FleetInv /\ Fail => PageTypeOK' /\ PagesTell'
<1> SUFFICES ASSUME FleetInv, Fail PROVE PageTypeOK' /\ PagesTell'
  OBVIOUS
<1>1. /\ UNCHANGED <<cache, page, sel, list, key, shown, posting, raced>>
      /\ reqs' \subseteq reqs /\ loading' = FALSE /\ failed' = TRUE
  BY DEF Fail, cards
<1>2. PageTypeOK'
  BY <1>1 DEF FleetInv, PageTypeOK
<1>3. PagesTell'
  BY <1>1 DEF FleetInv, PagesTell, TakesAny
<1> QED
  BY <1>2, <1>3

LEMMA FleetStep == FleetInv /\ [Next]_vars => FleetInv'
<1> SUFFICES ASSUME FleetInv, [Next]_vars PROVE FleetInv'
  OBVIOUS
<1>1. CASE Change \/ ResetHours \/ NetDown
  BY <1>1, SituationKeeps
<1>2. CASE NetUp
  BY <1>2, NetUpKeeps
<1>3. CASE Tick
  BY <1>3, TickKeeps
<1>4. CASE ListUnits \/ PollLatest
  BY <1>4, PollKeeps
<1>5. ASSUME UNCHANGED <<device, cloud, cards>>, PageTypeOK' /\ PagesTell'
      PROVE  FleetInv'
  BY <1>5, UnitsUnchanged, CardsUnchanged DEF FleetInv, device, cards
<1>6. CASE Open \/ SelectUnit \/ SelectAll \/ SelectRange \/ Refresh
  <2>1. UNCHANGED <<device, cloud, cards>>
    BY <1>6 DEF Open, SelectUnit, SelectAll, SelectRange, Refresh
  <2> QED
    BY <1>5, <1>6, <2>1, OpenKeeps, BrowseKeeps
<1>7. CASE Submit \/ Submitted
  <2>1. UNCHANGED <<device, cloud, cards>>
    BY <1>7 DEF Submit, Submitted
  <2> QED
    BY <1>5, <1>7, <2>1, SubmitKeeps
<1>8. CASE Answer \/ Fail
  <2>1. UNCHANGED <<device, cloud, cards>>
    BY <1>8 DEF Answer, Fail
  <2> QED
    BY <1>5, <1>8, <2>1, AnswerKeeps, FailKeeps
<1>9. CASE UNCHANGED vars
  <2>1. UNCHANGED <<device, cloud, cards, body>>
    BY <1>9 DEF vars
  <2> QED
    BY <1>5, <2>1, PagesUnchanged DEF FleetInv, cards
<1> QED
  BY <1>1, <1>2, <1>3, <1>4, <1>6, <1>7, <1>8, <1>9 DEF Next

LEMMA FleetInductive == Spec => []FleetInv
<1> QED
  BY FleetInitial, FleetStep, PTL DEF Spec

-----------------------------------------------------------------------------
(* What the pages say.                                                     *)

(* What a page shows, and what it says is missing, is the answer for what  *)
(* is selected: Alerts, History and the unit's tabs drop the answers of an *)
(* earlier selection or keep them apart, and Maintenance and Reports have  *)
(* another's only in a race, during a fetch or after a failed one          *)
(* (MaintenancePage.jsx:68-103, ReportsPage.jsx:19-26,                     *)
(* APUHistoryPage.jsx:33-47, AlertsPage.jsx:65-77).                        *)
LEMMA SelectedAnswers == FleetInv => AnswersSelected
<1> SUFFICES ASSUME FleetInv PROVE AnswersSelected
  OBVIOUS
<1>1. /\ ~TakesAny(page) /\ shown # Null => shown.key = key
      /\ shown # Null /\ shown.key # key => loading \/ raced \/ failed
      /\ page \notin {"dashboard", "alerts"} /\ shown = Null => loading \/ raced \/ failed
  BY DEF FleetInv, PagesTell, PageTypeOK
<1>2. ASSUME SaysNone
      PROVE  \/ shown # Null /\ shown.key = key /\ shown.content.none
             \/ failed \/ raced \/ (loading /\ page = "reports")
  <2>1. CASE shown = Null
    BY <1>1, <1>2, <2>1, Zenon
       DEF SaysNone, MaintenanceEmpty, NoRuntime, NoFaultEvents, NoFaultLog, NoReadings
  <2>2. CASE shown # Null
    <3>1. shown.content.none
      BY <1>2, <2>2, Zenon
         DEF SaysNone, MaintenanceEmpty, NoRuntime, NoFaultEvents, NoFaultLog, NoReadings
    <3>2. loading => page # "maintenance"
      BY <1>2, Zenon
         DEF SaysNone, MaintenanceEmpty, NoRuntime, NoFaultEvents, NoFaultLog, NoReadings
    <3>3. shown.key = key \/ failed \/ raced \/ (loading /\ page = "reports")
      BY <1>1, <2>2, <3>2, Zenon DEF TakesAny
    <3> QED
      BY <2>2, <3>1, <3>3, Zenon
  <2> QED
    BY <2>1, <2>2
<1> QED
  BY <1>1, <1>2, Zenon DEF AnswersSelected

THEOREM SelectionHolds == Spec => []AnswersSelected
<1> QED
  BY FleetInductive, SelectedAnswers, PTL

-----------------------------------------------------------------------------
(* The cards.                                                              *)

(* The section a fresh row puts a card in, and what a stale one shows.     *)
LEMMA RowViews ==
    ASSUME NEW r \in RowType
    PROVE  LET v == RowView(r)
           IN  /\ v.status = "Fault" <=> r.err \notin {0, 7}
               /\ v.status = "Warning" <=> r.err \in {0, 7} /\ (r.batt < 120 \/ ~r.oil)
               /\ v.status = "Standby" => (~r.on \/ r.err = 7) /\ r.err \in {0, 7} /\ ~(r.batt < 120) /\ r.oil
               /\ v.status = "Running" => r.on /\ r.err \in {0, 7} /\ ~(r.batt < 120) /\ r.oil
               /\ v.status \in {"Fault", "Warning", "Standby", "Running"}
               /\ v.stale = FALSE
               /\ v.attention \in BOOLEAN
               /\ ~v.attention => v.status \in {"Standby", "Running"}
<1>1. CASE HasFault(r)
  BY <1>1 DEF RowView, View, HasFault, IsStandby, STANDBY
<1>2. CASE ~HasFault(r) /\ (r.batt < 120 \/ ~r.oil)
  BY <1>2 DEF RowView, View, HasFault, IsStandby, STANDBY
<1>3. CASE ~HasFault(r) /\ ~(r.batt < 120 \/ ~r.oil) /\ (IsStandby(r) \/ ~r.on)
  BY <1>3 DEF RowView, View, HasFault, IsStandby, STANDBY
<1>4. CASE ~HasFault(r) /\ ~(r.batt < 120 \/ ~r.oil) /\ ~(IsStandby(r) \/ ~r.on)
  BY <1>4 DEF RowView, View, HasFault, IsStandby, STANDBY
<1> QED
  BY <1>1, <1>2, <1>3, <1>4, Zenon

LEMMA StaleViews ==
    ASSUME NEW tele, NEW n, IsStale(tele, n)
    PROVE  LET v == UnitView(tele, n)
           IN  /\ v.status \in {"No APU data", "No data", "Offline"}
               /\ v.status = "No APU data" <=> ApuSilent(tele, n)
               /\ v.status = "No data" <=> ~ApuSilent(tele, n) /\ (tele = Null \/ tele.row = Null)
               /\ v.stale = TRUE /\ v.attention \in BOOLEAN
               /\ ~v.attention => v.status = "No data"
<1>1. CASE ApuSilent(tele, n)
  BY <1>1 DEF UnitView, View
<1>2. CASE ~ApuSilent(tele, n) /\ (tele = Null \/ tele.row = Null)
  BY <1>2 DEF UnitView, NoRow, View
<1>3. CASE ~ApuSilent(tele, n) /\ ~(tele = Null \/ tele.row = Null)
  BY <1>3 DEF UnitView, NoRow, View
<1> QED
  BY <1>1, <1>2, <1>3, Zenon

(* What was the case at a report of the last minute is recent.             *)
LEMMA Recent ==
    ASSUME FleetInv, NEW u \in Units, NEW t \in 1 .. now, now - t <= Fresh
    PROVE  was[u][t] \in Recently(u)
<1>1. was[u] \in Seq(Conditions \cup {Silent, Off}) /\ Len(was[u]) = now
  BY DEF FleetInv, UnitTypeOK
<1>2. t \in DOMAIN was[u]
  BY <1>1
<1> QED
  BY <1>2 DEF Recently

(* A fresh row is what the unit showed within a minute.                    *)
LEMMA FreshCard ==
    ASSUME FleetInv, NEW u \in Units, ~IsStale(cache[u].tele, now)
    PROVE  LET r == cache[u].tele.row
           IN  /\ cache[u].tele # Null /\ r # Null /\ r \in RowType /\ now - r.ts <= Fresh
               /\ \E c \in Recently(u) \ {Silent, Off} :
                      /\ r.err = c.err /\ r.batt = c.batt /\ r.oil = c.oil /\ r.on = c.on
                      /\ Trouble(c) <=> r.err \notin {0, 7} \/ r.batt < 120 \/ ~r.oil
<1> DEFINE r == cache[u].tele.row
           c == was[u][r.ts]
<1>1. cache[u].tele # Null /\ r # Null /\ ~(now - r.ts > Fresh)
  BY DEF IsStale
<1>2. RowTrue(u, r)
  BY <1>1 DEF FleetInv, CardsTrue
<1>3. cache[u].tele \in TeleType
  BY <1>1 DEF FleetInv, PageTypeOK
<1>4. r \in RowType
  BY <1>1, <1>3 DEF TeleType
<1>5. r.ts \in 1 .. now /\ now \in Nat /\ c \in Conditions /\ r = Row(r.ts, c, r.hrs)
  BY <1>2 DEF RowTrue, FleetInv, UnitTypeOK
<1>6. now - r.ts <= Fresh
  BY <1>1, <1>5, ViewsAssumption
<1>7. c \in Recently(u) /\ c \notin {Silent, Off}
  BY <1>5, <1>6, Recent, FleetAssumption
<1>8. r.err = c.err /\ r.batt = c.batt /\ r.oil = c.oil /\ r.on = c.on
  <2> HIDE DEF r, c
  <2> QED
    BY <1>5 DEF Row
<1>9. Trouble(c) <=> r.err \notin {0, 7} \/ r.batt < 120 \/ ~r.oil
  BY <1>8, Zenon DEF Trouble
<1> QED
  BY <1>1, <1>4, <1>6, <1>7, <1>8, <1>9, Zenon

(* An answer is a page's data: the newest row of the day and the link.     *)
LEMMA LatestType ==
    ASSUME FleetInv, NEW u \in Units
    PROVE  LET g == GetLatest(rows[u], link[u], now)
           IN  /\ g \in TeleType /\ g # Null
               /\ g.row # Null => g.row \in rows[u] /\ LatestWithLink(g) = g
<1> DEFINE g == GetLatest(rows[u], link[u], now)
<1>1. g = [row |-> g.row, link |-> link[u]] /\ (g.row # Null => g.row \in rows[u])
  BY LatestAnswer
<1> HIDE DEF g
<1>2. rows[u] \subseteq RowType /\ link[u] \in LinkType \cup {Null}
  BY DEF FleetInv, CloudTypeOK
<1>3. g \in TeleType
  BY <1>1, <1>2 DEF TeleType
<1>4. g # Null
  BY <1>3, NullAssumption
<1>5. g.row # Null => LatestWithLink(g) = g
  BY DEF LatestWithLink
<1> QED
  BY <1>1, <1>3, <1>4, <1>5 DEF g

(* A card that is up to date shows a row of the last minute just when the  *)
(* unit reported within it.                                                *)
LEMMA UpToDateCard ==
    ASSUME FleetInv, NEW u \in Units, UpToDate(u)
    PROVE  /\ Reported(u) <=> ~IsStale(cache[u].tele, now)
           /\ ~IsStale(cache[u].tele, now) =>
                  LET r == cache[u].tele.row
                  IN  r \in rows[u] /\ \A q \in rows[u] : q.ts <= r.ts
<1> DEFINE g == GetLatest(rows[u], link[u], now)
           r == cache[u].tele.row
<1>1. /\ g \in TeleType /\ g # Null /\ (g.row # Null => g.row \in rows[u] /\ LatestWithLink(g) = g)
      /\ \A q \in rows[u] : now - q.ts <= Day => g.row # Null /\ q.ts <= g.row.ts
  BY LatestType, LatestAnswer
<1>2. cache[u].tele = LatestWithLink(g)
  BY DEF UpToDate
<1>3. rows[u] \subseteq Heard(u) /\ now \in Nat /\ \A q \in rows[u] : q.ts \in 1 .. now
  BY Times DEF Heard, FleetInv, UnitTypeOK
<1> HIDE DEF g
<1>4. ASSUME Reported(u) PROVE ~IsStale(cache[u].tele, now)
  <2>1. PICK q \in rows[u] : now - q.ts <= Fresh
    BY <1>4 DEF Reported
  <2>2. g.row # Null /\ q.ts <= g.row.ts /\ g.row \in rows[u] /\ cache[u].tele = g
    BY <1>1, <1>2, <1>3, <2>1, ViewsAssumption
  <2>3. ~(now - g.row.ts > Fresh)
    BY <1>3, <2>1, <2>2, ViewsAssumption
  <2> QED
    BY <1>1, <2>2, <2>3 DEF IsStale
<1>5. ASSUME ~IsStale(cache[u].tele, now)
      PROVE  r \in rows[u] /\ now - r.ts <= Fresh /\ \A q \in rows[u] : q.ts <= r.ts
  <2>1. cache[u].tele # Null /\ r # Null /\ ~(now - r.ts > Fresh)
    BY <1>5 DEF IsStale
  <2>2. cache[u].tele = g
    BY <1>2, <2>1 DEF LatestWithLink
  <2>3. r = g.row /\ r \in rows[u]
    BY <1>1, <2>1, <2>2
  <2>4. now - r.ts <= Fresh
    BY <1>3, <2>1, <2>3, ViewsAssumption
  <2>5. ASSUME NEW q \in rows[u] PROVE q.ts <= r.ts
    <3>1. CASE now - q.ts <= Day
      BY <1>1, <2>3, <3>1
    <3>2. CASE ~(now - q.ts <= Day)
      BY <1>3, <2>3, <2>4, <3>2, ViewsAssumption
    <3> QED
      BY <3>1, <3>2
  <2> QED
    BY <2>3, <2>4, <2>5
<1>6. ASSUME ~IsStale(cache[u].tele, now) PROVE Reported(u)
  BY <1>5, <1>6 DEF Reported
<1> QED
  BY <1>4, <1>5, <1>6

(* A card never claims more than the fleet has shown within a minute, by   *)
(* whatever polls were lost: Fault, Warning, Standby and Running are of a  *)
(* unit that was so, No APU data of one whose controller was silent, an    *)
(* up-to-date card is Offline only when nothing came, attention is asked   *)
(* just when there is trouble (or no news), and a start is offered only of *)
(* a unit that reported, or on the Remote tab of one without data          *)
(* (contract.js:209-270, flux.js:20-35, RemoteControlTab.jsx:16).          *)
LEMMA TrueCards == FleetInv => CardTells
<1> SUFFICES ASSUME FleetInv, NEW u \in Units, ViewOf(u) # Null
             PROVE  LET v == ViewOf(u)
                        tele == cache[u].tele
                        so == Recently(u) \ {Silent, Off}
                    IN  /\ v.status = "Fault" => \E c \in so : c.err = tele.row.err /\ c.err \notin {0, 7}
                        /\ v.status = "Warning" => \E c \in so : c.err \in {0, 7} /\ Trouble(c)
                        /\ v.status = "Running" => \E c \in so : c.on /\ ~Trouble(c)
                        /\ v.status = "Standby" => \E c \in so : (~c.on \/ c.err = 7) /\ ~Trouble(c)
                        /\ v.status = "No APU data" => Silent \in Recently(u)
                        /\ UpToDate(u) /\ v.status \in {"Offline", "No data"} => ~Reported(u)
                        /\ OverviewStarts(tele, now) # {} => so # {}
                        /\ RemoteStarts(tele, now) # {} => so # {} \/ tele = Null
                        /\ units # Null /\ u \in Dashboard.normal /\ UpToDate(u) =>
                               IF Reported(u) THEN ~Trouble(tele.row) ELSE v.status = "No data"
  BY Zenon DEF CardTells
<1> DEFINE v == ViewOf(u)
           tele == cache[u].tele
           so == Recently(u) \ {Silent, Off}
           r == tele.row
<1>1. v = UnitView(tele, now)
  BY Zenon DEF ViewOf
<1>2. units # Null /\ u \in Dashboard.normal => ~v.attention
  BY Zenon DEF Dashboard
<1>3. OverviewStarts(tele, now) # {} => ~v.stale
  BY <1>1, Zenon DEF OverviewStarts, Starts
<1>4. RemoteStarts(tele, now) # {} => tele = Null \/ ~IsStale(tele, now)
  BY Zenon DEF RemoteStarts, Starts
<1>5. CASE IsStale(tele, now)
  <2>1. /\ v.status \in {"No APU data", "No data", "Offline"} /\ v.stale = TRUE
        /\ v.status = "No APU data" <=> ApuSilent(tele, now)
        /\ ~v.attention => v.status = "No data"
    <3> HIDE DEF v, tele
    <3>1. LET w == UnitView(tele, now)
          IN  /\ w.status \in {"No APU data", "No data", "Offline"}
              /\ w.status = "No APU data" <=> ApuSilent(tele, now)
              /\ w.status = "No data" <=> ~ApuSilent(tele, now) /\ (tele = Null \/ tele.row = Null)
              /\ w.stale = TRUE /\ w.attention \in BOOLEAN
              /\ ~w.attention => w.status = "No data"
      BY <1>5, StaleViews
    <3> QED
      BY <1>1, <3>1, Zenon
  <2>2. ASSUME ApuSilent(tele, now) PROVE Silent \in Recently(u)
    <3> DEFINE l == tele.link
    <3>1. tele # Null /\ l # Null /\ l.apu = "down" /\ now - l.hb <= Fresh
      BY <2>2 DEF ApuSilent
    <3>2. LinkTrue(u, l)
      BY <3>1 DEF FleetInv, CardsTrue
    <3>3. l.hb \in 1 .. now /\ was[u][l.hb] = Silent
      BY <3>1, <3>2 DEF LinkTrue
    <3> QED
      BY <3>1, <3>3, Recent
  <2>3. UpToDate(u) => ~Reported(u)
    BY <1>5, UpToDateCard
  <2> HIDE DEF v, so, tele
  <2> QED
    BY <1>2, <1>3, <1>4, <1>5, <2>1, <2>2, <2>3 DEF v, so, tele
<1>6. CASE ~IsStale(tele, now)
  <2>1. /\ tele # Null /\ r # Null /\ r \in RowType
        /\ \E c \in so : /\ r.err = c.err /\ r.batt = c.batt /\ r.oil = c.oil /\ r.on = c.on
                         /\ Trouble(c) <=> r.err \notin {0, 7} \/ r.batt < 120 \/ ~r.oil
    BY <1>6, FreshCard
  <2>2. v = RowView(r)
    BY <1>1, <1>6, Zenon DEF UnitView
  <2>3. /\ v.status = "Fault" <=> r.err \notin {0, 7}
        /\ v.status = "Warning" <=> r.err \in {0, 7} /\ (r.batt < 120 \/ ~r.oil)
        /\ v.status = "Standby" => (~r.on \/ r.err = 7) /\ r.err \in {0, 7} /\ ~(r.batt < 120) /\ r.oil
        /\ v.status = "Running" => r.on /\ r.err \in {0, 7} /\ ~(r.batt < 120) /\ r.oil
        /\ v.status \in {"Fault", "Warning", "Standby", "Running"}
        /\ ~v.attention => v.status \in {"Standby", "Running"}
    BY <2>1, <2>2, RowViews
  <2>4. PICK c \in so : /\ r.err = c.err /\ r.batt = c.batt /\ r.oil = c.oil /\ r.on = c.on
                        /\ Trouble(c) <=> r.err \notin {0, 7} \/ r.batt < 120 \/ ~r.oil
    BY <2>1
  <2>5. Trouble(r) <=> r.err \notin {0, 7} \/ r.batt < 120 \/ ~r.oil
    BY Zenon DEF Trouble
  <2>6. UpToDate(u) => Reported(u)
    BY <1>6, UpToDateCard
  <2>7. ~v.attention => ~Trouble(r)
    <3> HIDE DEF v, r
    <3> QED
      BY <2>3, <2>5
  <2>8. /\ v.status = "Fault" => \E d \in so : d.err = r.err /\ d.err \notin {0, 7}
        /\ v.status = "Warning" => \E d \in so : d.err \in {0, 7} /\ Trouble(d)
        /\ v.status = "Running" => \E d \in so : d.on /\ ~Trouble(d)
        /\ v.status = "Standby" => \E d \in so : (~d.on \/ d.err = 7) /\ ~Trouble(d)
    <3> HIDE DEF v, r, so
    <3> QED
      BY <2>3, <2>4
  <2>9. v.status \notin {"No APU data", "Offline", "No data"}
    <3> HIDE DEF v, r
    <3> QED
      BY <2>3
  <2>10. so # {}
    BY <2>4
  <2> HIDE DEF v, so, tele, r
  <2> QED
    BY <1>2, <2>6, <2>7, <2>8, <2>9, <2>10 DEF v, so, tele, r
<1> QED
  BY <1>5, <1>6

THEOREM CardsHold == Spec => []CardTells
<1> QED
  BY FleetInductive, TrueCards, PTL

-----------------------------------------------------------------------------
(* Alerts and the cards.                                                   *)

(* What a card's fresh row says is the newest event of the unit: an event  *)
(* after it would be one of a row in between, or of a silence that lasted. *)
LEMMA RowIsNews ==
    ASSUME FleetInv, NEW u \in Units, UpToDate(u), ~Overtaken(u), ~IsStale(cache[u].tele, now)
    PROVE  LET r == cache[u].tele.row
           IN  /\ \A e \in NewestOf(1, events[u]) : e.code = r.err
               /\ r.err # 0 => NewestOf(1, events[u]) # {}
<1> DEFINE r == cache[u].tele.row
           E == events[u]
<1>1. r \in rows[u] /\ \A q \in rows[u] : q.ts <= r.ts
  BY UpToDateCard
<1>2. r \in RowType /\ now - r.ts <= Fresh
  BY FreshCard
<1>3. /\ E \subseteq Said(u) /\ rows[u] \subseteq Heard(u) /\ r \in Heard(u)
      /\ Heard(u) = rows[u] \cup backlog[u].rows /\ Said(u) = E \cup backlog[u].events
  BY <1>1 DEF Heard, Said
<1>4. /\ \A q \in Heard(u) : q.ts \in 1 .. now
      /\ \A e \in Said(u) : e.ts \in 0 .. now
      /\ now \in Nat
  BY Times DEF FleetInv, UnitTypeOK
<1>5. /\ \A y \in backlog[u].events, x \in rows[u] : ~(y.ts <= x.ts)
      /\ \A y \in backlog[u].rows, x \in E : ~(y.ts <= x.ts)
  BY DEF Overtaken
<1>6. /\ \A e, f \in Said(u) : e.ts = f.ts => e = f
      /\ Standing(Said(u), r.ts, r.err)
  BY <1>3 DEF FleetInv, EventsTell
<1>7. NewestOf(1, E) = {e \in E : \A f \in E : f.ts <= e.ts}
  <2>1. IsFiniteSet(Said(u))
    BY DEF FleetInv, CloudTypeOK
  <2>2. IsFiniteSet(E) /\ \A e \in E : e.ts \in Nat
    BY <1>3, <1>4, <2>1, FS_Subset
  <2> QED
    BY <2>2, NewestOne
<1> HIDE DEF r, E
<1>8. \A e \in E : e.ts <= r.ts
  <2> SUFFICES ASSUME NEW e \in E, r.ts < e.ts PROVE FALSE
    BY <1>3, <1>4
  <2>1. \/ \E q \in Heard(u) : r.ts < q.ts /\ q.ts <= e.ts
        \/ e.code = NoReply /\ e.ts - r.ts > Fresh
    BY <1>3 DEF FleetInv, SilenceTold
  <2>2. CASE e.ts - r.ts > Fresh
    BY <1>2, <1>3, <1>4, <2>2, ViewsAssumption
  <2>3. ASSUME NEW q \in Heard(u), r.ts < q.ts, q.ts <= e.ts PROVE FALSE
    <3>1. CASE q \in rows[u]
      BY <1>1, <1>3, <1>4, <2>3, <3>1
    <3>2. CASE q \in backlog[u].rows
      BY <1>3, <1>4, <1>5, <2>3, <3>2
    <3> QED
      BY <1>3, <3>1, <3>2
  <2> QED
    BY <2>1, <2>2, <2>3
<1>9. CASE r.err = 0 /\ \A e \in Said(u) : e.ts > r.ts
  <2>1. E = {}
    BY <1>3, <1>4, <1>8, <1>9
  <2> QED
    BY <1>7, <1>9, <2>1 DEF r, E
<1>10. CASE \E e \in Said(u) : e.ts <= r.ts /\ e.code = r.err /\ \A f \in Said(u) : f.ts <= r.ts => f.ts <= e.ts
  <2>1. PICK e \in Said(u) : e.ts <= r.ts /\ e.code = r.err /\ \A f \in Said(u) : f.ts <= r.ts => f.ts <= e.ts
    BY <1>10
  <2>2. e \in E
    BY <1>1, <1>3, <1>4, <1>5, <2>1
  <2>3. \A f \in E : f.ts <= e.ts
    BY <1>3, <1>8, <2>1
  <2>4. \A f \in NewestOf(1, E) : f = e
    <3> TAKE f \in NewestOf(1, E)
    <3>1. f \in E /\ f \in Said(u) /\ e.ts <= f.ts
      BY <1>3, <1>7, <2>2
    <3>2. f.ts = e.ts
      BY <1>4, <2>3, <3>1
    <3> QED
      BY <1>6, <3>1, <3>2
  <2>5. e \in NewestOf(1, E)
    BY <1>7, <2>2, <2>3
  <2> QED
    BY <2>1, <2>4, <2>5 DEF r, E
<1> QED
  BY <1>6, <1>9, <1>10 DEF Standing

(* The active fault of a unit is its newest event, unless that is older    *)
(* than what Alerts asks for, or of no fault.                              *)
LEMMA ActiveNow ==
    ASSUME FleetInv, NEW u \in Units
    PROVE  ActiveFaults(GetFaults(u, Week)) =
               {e \in NewestOf(1, events[u]) : now - e.ts <= Week /\ e.code \notin {0, 7}}
<1>1. /\ IsFiniteSet(events[u]) /\ now \in Nat
      /\ \A e \in events[u] : e.ts \in 0 .. now /\ (e.state = "active" <=> e.code \notin {0, 7})
  <2>1. events[u] \subseteq Said(u) /\ IsFiniteSet(Said(u))
    BY DEF Said, FleetInv, CloudTypeOK
  <2>2. \A e \in Said(u) : e.state = "active" <=> e.code \notin {0, STANDBY}
    BY DEF FleetInv, EventsTell
  <2> QED
    BY <2>1, <2>2, Times, FS_Subset DEF STANDBY, FleetInv, UnitTypeOK
<1>2. NewestOf(1, GetFaults(u, Week)) = {e \in NewestOf(1, events[u]) : now - e.ts <= Week}
  BY <1>1, NewestEvent DEF GetFaults
<1>3. NewestOf(1, events[u]) \subseteq events[u]
  BY DEF NewestOf
<1> QED
  BY <1>1, <1>2, <1>3 DEF ActiveFaults, STANDBY

(* The card of a unit whose faults Alerts has.                             *)
LEMMA CardAndFaults ==
    ASSUME FleetInv, NEW u \in Units, UpToDate(u), ~Overtaken(u)
    PROVE  LET v == ViewOf(u)
               r == cache[u].tele.row
               newest == NewestOf(1, events[u])
           IN  /\ v.status = "Fault" => /\ newest # {} /\ \A e \in newest : e.code = r.err
                                        /\ r.err \notin {0, 7}
               /\ \A e \in newest : e.code \notin {0, 7} =>
                      v.stale \/ (v.status = "Fault" /\ e.code # NoReply)
               /\ key.all => (StaleNote(u) # Null <=> v.stale)
<1> DEFINE v == ViewOf(u)
           tele == cache[u].tele
           r == tele.row
           newest == NewestOf(1, events[u])
<1>1. ~cache[u].pending /\ cache[u].known /\ v = UnitView(tele, now)
  BY Zenon DEF UpToDate, ViewOf
<1>2. CASE IsStale(tele, now)
  <2> HIDE DEF newest
  <2>1. LET w == UnitView(tele, now)
        IN  /\ w.status \in {"No APU data", "No data", "Offline"}
            /\ w.status = "No APU data" <=> ApuSilent(tele, now)
            /\ w.status = "No data" <=> ~ApuSilent(tele, now) /\ (tele = Null \/ tele.row = Null)
            /\ w.stale = TRUE /\ w.attention \in BOOLEAN
            /\ ~w.attention => w.status = "No data"
    BY <1>2, StaleViews
  <2>2. v.stale /\ v.status # "Fault"
    BY <1>1, <2>1
  <2>3. key.all => StaleNote(u) # Null
    <3> SUFFICES ASSUME key.all PROVE StaleNote(u) # Null
      OBVIOUS
    <3>1. StaleNote(u) = IF UnitView(tele, now).status = "No APU data" THEN UnitView(tele, now).status
                         ELSE "Unit offline"
      BY <1>1, <2>1 DEF StaleNote
    <3>2. StaleNote(u) = "No APU data" \/ StaleNote(u) = "Unit offline"
      BY <3>1, Zenon
    <3> QED
      BY <3>2, NullAssumption
  <2> QED
    BY <2>2, <2>3, Zenon
<1>3. CASE ~IsStale(tele, now)
  <2>1. /\ \A e \in newest : e.code = r.err
        /\ r.err # 0 => newest # {}
    BY <1>3, RowIsNews
  <2>2. r \in RowType
    BY <1>3, FreshCard
  <2>3. v = RowView(r)
    BY <1>1, <1>3, Zenon DEF UnitView
  <2>4. RowView(r).status = "Fault" <=> r.err \notin {0, 7}
    BY <2>2, RowViews
  <2>5. r.err # NoReply
    BY <2>2 DEF RowType, NoReply
  <2>6. v.stale = FALSE /\ StaleNote(u) = Null
    <3>1. RowView(r).stale = FALSE
      BY <2>2, RowViews
    <3> QED
      BY <1>1, <2>3, <3>1, Zenon DEF StaleNote
  <2> HIDE DEF newest, v, r
  <2> QED
    BY <2>1, <2>3, <2>4, <2>5, <2>6 DEF newest, v, r
<1> QED
  BY <1>2, <1>3

(* Alerts and the cards of the same moment tell the same story of a unit   *)
(* whose buffer is not just being sent: a card's fault is the unit's       *)
(* newest event and, when that is no older than the seven days Alerts asks *)
(* for, an active fault there; an active fault is on the card, or the card *)
(* has no current data of the unit, which in allMode the row of the fault  *)
(* says too (AlertsPage.jsx:64-89, 118-176, contract.js:209-270).          *)
LEMMA AgreeingPages == FleetInv => PagesAgree
<1> SUFFICES ASSUME FleetInv, page = "alerts" /\ shown # Null
             PROVE  PagesAgree
  BY Zenon DEF PagesAgree
<1> DEFINE active == AlertRows.active
           told == {u \in DOMAIN AlertRows.active :
                       /\ UpToDate(u) /\ ~Overtaken(u)
                       /\ shown.content.faults[u] = GetFaults(u, Week)}
           faulty == {u \in told : ViewOf(u).status = "Fault"}
           newest(u) == NewestOf(1, events[u])
           old == {u \in faulty : \A e \in newest(u) : now - e.ts > Week}
           err == {u \in DOMAIN active : \E e \in active[u] : FaultInfo(e) = "err"}
           warn == {u \in DOMAIN active : \E e \in active[u] : FaultInfo(e) = "warn"}
           counts == SeverityCounts(AlertRows)
<1>1. /\ DOMAIN active \subseteq Units
      /\ \A u \in DOMAIN active : active[u] = ActiveFaults(shown.content.faults[u])
  <2>1. DOMAIN shown.content.faults \subseteq Units
    BY DEF FleetInv, PagesTell
  <2> DEFINE loaded == {u \in DOMAIN shown.content.faults : shown.content.faults[u] # Null}
  <2>2. active = [u \in loaded |-> ActiveFaults(shown.content.faults[u])]
    BY DEF AlertRows, FleetFaultRows
  <2> QED
    BY <2>1, <2>2
<1>2. ASSUME NEW u \in told
      PROVE  /\ u \in DOMAIN active /\ u \in Units /\ UpToDate(u) /\ ~Overtaken(u)
             /\ active[u] = {e \in newest(u) : now - e.ts <= Week /\ e.code \notin {0, 7}}
  <2>1. u \in Units /\ active[u] = ActiveFaults(GetFaults(u, Week))
    BY <1>1
  <2> QED
    BY <2>1, ActiveNow
<1>3. ASSUME NEW u \in told
      PROVE  /\ ViewOf(u).status = "Fault" =>
                    /\ newest(u) # {} /\ \A e \in newest(u) : e.code = cache[u].tele.row.err
                    /\ cache[u].tele.row.err \notin {0, 7}
             /\ \A e \in newest(u) : e.code \notin {0, 7} =>
                    ViewOf(u).stale \/ (ViewOf(u).status = "Fault" /\ e.code # NoReply)
             /\ key.all => (StaleNote(u) # Null <=> ViewOf(u).stale)
  <2>1. u \in Units /\ UpToDate(u) /\ ~Overtaken(u)
    BY <1>2
  <2> QED
    BY <2>1, CardAndFaults
<1>4. ASSUME NEW u \in told, NEW e \in newest(u)
      PROVE  ~(now - e.ts > Week) => now - e.ts <= Week
  <2>1. e \in Said(u) /\ u \in Units
    BY <1>2 DEF NewestOf, Said
  <2>2. e.ts \in Nat /\ now \in Nat
    BY <2>1, Times DEF FleetInv, UnitTypeOK
  <2> QED
    BY <2>2, ViewsAssumption
<1> HIDE DEF active, told, newest, err, warn, counts
<1>5. ASSUME NEW u \in faulty
      PROVE  \E e \in newest(u) : /\ e.code = cache[u].tele.row.err
                                  /\ u \notin old => e \in active[u]
  <2>1. u \in told /\ newest(u) # {} /\ \A e \in newest(u) : e.code = cache[u].tele.row.err /\ e.code \notin {0, 7}
    BY <1>3
  <2>2. CASE u \in old
    BY <2>1, <2>2
  <2>3. CASE u \notin old
    <3>1. PICK e \in newest(u) : ~(now - e.ts > Week)
      BY <2>3
    <3>2. e \in active[u]
      BY <1>2, <1>4, <2>1, <3>1
    <3> QED
      BY <2>1, <3>1, <3>2
  <2> QED
    BY <2>2, <2>3
<1>6. ASSUME NEW u \in told, NEW e \in active[u]
      PROVE  /\ ViewOf(u).stale \/ (ViewOf(u).status = "Fault" /\ e.code # NoReply)
             /\ key.all => (StaleNote(u) # Null <=> ViewOf(u).stale)
  BY <1>2, <1>3
<1>7. ASSUME NoActiveFaults PROVE faulty = old
  <2>1. \A u \in DOMAIN active : active[u] = {}
    BY <1>7 DEF NoActiveFaults, active
  <2>2. \A u \in faulty : u \in DOMAIN active
    BY <1>2
  <2> QED
    BY <1>5, <2>1, <2>2
<1>8. counts["err"] + counts["warn"] >= Cardinality(faulty \ old)
  <2>1. IsFiniteSet(err) /\ IsFiniteSet(warn)
    <3>1. err \subseteq Units /\ warn \subseteq Units
      BY <1>1 DEF err, warn
    <3> QED
      BY <3>1, FS_Subset, FleetAssumption
  <2>2. counts["err"] = Cardinality(err) /\ counts["warn"] = Cardinality(warn)
    BY DEF counts, SeverityCounts, err, warn, active
  <2>3. faulty \ old \subseteq err \cup warn
    <3> SUFFICES ASSUME NEW u \in faulty, u \notin old PROVE u \in err \cup warn
      OBVIOUS
    <3>1. PICK e \in active[u] : TRUE
      BY <1>5
    <3>2. u \in DOMAIN active
      BY <1>2
    <3> QED
      BY <3>1, <3>2 DEF err, warn, FaultInfo
  <2>4. /\ IsFiniteSet(err \cup warn)
        /\ Cardinality(err \cup warn) = Cardinality(err) + Cardinality(warn) - Cardinality(err \cap warn)
    BY <2>1, FS_Union
  <2>5. IsFiniteSet(err \cap warn)
    BY <2>1, FS_Subset
  <2>6. /\ Cardinality(err) \in Nat /\ Cardinality(warn) \in Nat
        /\ Cardinality(err \cap warn) \in Nat /\ Cardinality(err \cup warn) \in Nat
    BY <2>1, <2>4, <2>5, FS_CardinalityType
  <2>7. IsFiniteSet(faulty \ old) /\ Cardinality(faulty \ old) <= Cardinality(err \cup warn)
    BY <2>3, <2>4, FS_Subset
  <2>8. Cardinality(faulty \ old) \in Nat
    BY <2>7, FS_CardinalityType
  <2> HIDE DEF faulty, old
  <2> QED
    BY <2>2, <2>4, <2>6, <2>7, <2>8
<1> HIDE DEF faulty, old
<1>9. /\ \A u \in faulty : \E e \in newest(u) : /\ e.code = cache[u].tele.row.err
                                                /\ u \notin old => e \in active[u]
      /\ \A u \in told : \A e \in active[u] :
             /\ ViewOf(u).stale \/ (ViewOf(u).status = "Fault" /\ e.code # NoReply)
             /\ key.all => (StaleNote(u) # Null <=> ViewOf(u).stale)
      /\ NoActiveFaults => faulty = old
      /\ counts["err"] + counts["warn"] >= Cardinality(faulty \ old)
  BY <1>5, <1>6, <1>7, <1>8
<1> QED
  BY <1>9 DEF PagesAgree, faulty, old, told, newest, active, counts

THEOREM PagesHold == Spec => []PagesAgree
<1> QED
  BY FleetInductive, AgreeingPages, PTL

-----------------------------------------------------------------------------
(* The queries.                                                            *)

(* Tags or not, a page gets the newest rows there are: GET /latest the     *)
(* newest of the day and GET /telemetry the newest two of the range,       *)
(* however many series the enum fields split them into                     *)
(* (flux.js:24-53).                                                        *)
LEMMA TagsHideNothing ==
    FleetInv =>
        \A u \in Units :
            /\ LatestFlux(rows[u], now) = NewestOf(1, InRange(rows[u], now, Day))
            /\ \A range \in {Day, Week} : GetTelemetry(u, range) = NewestOf(2, InRange(rows[u], now, range))
<1> SUFFICES ASSUME FleetInv, NEW u \in Units
             PROVE  /\ LatestFlux(rows[u], now) = NewestOf(1, InRange(rows[u], now, Day))
                    /\ \A range \in {Day, Week} : GetTelemetry(u, range) = NewestOf(2, InRange(rows[u], now, range))
  OBVIOUS
<1>1. now \in Nat /\ IsFiniteSet(rows[u]) /\ \A r \in rows[u] : r.ts \in 0 .. now
  <2>1. rows[u] \subseteq Heard(u) /\ IsFiniteSet(Heard(u)) /\ now \in Nat
    BY DEF Heard, FleetInv, CloudTypeOK, UnitTypeOK
  <2> QED
    BY <2>1, Times, FS_Subset
<1>2. ASSUME NEW range \in {Day, Week}, NEW k \in Nat
      PROVE  NewestOf(k, UNION {NewestOf(k, s) : s \in Series(InRange(rows[u], now, range))})
                 = NewestOf(k, InRange(rows[u], now, range))
  <2> DEFINE in == InRange(rows[u], now, range)
  <2>1. in \subseteq rows[u]
    BY DEF InRange
  <2> HIDE DEF in
  <2>2. IsFiniteSet(in) /\ \A r \in in : r.ts \in 0 .. now
    BY <1>1, <2>1, FS_Subset
  <2>3. NewestOf(k, UNION {NewestOf(k, s) : s \in Series(in)}) = NewestOf(k, in)
    BY <1>1, <2>2, SeriesTail
  <2> QED
    BY <2>3 DEF in
<1> QED
  BY <1>2 DEF LatestFlux, GetTelemetry, TelemetryFlux

THEOREM NewestServed ==
    Spec => [](\A u \in Units :
                  /\ LatestFlux(rows[u], now) = NewestOf(1, InRange(rows[u], now, Day))
                  /\ \A range \in {Day, Week} :
                         GetTelemetry(u, range) = NewestOf(2, InRange(rows[u], now, range)))
<1> QED
  BY FleetInductive, TagsHideNothing, PTL

-----------------------------------------------------------------------------
(* The rest of the invariant, for a reader.                                *)

(* Every variable of units, cloud and browser keeps its type: what is held *)
(* of a unit is finite, and no page is open without a selection of its     *)
(* own (hooks.js, the pages).                                              *)
THEOREM FleetTypeCorrect == Spec => [](UnitTypeOK /\ CloudTypeOK /\ PageTypeOK)
<1> QED
  BY FleetInductive, PTL DEF FleetInv

(* Through every outage the fault events tell the code of each row: what   *)
(* stands at a row is its error, and no event comes between two rows but   *)
(* that of a silence of more than a minute, sent or buffered               *)
(* (main.c:1445-1459, main.c:257-294, apu_silence.c:9-13).                 *)
THEOREM EventsTellRows == Spec => [](EventsTell /\ SilenceTold)
<1> QED
  BY FleetInductive, PTL DEF FleetInv
=============================================================================
