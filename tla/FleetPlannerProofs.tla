------------------------- MODULE FleetPlannerProofs --------------------------
(***************************************************************************)
(* Theorems about FleetPlanner, for any fleets, sites, points and limits.  *)
(***************************************************************************)
EXTENDS FleetPlanner, FiniteSetTheorems, TLAPS

-----------------------------------------------------------------------------
(***************************************************************************)
(* The sum of capacities counts the slots: the pairs of a point and one of *)
(* its places.                                                             *)
(***************************************************************************)

LEMMA LeastNatural ==
    ASSUME NEW T, T \subseteq Nat, T # {}
    PROVE  \E n \in T : \A k \in T : n <= k
<1> DEFINE R == {pair \in Nat \X Nat : pair[1] < pair[2]}
<1>1. IsWellFoundedOn(R, Nat)
  BY NatLessThanWellFounded, Zenon DEF OpToRel
<1> HIDE DEF R
<1>2. PICK n \in T : \A k \in T : ~ (<<k, n>> \in R)
  BY <1>1, WFMin
<1>3. \A k \in T : <<k, n>> \in R <=> k < n
  BY DEF R
<1>4. \A k \in T : k \in Nat /\ ~ (k < n)
  BY <1>2, <1>3
<1> QED
  BY <1>4

PlacesAt(p) == {p} \X (1..site.points[p].capacity)

PlacesOf(points) == UNION {PlacesAt(p) : p \in points}

LEMMA PlacesAdd ==
    ASSUME NEW S, IsFiniteSet(S),
           \A p \in S : site.points[p].capacity \in Nat,
           NEW x \in S
    PROVE  /\ IsFiniteSet(PlacesOf(S)) /\ Cardinality(PlacesOf(S)) \in Nat
           /\ Cardinality(PlacesOf(S))
                 = site.points[x].capacity + Cardinality(PlacesOf(S \ {x}))
<1>1. ASSUME NEW p \in S
      PROVE  /\ IsFiniteSet(PlacesAt(p))
             /\ Cardinality(PlacesAt(p)) = site.points[p].capacity
  <2>1. site.points[p].capacity \in Nat
    OBVIOUS
  <2>2. PICK c \in Nat : c = site.points[p].capacity
    BY <2>1
  <2>3. IsFiniteSet(1..c) /\ Cardinality(1..c) = IF 1 > c THEN 0 ELSE c - 1 + 1
    BY FS_Interval
  <2>4. IsFiniteSet({p}) /\ Cardinality({p}) = 1
    BY FS_Singleton
  <2>5. /\ IsFiniteSet({p} \X (1..c))
        /\ Cardinality({p} \X (1..c)) = Cardinality({p}) * Cardinality(1..c)
    BY <2>3, <2>4, FS_Product
  <2>6. Cardinality({p} \X (1..c)) = c
    BY <2>3, <2>4, <2>5
  <2> QED
    BY <2>2, <2>5, <2>6 DEF PlacesAt
<1>2. ASSUME NEW T, T \subseteq S
      PROVE  IsFiniteSet(PlacesOf(T)) /\ Cardinality(PlacesOf(T)) \in Nat
  <2>1. IsFiniteSet(T)
    BY <1>2, FS_Subset
  <2>2. IsFiniteSet({PlacesAt(p) : p \in T})
    <3> DEFINE at == [p \in T |-> PlacesAt(p)]
    <3>1. at \in Surjection(T, {PlacesAt(p) : p \in T})
      BY DEF Surjection
    <3> QED
      BY <2>1, <3>1, FS_Surjection
  <2>3. \A Q \in {PlacesAt(p) : p \in T} : IsFiniteSet(Q)
    BY <1>1, <1>2
  <2>4. IsFiniteSet(PlacesOf(T))
    BY <2>2, <2>3, FS_UNION DEF PlacesOf
  <2> QED
    BY <2>4, FS_CardinalityType
<1>3. PlacesOf(S) = PlacesAt(x) \union PlacesOf(S \ {x})
  BY DEF PlacesOf
<1>4. PlacesAt(x) \intersect PlacesOf(S \ {x}) = {}
  BY DEF PlacesOf, PlacesAt
<1>5. IsFiniteSet(PlacesOf(S \ {x})) /\ Cardinality(PlacesOf(S \ {x})) \in Nat
  BY <1>2
<1>6. Cardinality(PlacesAt(x) \union PlacesOf(S \ {x})) =
         Cardinality(PlacesAt(x)) + Cardinality(PlacesOf(S \ {x})) - Cardinality({})
  <2> DEFINE A == PlacesAt(x)
             B == PlacesOf(S \ {x})
  <2>1. IsFiniteSet(A) /\ IsFiniteSet(B) /\ A \intersect B = {}
    BY <1>1, <1>4, <1>5
  <2> HIDE DEF A, B
  <2>2. Cardinality(A \union B) = Cardinality(A) + Cardinality(B) - Cardinality({})
    BY <2>1, FS_Union
  <2> QED
    BY <2>2 DEF A, B
<1>7. Cardinality(PlacesOf(S)) =
         site.points[x].capacity + Cardinality(PlacesOf(S \ {x})) - Cardinality({})
  BY <1>1, <1>3, <1>6
<1>8. Cardinality({}) = 0 /\ site.points[x].capacity \in Nat
  BY FS_EmptySet
<1>9. IsFiniteSet(PlacesOf(S)) /\ Cardinality(PlacesOf(S)) \in Nat
  BY <1>2
<1> QED
  BY <1>5, <1>7, <1>8, <1>9

\* g sums the capacities of the subsets of S, one point at a time.
Sums(g, S) ==
    g = [s \in SUBSET S |->
            IF s = {} THEN 0
            ELSE LET x == CHOOSE x \in s : TRUE
                 IN  site.points[x].capacity + g[s \ {x}]]

LEMMA SumsCountPlaces ==
    ASSUME NEW S, IsFiniteSet(S),
           \A p \in S : site.points[p].capacity \in Nat,
           NEW g, Sums(g, S)
    PROVE  g[S] = Cardinality(PlacesOf(S))
<1> DEFINE Wrong == {s \in SUBSET S : g[s] # Cardinality(PlacesOf(s))}
           T == {Cardinality(s) : s \in Wrong}
<1>1. \A s \in SUBSET S : IsFiniteSet(s) /\ Cardinality(s) \in Nat
  BY FS_Subset, FS_CardinalityType
<1>2. SUFFICES ASSUME Wrong # {} PROVE FALSE
  BY DEF Wrong
<1>3. T \subseteq Nat /\ T # {}
  BY <1>1, <1>2
<1>4. PICK n \in T : \A k \in T : n <= k
  <2> HIDE DEF T
  <2> QED
    BY <1>3, LeastNatural
<1>5. PICK s \in Wrong : n = Cardinality(s)
  BY <1>4
<1>6. s # {}
  <2>1. g[{}] = 0
    BY DEF Sums
  <2>2. PlacesOf({}) = {}
    BY DEF PlacesOf
  <2> QED
    BY <2>1, <2>2, FS_EmptySet
<1>7. PICK x : x = CHOOSE y \in s : TRUE
  OBVIOUS
<1>8. x \in s
  BY <1>6, <1>7
<1>9. g[s] = site.points[x].capacity + g[s \ {x}]
  BY <1>6, <1>7 DEF Sums
<1>10. g[s \ {x}] = Cardinality(PlacesOf(s \ {x}))
  <2>1. s \ {x} \in SUBSET S /\ IsFiniteSet(s)
    BY <1>1
  <2>2. Cardinality(s \ {x}) = Cardinality(s) - 1
    BY <1>8, <2>1, FS_RemoveElement
  <2>3. Cardinality(s \ {x}) \notin T
    <3>1. Cardinality(s) \in Nat
      BY <1>1, <1>5
    <3> HIDE DEF T
    <3> QED
      BY <1>4, <1>5, <2>2, <3>1
  <2> QED
    BY <2>1, <2>3
<1>11. Cardinality(PlacesOf(s)) = site.points[x].capacity + Cardinality(PlacesOf(s \ {x}))
  BY <1>1, <1>8, PlacesAdd
<1> QED
  BY <1>9, <1>10, <1>11

LEMMA CapacityCountsPlaces ==
    ASSUME NEW S, IsFiniteSet(S),
           \A p \in S : site.points[p].capacity \in Nat
    PROVE  Capacity(S) = Cardinality(PlacesOf(S))
<1> DEFINE f == [s \in SUBSET S |-> Cardinality(PlacesOf(s))]
           g == CHOOSE h : Sums(h, S)
<1>1. Sums(f, S)
  <2>1. ASSUME NEW s \in SUBSET S, s = {}
        PROVE  Cardinality(PlacesOf(s)) = 0
    BY <2>1, FS_EmptySet DEF PlacesOf
  <2>2. ASSUME NEW s \in SUBSET S, s # {}, NEW x \in s
        PROVE  Cardinality(PlacesOf(s)) = site.points[x].capacity + f[s \ {x}]
    <3>1. IsFiniteSet(s)
      BY FS_Subset
    <3> QED
      BY <3>1, PlacesAdd
  <2>3. ASSUME NEW s \in SUBSET S, s # {}
        PROVE  (CHOOSE x \in s : TRUE) \in s
    BY <2>3
  <2>4. ASSUME NEW s \in SUBSET S
        PROVE  Cardinality(PlacesOf(s)) =
                  IF s = {} THEN 0
                  ELSE LET x == CHOOSE x \in s : TRUE
                       IN  site.points[x].capacity + f[s \ {x}]
    <3> HIDE DEF f
    <3> QED
      BY <2>1, <2>2, <2>3
  <2> QED
    BY <2>4 DEF Sums
<1>2. Sums(g, S)
  <2> HIDE DEF f
  <2> QED
    BY <1>1
<1>3. g[S] = Cardinality(PlacesOf(S))
  <2> HIDE DEF g
  <2> QED
    BY <1>2, SumsCountPlaces
<1>4. Capacity(S) = g[S]
  BY DEF Capacity, MapThenSumSet, MapThenFoldSet, Sums
<1> QED
  BY <1>3, <1>4

LEMMA SiteFields ==
    ASSUME site \in Sites
    PROVE  /\ site.online \in BOOLEAN /\ site.age \in Int /\ site.ageAtCapture \in Int
           /\ site.batchSize \in Nat \ {0} /\ site.batchInterval \in Nat
           /\ \A p \in Points :
                 /\ site.points[p].capacity \in Nat \ {0}
                 /\ site.points[p].priority \in Nat
                 /\ site.points[p].available \in BOOLEAN
<1>1. site \in FleetSiteState
  BY SnapshotAssumption
<1>2. \A p \in Points : site.points[p] \in SafePoint
  BY <1>1 DEF FleetSiteState
<1> QED
  BY <1>1, <1>2 DEF FleetSiteState, SafePoint

LEMMA CapacityAdds ==
    ASSUME site \in Sites, NEW S, S \subseteq Points
    PROVE  /\ Capacity(S) \in Nat
           /\ \A x \in S : Capacity(S) = site.points[x].capacity + Capacity(S \ {x})
<1>1. \A p \in S : site.points[p].capacity \in Nat
  BY SiteFields
<1>2. IsFiniteSet(S)
  BY SnapshotAssumption, FS_Subset
<1>3. Capacity(S) = Cardinality(PlacesOf(S)) /\ Capacity(S) \in Nat
  <2>1. CASE S = {}
    BY <1>1, <1>2, <2>1, CapacityCountsPlaces, FS_EmptySet DEF PlacesOf
  <2>2. CASE S # {}
    BY <1>1, <1>2, <2>2, CapacityCountsPlaces, PlacesAdd
  <2> QED
    BY <2>1, <2>2
<1>4. ASSUME NEW x \in S
      PROVE  Capacity(S) = site.points[x].capacity + Capacity(S \ {x})
  <2>1. IsFiniteSet(S \ {x})
    BY <1>2, FS_RemoveElement
  <2>2. Capacity(S \ {x}) = Cardinality(PlacesOf(S \ {x}))
    BY <1>1, <2>1, CapacityCountsPlaces
  <2> QED
    BY <1>1, <1>2, <1>3, <2>2, PlacesAdd
<1> QED
  BY <1>3, <1>4

\* Among points the preference is a strict total order.
LEMMA PreferenceOrders ==
    ASSUME site \in Sites, NEW p \in Points, NEW q \in Points
    PROVE  /\ ~Preferred(p, p)
           /\ p # q => Preferred(p, q) \/ Preferred(q, p)
           /\ \A r \in Points : Preferred(p, q) /\ Preferred(q, r) => Preferred(p, r)
<1>1. \A r \in Points : r \in Nat /\ site.points[r].priority \in Nat
  BY SiteFields, SnapshotAssumption
<1> QED
  BY <1>1 DEF Preferred

\* The best points that together hold more than i: the last of them has slot i.
LEMMA SlotHasPoint ==
    ASSUME site \in Sites, NEW i \in Nat, i < SlotCount
    PROVE  LET p == PointOfSlot(i)
               before == Capacity({q \in AvailablePoints : Preferred(q, p)})
           IN  /\ p \in AvailablePoints /\ before \in Nat
               /\ before <= i /\ i < before + site.points[p].capacity
<1> DEFINE Best(D) ==
             /\ D \subseteq AvailablePoints
             /\ \A p \in D, q \in AvailablePoints : Preferred(q, p) => q \in D
             /\ i < Capacity(D)
           Sizes == {Cardinality(D) : D \in {E \in SUBSET AvailablePoints : Best(E)}}
           Before(p) == Capacity({q \in AvailablePoints : Preferred(q, p)})
<1>1. AvailablePoints \subseteq Points /\ IsFiniteSet(AvailablePoints)
  BY SnapshotAssumption, FS_Subset DEF AvailablePoints
<1>2. \A D \in SUBSET AvailablePoints : IsFiniteSet(D) /\ Cardinality(D) \in Nat
  BY <1>1, FS_Subset, FS_CardinalityType
<1>3. Sizes \subseteq Nat /\ Sizes # {}
  <2>1. Best(AvailablePoints)
    BY DEF SlotCount
  <2> HIDE DEF Best
  <2> QED
    BY <1>2, <2>1
<1>4. PICK least \in Sizes : \A k \in Sizes : least <= k
  <2> HIDE DEF Sizes
  <2> QED
    BY <1>3, LeastNatural
<1>5. PICK D \in SUBSET AvailablePoints : Best(D) /\ least = Cardinality(D)
  BY <1>4
<1>6. D # {}
  <2>1. Capacity({}) = 0
    <3>1. Capacity({}) = Cardinality(PlacesOf({}))
      BY CapacityCountsPlaces, FS_EmptySet
    <3> QED
      BY <3>1, FS_EmptySet DEF PlacesOf
  <2> QED
    BY <1>5, <2>1
<1>7. PICK m \in D : \A q \in D : ~Preferred(m, q)
  <2> DEFINE After(p) == {q \in D : Preferred(p, q)}
             Counts == {Cardinality(After(p)) : p \in D}
  <2>1. \A p \in D : IsFiniteSet(After(p)) /\ Cardinality(After(p)) \in Nat
    BY <1>2
  <2>2. Counts \subseteq Nat /\ Counts # {}
    <3> HIDE DEF After
    <3> QED
      BY <1>6, <2>1
  <2>3. PICK n \in Counts : \A k \in Counts : n <= k
    <3> HIDE DEF Counts
    <3> QED
      BY <2>2, LeastNatural
  <2>4. PICK m \in D : n = Cardinality(After(m))
    BY <2>3
  <2>5. ASSUME NEW q \in D, Preferred(m, q)
        PROVE  FALSE
    <3>1. After(q) \subseteq After(m)
      <4>1. \A r \in D : Preferred(q, r) => Preferred(m, r)
        BY <1>1, <2>5, PreferenceOrders
      <4> QED
        BY <4>1
    <3>2. q \in After(m) /\ q \notin After(q)
      BY <1>1, <2>5, PreferenceOrders
    <3>3. Cardinality(After(q)) < Cardinality(After(m))
      <4> HIDE DEF After
      <4> QED
        BY <2>1, <3>1, <3>2, FS_Subset
    <3>4. Cardinality(After(q)) \in Counts
      OBVIOUS
    <3> QED
      <4> HIDE DEF After, Counts
      <4> QED
        BY <2>1, <2>3, <2>4, <3>3, <3>4
  <2> QED
    BY <2>5
<1>8. m \in AvailablePoints /\ site.points[m].capacity \in Nat
  BY <1>1, SiteFields
<1>9. D \ {m} = {q \in AvailablePoints : Preferred(q, m)}
  <2>1. \A q \in D \ {m} : Preferred(q, m)
    BY <1>1, <1>7, PreferenceOrders
  <2>2. \A q \in AvailablePoints : Preferred(q, m) => q \in D
    BY <1>5
  <2>3. ~Preferred(m, m)
    BY <1>7
  <2> QED
    BY <2>1, <2>2, <2>3
<1>10. Capacity(D) = site.points[m].capacity + Before(m) /\ Before(m) \in Nat
  <2>1. D \subseteq Points /\ D \ {m} \subseteq Points
    BY <1>1
  <2> QED
    BY <1>9, <2>1, CapacityAdds
<1>11. Before(m) <= i
  <2>1. SUFFICES ASSUME ~(Before(m) <= i) PROVE FALSE
    OBVIOUS
  <2>2. i < Capacity(D \ {m})
    <3> HIDE DEF Before
    <3>1. i < Before(m)
      BY <1>10, <2>1
    <3> QED
      BY <1>9, <3>1 DEF Before
  <2>3. Best(D \ {m})
    <3>1. \A p \in D \ {m}, q \in AvailablePoints :
             Preferred(q, p) => q \in D /\ q # m
      BY <1>5, <1>7
    <3> QED
      BY <2>2, <3>1
  <2>4. Cardinality(D \ {m}) \in Sizes
    <3> HIDE DEF Best
    <3> QED
      BY <2>3
  <2>5. Cardinality(D \ {m}) = Cardinality(D) - 1
    BY <1>2, FS_RemoveElement
  <2> QED
    <3> HIDE DEF Sizes
    <3> QED
      BY <1>2, <1>4, <1>5, <2>4, <2>5
<1>12. i < Before(m) + site.points[m].capacity
  <2>1. i < Capacity(D)
    BY <1>5
  <2> HIDE DEF Before
  <2> QED
    BY <1>8, <1>10, <2>1
<1>13. \E p \in AvailablePoints :
          Before(p) <= i /\ i < Before(p) + site.points[p].capacity
  BY <1>8, <1>11, <1>12
<1>14. PointOfSlot(i) = CHOOSE p \in AvailablePoints :
          Before(p) <= i /\ i < Before(p) + site.points[p].capacity
  BY DEF PointOfSlot
<1>15. PICK p : p = PointOfSlot(i)
  OBVIOUS
<1>16. /\ p \in AvailablePoints
       /\ Before(p) <= i /\ i < Before(p) + site.points[p].capacity
  <2> HIDE DEF Before
  <2> QED
    BY <1>13, <1>14, <1>15
<1>17. Before(p) \in Nat
  BY <1>1, CapacityAdds
<1> QED
  BY <1>15, <1>16, <1>17

-----------------------------------------------------------------------------
(***************************************************************************)
(* The decision with a queue.  Waiting longer never opens the window.      *)
(***************************************************************************)

LEMMA VehicleFields ==
    ASSUME fleet \in Fleets, NEW v \in Vehicles
    PROVE  /\ fleet[v].telemetry \in Telemetry
           /\ v \in Nat
           /\ OrElse(fleet[v].danger, 220) \in Nat \ {0}
           /\ OrElse(fleet[v].route, 260) \in Nat
<1>1. fleet[v] \in VehicleInput
  BY SnapshotAssumption
<1> QED
  BY <1>1, SnapshotAssumption DEF VehicleInput, OrElse

LEMMA PolicyFields ==
    ASSUME fleet \in Fleets, site \in Sites, NEW v \in Vehicles, NEW q \in Nat,
           NEW p, p = VehiclePolicy(v, q)
    PROVE  /\ p.danger = OrElse(fleet[v].danger, 220) /\ p.danger \in Nat \ {0}
           /\ p.routeDistance = OrElse(fleet[v].route, 260) /\ p.routeDistance \in Nat
           /\ p.queueAhead = q /\ p.batchSize = site.batchSize
           /\ p.batchInterval = site.batchInterval
           /\ p.safetyBuffer = 3000
           /\ p.prepareHorizon = 20000 /\ p.migrateHorizon = 7000
           /\ p.minConfidence = 72 /\ p.maxDisagreement = 50 /\ p.rainWatch = 50
<1>1. DefaultPolicy.danger = 220 /\ DefaultPolicy.routeDistance = 260
  BY DEF DefaultPolicy
<1> QED
  BY <1>1, VehicleFields DEF VehiclePolicy, DefaultPolicy

LEMMA QuotientsGrow ==
    ASSUME NEW n \in Nat \ {0}, NEW a \in Nat, NEW b \in Nat, a <= b
    PROVE  a \div n \in Nat /\ b \div n \in Nat /\ a \div n <= b \div n
<1>1. /\ a \div n \in Int /\ b \div n \in Int
      /\ a = n * (a \div n) + (a % n) /\ b = n * (b \div n) + (b % n)
      /\ a % n \in 0..(n - 1) /\ b % n \in 0..(n - 1)
  OBVIOUS
<1>2. PICK x \in Int, y \in Int, r \in Int, s \in Int :
        /\ x = a \div n /\ y = b \div n
        /\ a = n * x + r /\ b = n * y + s
        /\ 0 <= r /\ r < n /\ 0 <= s /\ s < n
  BY <1>1
<1>3. 0 <= x /\ 0 <= y
  <2>1. ASSUME NEW k \in Int, k < 0 PROVE n * k <= 0 - n
    BY <2>1
  <2> QED
    BY <1>2, <2>1
<1>4. x <= y
  <2>1. SUFFICES ASSUME y + 1 <= x PROVE FALSE
    BY <1>2
  <2>2. n * (y + 1) <= n * x
    BY <1>2, <2>1
  <2>3. n * (y + 1) = n * y + n
    BY <1>2
  <2> QED
    BY <1>2, <2>2, <2>3
<1> QED
  BY <1>2, <1>3, <1>4

LEMMA OverheadFields ==
    ASSUME fleet \in Fleets, site \in Sites, NEW v \in Vehicles, NEW q \in Nat
    PROVE  /\ Overhead(VehiclePolicy(v, q)) =
                12 * OrElse(fleet[v].route, 260)
                  + ((q + site.batchSize - 1) \div site.batchSize) * site.batchInterval
                  + 3000
           /\ Overhead(VehiclePolicy(v, q)) \in Nat
<1>1. PICK p : p = VehiclePolicy(v, q)
  OBVIOUS
<1>2. Overhead(p) =
         12 * OrElse(fleet[v].route, 260)
           + ((q + site.batchSize - 1) \div site.batchSize) * site.batchInterval
           + 3000
  BY <1>1, PolicyFields DEF Overhead, RouteTime, QueueBatches
<1>3. (q + site.batchSize - 1) \div site.batchSize \in Nat
  <2>1. PICK n \in Nat \ {0} : n = site.batchSize
    BY SiteFields
  <2>2. q + n - 1 \in Nat
    BY <2>1
  <2> QED
    BY <2>1, <2>2, QuotientsGrow
<1>4. site.batchInterval \in Nat /\ OrElse(fleet[v].route, 260) \in Nat
  BY SiteFields, VehicleFields
<1> QED
  BY <1>1, <1>2, <1>3, <1>4

\* Queues are rounded up, batches down: the longest wait of a batch is counted.
LEMMA OverheadGrows ==
    ASSUME fleet \in Fleets, site \in Sites, NEW v \in Vehicles,
           NEW q \in Nat, NEW r \in Nat, q <= r
    PROVE  /\ Overhead(VehiclePolicy(v, q)) <= Overhead(VehiclePolicy(v, r))
           /\ 12 * OrElse(fleet[v].route, 260)
                + (q \div site.batchSize) * site.batchInterval + 3000
                <= Overhead(VehiclePolicy(v, q))
<1>1. PICK n \in Nat \ {0} : n = site.batchSize
  BY SiteFields
<1>2. PICK i \in Nat : i = site.batchInterval
  BY SiteFields
<1>3. PICK a \in Nat, b \in Nat, c \in Nat :
        /\ a = q \div n /\ b = (q + n - 1) \div n /\ c = (r + n - 1) \div n
        /\ a <= b /\ b <= c
  <2>1. /\ q + n - 1 \in Nat /\ r + n - 1 \in Nat
        /\ q <= q + n - 1 /\ q + n - 1 <= r + n - 1
    OBVIOUS
  <2>2. /\ q \div n \in Nat /\ (q + n - 1) \div n \in Nat
        /\ q \div n <= (q + n - 1) \div n
    BY <2>1, QuotientsGrow
  <2>3. /\ (r + n - 1) \div n \in Nat
        /\ (q + n - 1) \div n <= (r + n - 1) \div n
    BY <2>1, QuotientsGrow
  <2> QED
    BY <2>2, <2>3
<1>4. a * i <= b * i /\ b * i <= c * i
  BY <1>2, <1>3
<1>5. a * i \in Nat /\ b * i \in Nat /\ c * i \in Nat
  BY <1>2, <1>3
<1>6. 12 * OrElse(fleet[v].route, 260) \in Nat
  BY VehicleFields
<1>7. /\ Overhead(VehiclePolicy(v, q)) = 12 * OrElse(fleet[v].route, 260) + b * i + 3000
      /\ Overhead(VehiclePolicy(v, r)) = 12 * OrElse(fleet[v].route, 260) + c * i + 3000
  BY <1>1, <1>2, <1>3, OverheadFields
<1> QED
  BY <1>1, <1>2, <1>3, <1>4, <1>5, <1>6, <1>7

\* What a decision to migrate with q vehicles ahead says.
LEMMA MigrationWindow ==
    ASSUME fleet \in Fleets, site \in Sites, NEW v \in Vehicles, NEW q \in Nat,
           DecisionAt(v, q) = "MIGRATE_NOW"
    PROVE  LET t == fleet[v].telemetry
               p == VehiclePolicy(v, q)
           IN  /\ ~MotionFault(t) /\ t.failed = {} /\ t.water < p.danger
               /\ ~EvidenceUncertain(t, p)
               /\ t.rise > 0
               /\ t.rise * Overhead(p) < 1000 * (p.danger - t.water)
               /\ 1000 * (p.danger - t.water) <= t.rise * (7000 + Overhead(p))
<1>1. PICK t : t = fleet[v].telemetry
  OBVIOUS
<1>2. PICK p : p = VehiclePolicy(v, q)
  OBVIOUS
<1>3. t.water \in Nat /\ t.rise \in Nat
  BY <1>1, VehicleFields DEF Telemetry
<1>4. p.danger \in Nat /\ p.migrateHorizon = 7000 /\ Overhead(p) \in Nat
  BY <1>2, PolicyFields, OverheadFields
<1>5. Decision(t, p) = "MIGRATE_NOW"
  BY <1>1, <1>2 DEF DecisionAt
<1>6. /\ ~MotionFault(t) /\ t.failed = {} /\ ~(t.water >= p.danger)
      /\ ~EvidenceUncertain(t, p) /\ ~WindowClosed(t, p)
      /\ LatestStartWithin(t, p, p.migrateHorizon)
  BY <1>5 DEF Decision, Ladder
<1>7. /\ t.rise > 0
      /\ 1000 * (p.danger - t.water) <= t.rise * (7000 + Overhead(p))
  BY <1>4, <1>6 DEF LatestStartWithin
<1>8. ~(1000 * (p.danger - t.water) <= t.rise * (0 + Overhead(p)))
  BY <1>6, <1>7 DEF WindowClosed, LatestStartWithin
<1>9. t.rise * (0 + Overhead(p)) < 1000 * (p.danger - t.water)
  <2>1. PICK o \in Nat : o = Overhead(p)
    BY <1>4
  <2>2. t.rise * o \in Int /\ 1000 * (p.danger - t.water) \in Int
    BY <1>3, <1>4
  <2> QED
    BY <1>8, <2>1, <2>2
<1> QED
  BY <1>1, <1>2, <1>3, <1>4, <1>6, <1>7, <1>9

\* A longer queue takes a decision to migrate only to a closed window.
LEMMA WaitingClosesTheWindow ==
    ASSUME fleet \in Fleets, site \in Sites, NEW v \in Vehicles, NEW q \in Nat,
           DecisionAt(v, 0) = "MIGRATE_NOW", DecisionAt(v, q) # "MIGRATE_NOW"
    PROVE  LET p == VehiclePolicy(v, q)
           IN  /\ DecisionAt(v, q) = "NO_GO"
               /\ 1000 * (p.danger - fleet[v].telemetry.water)
                     <= fleet[v].telemetry.rise * Overhead(p)
<1>1. PICK t : t = fleet[v].telemetry
  OBVIOUS
<1>2. PICK p : p = VehiclePolicy(v, 0)
  OBVIOUS
<1>3. PICK r : r = VehiclePolicy(v, q)
  OBVIOUS
<1>4. t.water \in Nat /\ t.rise \in Nat
  BY <1>1, VehicleFields DEF Telemetry
<1>5. /\ p.danger = r.danger /\ p.danger \in Nat
      /\ p.minConfidence = r.minConfidence /\ p.maxDisagreement = r.maxDisagreement
      /\ r.migrateHorizon = 7000
  BY <1>2, <1>3, PolicyFields
<1>6. /\ Overhead(p) \in Nat /\ Overhead(r) \in Nat /\ Overhead(p) <= Overhead(r)
  BY <1>2, <1>3, OverheadFields, OverheadGrows
<1>7. /\ ~MotionFault(t) /\ t.failed = {} /\ t.water < p.danger
      /\ ~EvidenceUncertain(t, p) /\ t.rise > 0
      /\ 1000 * (p.danger - t.water) <= t.rise * (7000 + Overhead(p))
  BY <1>1, <1>2, MigrationWindow
<1>8. ~EvidenceUncertain(t, r) /\ ~(t.water >= r.danger)
  BY <1>4, <1>5, <1>7 DEF EvidenceUncertain
<1>9. LatestStartWithin(t, r, r.migrateHorizon)
  <2>1. t.rise * (7000 + Overhead(p)) <= t.rise * (7000 + Overhead(r))
    <3>1. PICK a \in Nat, b \in Nat :
            a = Overhead(p) /\ b = Overhead(r) /\ 7000 + a <= 7000 + b
      BY <1>6
    <3> QED
      BY <1>4, <3>1
  <2>2. 1000 * (r.danger - t.water) <= t.rise * (7000 + Overhead(r))
    <3>1. PICK a \in Nat, b \in Nat : a = Overhead(p) /\ b = Overhead(r)
      BY <1>6
    <3> QED
      BY <1>4, <1>5, <1>7, <2>1, <3>1
  <2> QED
    BY <1>5, <1>7, <1>8, <2>2 DEF LatestStartWithin
<1>10. Decision(t, r) # "MIGRATE_NOW"
  BY <1>1, <1>3 DEF DecisionAt
<1>11. WindowClosed(t, r)
  BY <1>7, <1>8, <1>9, <1>10 DEF Decision, Ladder
<1>12. Decision(t, r) = "NO_GO"
  BY <1>7, <1>8, <1>11 DEF Decision
<1>13. 1000 * (r.danger - t.water) <= t.rise * Overhead(r)
  BY <1>4, <1>6, <1>8, <1>11 DEF WindowClosed, LatestStartWithin
<1> QED
  BY <1>1, <1>3, <1>12, <1>13 DEF DecisionAt

LEMMA BrowserDecides ==
    ASSUME fleet \in Fleets, site \in Sites, NEW v \in Vehicles, NEW q \in Nat
    PROVE  BrowserDecisionAt(v, q) = DecisionAt(v, q)
<1>1. PICK t : t = fleet[v].telemetry
  OBVIOUS
<1>2. PICK p : p = VehiclePolicy(v, q)
  OBVIOUS
<1>3. /\ t \in Telemetry
      /\ t.rain \in Nat /\ t.water \in Nat /\ t.secondary \in Nat /\ t.rise \in Nat
      /\ t.confidence \in 0..100
  BY <1>1, VehicleFields DEF Telemetry
<1>4. p.danger \in Nat \ {0}
  BY <1>2, PolicyFields
<1>5. ~InvalidInput(t, p)
  BY <1>3, <1>4 DEF InvalidInput
<1>6. PICK c : c = [t EXCEPT !.rise = IF @ < 0 THEN 0 ELSE @]
  OBVIOUS
<1>7. c.water = t.water /\ c.rise = t.rise
  BY <1>3, <1>6 DEF Telemetry
<1>8. \A h : LatestStartWithin(c, p, h) <=> LatestStartWithin(t, p, h)
  BY <1>7 DEF LatestStartWithin
<1>9. BrowserDecision(t, p) = Decision(t, p)
  BY <1>5, <1>6, <1>8 DEF BrowserDecision, Decision, Ladder, WindowClosed
<1> QED
  BY <1>1, <1>2, <1>9 DEF BrowserDecisionAt, DecisionAt, VehiclePolicy

-----------------------------------------------------------------------------
(***************************************************************************)
(* The sort key.  The latest starts are fractions, compared by multiplying *)
(* out, and candidates have a rate to multiply with.                       *)
(***************************************************************************)

LEMMA FractionsOrder ==
    ASSUME NEW a \in Int, NEW b \in Int, NEW c \in Int,
           NEW x \in Nat \ {0}, NEW y \in Nat \ {0}, NEW z \in Nat \ {0},
           a * y <= b * x, b * z <= c * y
    PROVE  /\ a * z <= c * x
           /\ a * y < b * x \/ b * z < c * y => a * z < c * x
<1> DEFINE p == a * y
           q == b * x
           r == b * z
           s == c * y
           m == a * z
           n == c * x
<1>1. p \in Int /\ q \in Int /\ r \in Int /\ s \in Int /\ m \in Int /\ n \in Int
  OBVIOUS
<1>2. y * m = z * p /\ z * q = x * r /\ y * n = x * s
  OBVIOUS
<1>3. p <= q /\ r <= s
  OBVIOUS
<1>4. p < q \/ r < s <=> a * y < b * x \/ b * z < c * y
  OBVIOUS
<1> HIDE DEF p, q, r, s, m, n
<1>5. z * p <= z * q /\ x * r <= x * s
  BY <1>1, <1>3
<1>6. p < q \/ r < s => z * p < z * q \/ x * r < x * s
  BY <1>1
<1>7. y * m <= y * n /\ (p < q \/ r < s => y * m < y * n)
  <2>1. z * p \in Int /\ z * q \in Int /\ x * r \in Int /\ x * s \in Int
    BY <1>1
  <2> QED
    BY <1>2, <1>5, <1>6, <2>1
<1>8. m <= n /\ (p < q \/ r < s => m < n)
  <2>1. ~(m <= n) => y * n < y * m
    BY <1>1
  <2>2. m = n => y * m = y * n
    OBVIOUS
  <2>3. y * m \in Int /\ y * n \in Int
    BY <1>1
  <2> QED
    BY <1>1, <1>7, <2>1, <2>2, <2>3
<1> QED
  BY <1>4, <1>8 DEF m, n

LEMMA CandidateFields ==
    ASSUME fleet \in Fleets, site \in Sites, NEW v \in Candidates
    PROVE  /\ v \in Vehicles /\ v \in Nat
           /\ Slack(v) \in Int /\ fleet[v].telemetry.rise \in Nat \ {0}
<1>1. v \in Vehicles /\ DecisionAt(v, 0) = "MIGRATE_NOW"
  BY DEF Candidates
<1>2. fleet[v].telemetry.rise > 0
  BY <1>1, MigrationWindow
<1>3. fleet[v].telemetry.rise \in Nat /\ fleet[v].telemetry.water \in Nat /\ v \in Nat
  BY <1>1, VehicleFields DEF Telemetry
<1>4. VehiclePolicy(v, 0).danger \in Nat /\ Overhead(VehiclePolicy(v, 0)) \in Nat
  BY <1>1, PolicyFields, OverheadFields
<1>5. Slack(v) \in Int
  BY <1>3, <1>4 DEF Slack
<1> QED
  BY <1>1, <1>2, <1>3, <1>5

\* The sort key orders the candidates strictly and totally.
LEMMA PrecedenceOrders ==
    ASSUME fleet \in Fleets, site \in Sites, NEW u \in Candidates, NEW v \in Candidates
    PROVE  /\ ~Precedes(u, u)
           /\ u # v => Precedes(u, v) \/ Precedes(v, u)
           /\ ~(Precedes(u, v) /\ Precedes(v, u))
           /\ \A w \in Candidates : Precedes(u, v) /\ Precedes(v, w) => Precedes(u, w)
<1> DEFINE R(k) == fleet[k].telemetry.rise
<1>1. \A k \in Candidates : Slack(k) \in Int /\ R(k) \in Nat \ {0} /\ k \in Nat
  BY CandidateFields
<1>2. \A k, l \in Candidates : Slack(k) * R(l) \in Int
  <2> HIDE DEF R
  <2> QED
    BY <1>1
<1>3. \A k, l \in Candidates :
         Precedes(k, l) <=> \/ Slack(k) * R(l) < Slack(l) * R(k)
                            \/ Slack(k) * R(l) = Slack(l) * R(k) /\ k < l
  BY DEF Precedes
<1> HIDE DEF R
<1>4. ASSUME NEW w \in Candidates, Precedes(u, v), Precedes(v, w)
      PROVE  Precedes(u, w)
  <2>1. Slack(u) * R(v) <= Slack(v) * R(u) /\ Slack(v) * R(w) <= Slack(w) * R(v)
    BY <1>2, <1>3, <1>4
  <2>2. /\ Slack(u) * R(w) <= Slack(w) * R(u)
        /\ \/ Slack(u) * R(v) < Slack(v) * R(u)
           \/ Slack(v) * R(w) < Slack(w) * R(v)
           => Slack(u) * R(w) < Slack(w) * R(u)
    BY <1>1, <2>1, FractionsOrder
  <2>3. CASE \/ Slack(u) * R(v) < Slack(v) * R(u)
             \/ Slack(v) * R(w) < Slack(w) * R(v)
    BY <1>3, <2>2, <2>3
  <2>4. CASE ~(\/ Slack(u) * R(v) < Slack(v) * R(u)
               \/ Slack(v) * R(w) < Slack(w) * R(v))
    <3>1. u < v /\ v < w
      BY <1>2, <1>3, <1>4, <2>4
    <3>2. u < w
      BY <1>1, <3>1
    <3> QED
      BY <1>2, <1>3, <2>2, <3>2
  <2> QED
    BY <2>3, <2>4
<1>5. ~Precedes(u, u) /\ ~(Precedes(u, v) /\ Precedes(v, u))
  BY <1>1, <1>2, <1>3
<1>6. u # v => Precedes(u, v) \/ Precedes(v, u)
  BY <1>1, <1>2, <1>3
<1> QED
  BY <1>4, <1>5, <1>6

-----------------------------------------------------------------------------
(***************************************************************************)
(* The plan of a vehicle in closed form: those that precede it are ahead.  *)
(***************************************************************************)

Ahead(v) == {u \in Candidates : Precedes(u, v)}

PlanOf(v) ==
    LET n == Cardinality(Ahead(v))
    IN  IF v \notin Candidates
          THEN NewPlan(DirectStatus(DecisionAt(v, 0)), Null, Null, Null, Null)
        ELSE IF ~SiteAvailable
          THEN NewPlan("SITE_UNAVAILABLE", n + 1, Null, Null, Null)
        ELSE IF n >= SlotCount
          THEN NewPlan("NO_CAPACITY", n + 1, Null, Null, Null)
        ELSE IF DecisionAt(v, n) # "MIGRATE_NOW"
          THEN NewPlan("WINDOW_CLOSED", n + 1, BatchOf(n), n, Null)
        ELSE NewPlan("SCHEDULED_SHADOW", n + 1, BatchOf(n), n, PointOfSlot(n))

LEMMA AheadIsFinite ==
    ASSUME NEW v
    PROVE  IsFiniteSet(Ahead(v)) /\ Cardinality(Ahead(v)) \in Nat
<1>1. Ahead(v) \subseteq Vehicles
  BY DEF Ahead, Candidates
<1> QED
  BY <1>1, SnapshotAssumption, FS_Subset, FS_CardinalityType

LEMMA BrowserPlans ==
    ASSUME fleet \in Fleets, site \in Sites, NEW v \in Vehicles
    PROVE  Agree(PlanOf(v), BrowserPlan(v))
<1>1. Candidates = {u \in Vehicles : BrowserDecisionAt(u, 0) = "MIGRATE_NOW"}
  BY BrowserDecides DEF Candidates
<1>2. PICK n \in Nat : n = Cardinality(Ahead(v))
  BY AheadIsFinite
<1>3. n = Cardinality({u \in Candidates : Precedes(u, v)})
  BY <1>2 DEF Ahead
<1>4. BrowserDecisionAt(v, 0) = DecisionAt(v, 0) /\ BrowserDecisionAt(v, n) = DecisionAt(v, n)
  BY BrowserDecides
<1>5. CASE v \notin Candidates
  <2>1. BrowserPlan(v) = PlanOf(v)
    BY <1>1, <1>4, <1>5 DEF BrowserPlan, PlanOf
  <2>2. PlanOf(v).rank = Null
    BY <1>5 DEF PlanOf, NewPlan
  <2> QED
    BY <2>1, <2>2 DEF Agree
<1>6. CASE v \in Candidates /\ (SiteAvailable <=> BrowserSiteAvailable)
  <2>1. BrowserPlan(v) = PlanOf(v)
    BY <1>1, <1>2, <1>3, <1>4, <1>6 DEF BrowserPlan, PlanOf, BatchOf
  <2> QED
    BY <1>6, <2>1 DEF Agree
<1>7. CASE v \in Candidates /\ ~(SiteAvailable <=> BrowserSiteAvailable)
  <2>1. /\ PlanOf(v).rank = n + 1
        /\ PlanOf(v).status = "SITE_UNAVAILABLE" <=> ~SiteAvailable
    BY <1>2, <1>7 DEF PlanOf, NewPlan
  <2>2. /\ BrowserPlan(v).rank = n + 1
        /\ BrowserPlan(v).status = "SITE_UNAVAILABLE" <=> ~BrowserSiteAvailable
    BY <1>1, <1>3, <1>4, <1>7 DEF BrowserPlan, NewPlan
  <2>3. n + 1 # Null
    BY SnapshotAssumption
  <2> QED
    BY <1>7, <2>1, <2>2, <2>3 DEF Agree
<1> QED
  BY <1>5, <1>6, <1>7

\* What the plans of the candidates say, by their status.
LEMMA PlanFields ==
    ASSUME fleet \in Fleets, site \in Sites, NEW v \in Vehicles, NEW plan, plan = PlanOf(v)
    PROVE  LET n == Cardinality(Ahead(v))
           IN  /\ plan.status = "SCHEDULED_SHADOW" =>
                     /\ v \in Candidates /\ n < SlotCount
                     /\ DecisionAt(v, n) = "MIGRATE_NOW"
                     /\ plan.queueAhead = n /\ plan.batch = BatchOf(n)
                     /\ plan.point = PointOfSlot(n)
               /\ plan.status = "WINDOW_CLOSED" =>
                     /\ v \in Candidates /\ plan.queueAhead = n
                     /\ DecisionAt(v, n) # "MIGRATE_NOW"
               /\ plan.status = "NO_CAPACITY" => v \in Candidates /\ n >= SlotCount
<1>1. PICK n \in Nat : n = Cardinality(Ahead(v))
  BY AheadIsFinite
<1>2. SlotCount \in Nat
  BY CapacityAdds DEF SlotCount, AvailablePoints
<1>3. DirectStatus(DecisionAt(v, 0)) \in {"NOT_REQUIRED", "PREPARE_ONLY", "VERIFY_ONLY", "DENIED"}
  BY DEF DirectStatus
<1>4. CASE v \notin Candidates
  BY <1>1, <1>3, <1>4 DEF PlanOf, NewPlan
<1>5. CASE v \in Candidates
  BY <1>1, <1>2, <1>5 DEF PlanOf, NewPlan
<1> QED
  BY <1>4, <1>5

LEMMA PlanIsTyped ==
    ASSUME fleet \in Fleets, site \in Sites, NEW v \in Vehicles
    PROVE  PlanOf(v) \in Plans
<1>1. PICK n \in Nat : n = Cardinality(Ahead(v))
  BY AheadIsFinite
<1>2. SlotCount \in Nat
  BY CapacityAdds DEF SlotCount, AvailablePoints
<1>3. ASSUME NEW status \in Statuses, NEW rank \in Nat \union {Null},
             NEW batch \in Nat \union {Null}, NEW queueAhead \in Nat \union {Null},
             NEW point \in Points \union {Null}
      PROVE  NewPlan(status, rank, batch, queueAhead, point) \in Plans
  BY DEF NewPlan, Plans
<1>4. DirectStatus(DecisionAt(v, 0)) \in Statuses
  BY DEF DirectStatus, Statuses
<1>5. BatchOf(n) \in Nat
  <2>1. PICK b \in Nat \ {0} : b = site.batchSize
    BY SiteFields
  <2>2. n \div b \in Nat
    BY QuotientsGrow
  <2> QED
    BY <2>1, <2>2 DEF BatchOf
<1>6. n < SlotCount => PointOfSlot(n) \in Points
  BY SlotHasPoint DEF AvailablePoints
<1>7. {"SITE_UNAVAILABLE", "NO_CAPACITY", "WINDOW_CLOSED", "SCHEDULED_SHADOW"} \subseteq Statuses
  BY DEF Statuses
<1>8. n + 1 \in Nat /\ (n >= SlotCount \/ n < SlotCount)
  BY <1>2
<1> QED
  BY <1>1, <1>3, <1>4, <1>5, <1>6, <1>7, <1>8 DEF PlanOf

-----------------------------------------------------------------------------
(***************************************************************************)
(* The loop.  The candidates planned so far are the most urgent ones, each *)
(* has the plan its place gives it, and with the site available each has   *)
(* taken a slot while there were slots.                                    *)
(***************************************************************************)

UrgentFirst ==
    \A v \in DOMAIN plans \intersect Candidates, u \in Candidates :
        Precedes(u, v) => u \in DOMAIN plans

\* The slots that n candidates have taken.
SlotsOf(n) ==
    IF ~SiteAvailable THEN 0 ELSE IF n >= SlotCount THEN SlotCount ELSE n

SlotsTaken == slotIndex = SlotsOf(Cardinality(DOMAIN plans \intersect Candidates))

PlanInv ==
    /\ fleet \in Fleets /\ site \in Sites
    /\ DOMAIN plans \subseteq Vehicles
    /\ DOMAIN plans \subseteq Candidates \/ DOMAIN plans = Vehicles
    /\ UrgentFirst
    /\ \A v \in DOMAIN plans : plans[v] = PlanOf(v)
    /\ SlotsTaken

LEMMA SlotCountIsNat == ASSUME site \in Sites PROVE SlotCount \in Nat
  BY CapacityAdds DEF SlotCount, AvailablePoints

LEMMA PlanInit == Init => PlanInv
<1> SUFFICES ASSUME Init PROVE PlanInv
  OBVIOUS
<1>1. DOMAIN plans = {}
  BY DEF Init
<1>2. Cardinality(DOMAIN plans \intersect Candidates) = 0
  BY <1>1, FS_EmptySet
<1>3. SlotCount \in Nat
  BY SlotCountIsNat DEF Init
<1>4. slotIndex = SlotsOf(0)
  BY <1>3 DEF Init, SlotsOf
<1> QED
  BY <1>1, <1>2, <1>4 DEF Init, PlanInv, UrgentFirst, SlotsTaken

\* What is computed from the snapshot stays as it is.
LEMMA SameSnapshot ==
    ASSUME UNCHANGED <<fleet, site>>
    PROVE  /\ Candidates' = Candidates
           /\ \A u, v : Precedes(u, v)' <=> Precedes(u, v)
           /\ \A v : PlanOf(v)' = PlanOf(v)
           /\ \A n : SlotsOf(n)' = SlotsOf(n)
<1>1. \A v, q : DecisionAt(v, q)' = DecisionAt(v, q)
  BY DEF DecisionAt, VehiclePolicy
<1>2. Candidates' = Candidates
  BY <1>1 DEF Candidates
<1>3. \A u, v : Precedes(u, v)' <=> Precedes(u, v)
  BY DEF Precedes, Slack, VehiclePolicy
<1>4. \A S : Capacity(S)' = Capacity(S)
  BY DEF Capacity, MapThenSumSet, MapThenFoldSet
<1>5. \A p, q : Preferred(p, q)' <=> Preferred(p, q)
  BY DEF Preferred
<1>6. AvailablePoints' = AvailablePoints
  BY DEF AvailablePoints
<1>7. SlotCount' = SlotCount
  BY <1>4, <1>6 DEF SlotCount
<1>8. \A i : PointOfSlot(i)' = PointOfSlot(i)
  BY <1>4, <1>5, <1>6 DEF PointOfSlot
<1>9. SiteAvailable' <=> SiteAvailable
  BY DEF SiteAvailable
<1>10. \A v : Ahead(v)' = Ahead(v)
  BY <1>2, <1>3 DEF Ahead
<1>11. \A n : BatchOf(n)' = BatchOf(n)
  BY DEF BatchOf
<1>12. \A v : PlanOf(v)' = PlanOf(v)
  BY <1>1, <1>2, <1>7, <1>8, <1>9, <1>10, <1>11 DEF PlanOf
<1>13. \A n : SlotsOf(n)' = SlotsOf(n)
  BY <1>7, <1>9 DEF SlotsOf
<1> QED
  BY <1>2, <1>3, <1>12, <1>13

\* The candidate of an iteration has exactly the planned ones ahead of it.
LEMMA CurrentIsNext ==
    ASSUME PlanInv, NEW v \in Vehicles, Current(v)
    PROVE  /\ v \in Candidates /\ v \notin DOMAIN plans
           /\ DOMAIN plans \subseteq Candidates
           /\ Ahead(v) = DOMAIN plans
           /\ IsFiniteSet(DOMAIN plans) /\ Cardinality(DOMAIN plans) \in Nat
           /\ Rank = Cardinality(Ahead(v)) + 1
<1>1. v \in Candidates /\ v \notin DOMAIN plans
  BY DEF Current, Waiting
<1>2. DOMAIN plans \subseteq Candidates
  BY <1>1 DEF PlanInv
<1>3. ASSUME NEW u \in DOMAIN plans
      PROVE  Precedes(u, v)
  <2>1. u \in Candidates /\ u # v
    BY <1>1, <1>2
  <2>2. ~Precedes(v, u)
    BY <1>1, <1>3, <2>1 DEF PlanInv, UrgentFirst
  <2> QED
    BY <1>1, <2>1, <2>2, PrecedenceOrders DEF PlanInv
<1>4. ASSUME NEW u \in Candidates, Precedes(u, v)
      PROVE  u \in DOMAIN plans
  <2>1. SUFFICES ASSUME u \notin DOMAIN plans PROVE FALSE
    OBVIOUS
  <2>2. u # v
    BY <1>1, <1>4, PrecedenceOrders DEF PlanInv
  <2>3. Precedes(v, u)
    BY <1>4, <2>1, <2>2 DEF Current, Waiting
  <2> QED
    BY <1>1, <1>4, <2>3, PrecedenceOrders DEF PlanInv
<1>5. Ahead(v) = DOMAIN plans
  BY <1>2, <1>3, <1>4 DEF Ahead
<1> QED
  BY <1>1, <1>2, <1>5, AheadIsFinite DEF Rank

LEMMA RecordKeepsPlans ==
    ASSUME PlanInv, NEW v \in Vehicles, Current(v), Record(v, PlanOf(v)),
           UNCHANGED <<fleet, site>>,
           slotIndex' = SlotsOf(Cardinality(DOMAIN plans) + 1)
    PROVE  PlanInv'
<1>1. /\ v \in Candidates /\ v \notin DOMAIN plans
      /\ DOMAIN plans \subseteq Candidates /\ Ahead(v) = DOMAIN plans
      /\ IsFiniteSet(DOMAIN plans) /\ Cardinality(DOMAIN plans) \in Nat
  BY CurrentIsNext
<1>2. /\ DOMAIN plans' = DOMAIN plans \union {v}
      /\ \A u \in DOMAIN plans : plans'[u] = plans[u]
      /\ plans'[v] = PlanOf(v)
  BY <1>1 DEF Record
<1>3. fleet' \in Fleets /\ site' \in Sites
  BY DEF PlanInv
<1>4. DOMAIN plans' \subseteq Vehicles /\ DOMAIN plans' \subseteq Candidates'
  BY <1>1, <1>2, SameSnapshot DEF PlanInv
<1>5. UrgentFirst'
  <2>1. ASSUME NEW w \in DOMAIN plans', NEW u \in Candidates, Precedes(u, w)
        PROVE  u \in DOMAIN plans'
    <3>1. CASE w = v
      BY <1>1, <1>2, <2>1, <3>1 DEF Ahead
    <3>2. CASE w # v
      BY <1>1, <1>2, <2>1, <3>2 DEF PlanInv, UrgentFirst
    <3> QED
      BY <3>1, <3>2
  <2> QED
    BY <2>1, SameSnapshot DEF UrgentFirst
<1>6. \A u \in DOMAIN plans' : plans'[u] = PlanOf(u)'
  BY <1>2, SameSnapshot DEF PlanInv
<1>7. SlotsTaken'
  <2>1. Cardinality(DOMAIN plans \union {v}) = Cardinality(DOMAIN plans) + 1
    BY <1>1, FS_AddElement
  <2>2. DOMAIN plans' \intersect Candidates' = DOMAIN plans \union {v}
    BY <1>1, <1>2, SameSnapshot
  <2> QED
    BY <2>1, <2>2, SameSnapshot DEF SlotsTaken
<1> QED
  BY <1>3, <1>4, <1>5, <1>6, <1>7 DEF PlanInv

LEMMA PlanNext == PlanInv /\ [Next]_vars => PlanInv'
<1> SUFFICES ASSUME PlanInv, [Next]_vars PROVE PlanInv'
  OBVIOUS
<1>1. SlotCount \in Nat
  BY SlotCountIsNat DEF PlanInv
<1>2. ASSUME NEW v \in Vehicles, Current(v)
      PROVE  /\ v \in Candidates /\ Rank = Cardinality(Ahead(v)) + 1
             /\ Cardinality(DOMAIN plans) = Cardinality(Ahead(v))
             /\ Cardinality(Ahead(v)) \in Nat /\ Rank - 1 = Cardinality(Ahead(v))
             /\ slotIndex = SlotsOf(Cardinality(Ahead(v)))
  <2>1. /\ v \in Candidates /\ Rank = Cardinality(Ahead(v)) + 1
        /\ DOMAIN plans \subseteq Candidates /\ Ahead(v) = DOMAIN plans
        /\ Cardinality(DOMAIN plans) \in Nat
    BY <1>2, CurrentIsNext
  <2>2. DOMAIN plans \intersect Candidates = Ahead(v)
    BY <2>1
  <2>3. slotIndex = SlotsOf(Cardinality(Ahead(v)))
    BY <2>2 DEF PlanInv, SlotsTaken
  <2> QED
    BY <2>1, <2>3
<1>3. ASSUME NEW v \in Vehicles, PlaceUnavailable(v)
      PROVE  PlanInv'
  <2>1. PICK n \in Nat :
          n = Cardinality(Ahead(v)) /\ Rank = n + 1 /\ v \in Candidates
            /\ Cardinality(DOMAIN plans) = n /\ slotIndex = SlotsOf(n)
    BY <1>2, <1>3 DEF PlaceUnavailable
  <2>2. PlanOf(v) = NewPlan("SITE_UNAVAILABLE", Rank, Null, Null, Null)
    BY <1>3, <2>1 DEF PlaceUnavailable, PlanOf
  <2>3. slotIndex' = SlotsOf(n + 1)
    BY <1>3, <2>1 DEF PlaceUnavailable, SlotsOf
  <2> QED
    BY <1>3, <2>1, <2>2, <2>3, RecordKeepsPlans DEF PlaceUnavailable
<1>4. ASSUME NEW v \in Vehicles, RunOutOfCapacity(v)
      PROVE  PlanInv'
  <2>1. PICK n \in Nat :
          n = Cardinality(Ahead(v)) /\ Rank = n + 1 /\ v \in Candidates
            /\ Cardinality(DOMAIN plans) = n /\ slotIndex = SlotsOf(n)
    BY <1>2, <1>4 DEF RunOutOfCapacity
  <2>2. SiteAvailable /\ n >= SlotCount
    BY <1>1, <1>4, <2>1 DEF RunOutOfCapacity, SlotsOf
  <2>3. PlanOf(v) = NewPlan("NO_CAPACITY", Rank, Null, Null, Null)
    BY <2>1, <2>2 DEF PlanOf
  <2>4. slotIndex' = SlotsOf(n + 1)
    BY <1>1, <1>4, <2>1, <2>2 DEF RunOutOfCapacity, SlotsOf
  <2> QED
    BY <1>4, <2>1, <2>3, <2>4, RecordKeepsPlans DEF RunOutOfCapacity
<1>5. ASSUME NEW v \in Vehicles, Current(v), SiteAvailable, slotIndex < SlotCount
      PROVE  /\ Rank - 1 = Cardinality(Ahead(v)) /\ slotIndex = Rank - 1
             /\ ~(Cardinality(Ahead(v)) >= SlotCount)
             /\ slotIndex + 1 = SlotsOf(Cardinality(DOMAIN plans) + 1)
  <2>1. PICK n \in Nat :
          n = Cardinality(Ahead(v)) /\ Rank - 1 = n
            /\ Cardinality(DOMAIN plans) = n /\ slotIndex = SlotsOf(n)
    BY <1>2, <1>5
  <2>2. slotIndex = n /\ ~(n >= SlotCount) /\ n + 1 = SlotsOf(n + 1)
    BY <1>1, <1>5, <2>1 DEF SlotsOf
  <2> QED
    BY <2>1, <2>2
<1>6. ASSUME NEW v \in Vehicles, CloseWindow(v)
      PROVE  PlanInv'
  <2>1. PICK n \in Nat :
          n = Cardinality(Ahead(v)) /\ Rank = n + 1 /\ v \in Candidates /\ Rank - 1 = n
    BY <1>2, <1>6 DEF CloseWindow
  <2>2. ~(n >= SlotCount) /\ slotIndex' = SlotsOf(Cardinality(DOMAIN plans) + 1)
    BY <1>5, <1>6, <2>1 DEF CloseWindow
  <2>3. PlanOf(v) = NewPlan("WINDOW_CLOSED", Rank, BatchOf(n), n, Null)
    BY <1>6, <2>1, <2>2 DEF CloseWindow, PlanOf
  <2> QED
    BY <1>6, <2>1, <2>2, <2>3, RecordKeepsPlans DEF CloseWindow
<1>7. ASSUME NEW v \in Vehicles, Schedule(v)
      PROVE  PlanInv'
  <2>1. PICK n \in Nat :
          n = Cardinality(Ahead(v)) /\ Rank = n + 1 /\ v \in Candidates /\ Rank - 1 = n
    BY <1>2, <1>7 DEF Schedule
  <2>2. /\ ~(n >= SlotCount) /\ slotIndex = n
        /\ slotIndex' = SlotsOf(Cardinality(DOMAIN plans) + 1)
    BY <1>5, <1>7, <2>1 DEF Schedule
  <2>3. PlanOf(v) = NewPlan("SCHEDULED_SHADOW", Rank, BatchOf(n), n, PointOfSlot(slotIndex))
    BY <1>7, <2>1, <2>2 DEF Schedule, PlanOf
  <2> QED
    BY <1>7, <2>1, <2>2, <2>3, RecordKeepsPlans DEF Schedule
<1>8. ASSUME PlanOthers
      PROVE  PlanInv'
  <2>1. Candidates \subseteq DOMAIN plans /\ DOMAIN plans # Vehicles
    BY <1>8 DEF PlanOthers, Waiting
  <2>2. DOMAIN plans = Candidates
    BY <2>1 DEF PlanInv
  <2>3. DOMAIN plans' = Vehicles /\ Candidates \subseteq Vehicles
    BY <1>8 DEF PlanOthers, Candidates
  <2>4. \A v \in Vehicles : v \notin Candidates =>
           PlanOf(v) = NewPlan(DirectStatus(DecisionAt(v, 0)), Null, Null, Null, Null)
    BY DEF PlanOf
  <2>5. \A v \in Vehicles : plans'[v] = PlanOf(v)
    BY <1>8, <2>2, <2>4 DEF PlanOthers, PlanInv
  <2>6. UNCHANGED <<fleet, site, slotIndex>>
    BY <1>8 DEF PlanOthers
  <2>7. SlotsTaken'
    <3>1. DOMAIN plans' \intersect Candidates' = DOMAIN plans \intersect Candidates
      BY <2>2, <2>3, <2>6, SameSnapshot
    <3> QED
      BY <2>6, <3>1, SameSnapshot DEF PlanInv, SlotsTaken
  <2>8. UrgentFirst'
    BY <2>3, <2>6, SameSnapshot DEF UrgentFirst
  <2>9. \A v \in DOMAIN plans' : plans'[v] = PlanOf(v)'
    BY <2>3, <2>5, <2>6, SameSnapshot
  <2>10. fleet' \in Fleets /\ site' \in Sites
    BY <2>6 DEF PlanInv
  <2> QED
    BY <2>3, <2>7, <2>8, <2>9, <2>10 DEF PlanInv
<1>9. CASE UNCHANGED vars
  <2>1. UNCHANGED <<fleet, site, plans, slotIndex>>
    BY <1>9 DEF vars
  <2>2. UrgentFirst'
    BY <2>1, SameSnapshot DEF PlanInv, UrgentFirst
  <2>3. SlotsTaken'
    BY <2>1, SameSnapshot DEF PlanInv, SlotsTaken
  <2>4. \A v \in DOMAIN plans' : plans'[v] = PlanOf(v)'
    BY <2>1, SameSnapshot DEF PlanInv
  <2>5. fleet' \in Fleets /\ site' \in Sites /\ DOMAIN plans' \subseteq Vehicles
          /\ (DOMAIN plans' \subseteq Candidates' \/ DOMAIN plans' = Vehicles)
    BY <2>1, SameSnapshot DEF PlanInv
  <2> QED
    BY <2>2, <2>3, <2>4, <2>5 DEF PlanInv
<1> QED
  BY <1>3, <1>4, <1>6, <1>7, <1>8, <1>9 DEF Next

LEMMA PlanInvariant == Spec => []PlanInv
  BY PlanInit, PlanNext, PTL DEF Spec

-----------------------------------------------------------------------------
(***************************************************************************)
(* Every plan has the shape of FleetVehiclePlan and no more slots are      *)
(* handed out than there are.                                              *)
(***************************************************************************)
THEOREM PlanTypeCorrect == Spec => []TypeOK
<1>1. ASSUME PlanInv PROVE TypeOK
  <2>1. \A v \in DOMAIN plans : plans[v] \in Plans
    BY <1>1, PlanIsTyped DEF PlanInv
  <2>2. SlotCount \in Nat
    BY <1>1, SlotCountIsNat DEF PlanInv
  <2>3. Cardinality(DOMAIN plans \intersect Candidates) \in Nat
    <3>1. DOMAIN plans \intersect Candidates \subseteq Vehicles
      BY DEF Candidates
    <3> QED
      BY <3>1, SnapshotAssumption, FS_Subset, FS_CardinalityType
  <2>4. slotIndex \in 0..SlotCount
    BY <1>1, <2>2, <2>3 DEF PlanInv, SlotsTaken, SlotsOf
  <2> QED
    BY <1>1, <2>1, <2>4 DEF PlanInv, TypeOK
<1> QED
  BY <1>1, PlanInvariant, PTL

(***************************************************************************)
(* The browser shows the plan the server stores: planFleet, which looks at *)
(* the whole fleet at once, gives every vehicle what plan_fleet gave it in *)
(* its iteration, but for the availability of a site whose age the two     *)
(* judge differently.                                                      *)
(***************************************************************************)
THEOREM BrowserShowsTheStoredPlan == Spec => []PlansAgree
<1>1. ASSUME PlanInv PROVE PlansAgree
  BY <1>1, BrowserPlans DEF PlanInv, PlansAgree
<1> QED
  BY <1>1, PlanInvariant, PTL

(***************************************************************************)
(* Whatever the fleet and the site, a vehicle that plan_fleet schedules    *)
(* and that leaves with its batch is off the route before the water        *)
(* reaches its danger level.                                               *)
(***************************************************************************)
THEOREM ScheduledVehiclesClear == Spec => []ScheduledClearsTheRoute
<1>1. ASSUME PlanInv PROVE ScheduledClearsTheRoute
  <2>1. SUFFICES ASSUME NEW v \in Scheduled
                 PROVE  LET t == fleet[v].telemetry
                            p == VehiclePolicy(v, 0)
                            departure == (plans[v].batch - 1) * site.batchInterval
                        IN  1000 * t.water + t.rise * (departure + RouteTime(p) + p.safetyBuffer)
                               < 1000 * p.danger
    BY DEF ScheduledClearsTheRoute
  <2>2. /\ fleet \in Fleets /\ site \in Sites /\ v \in Vehicles
        /\ plans[v] = PlanOf(v) /\ plans[v].status = "SCHEDULED_SHADOW"
    BY <1>1, <2>1 DEF PlanInv, Scheduled
  <2>3. PICK n \in Nat : n = Cardinality(Ahead(v))
    BY AheadIsFinite
  <2>4. DecisionAt(v, n) = "MIGRATE_NOW" /\ plans[v].batch = BatchOf(n)
    BY <2>2, <2>3, PlanFields
  <2>5. PICK t : t = fleet[v].telemetry
    OBVIOUS
  <2>6. PICK p : p = VehiclePolicy(v, n)
    OBVIOUS
  <2>7. PICK b \in Nat \ {0}, i \in Nat : b = site.batchSize /\ i = site.batchInterval
    BY <2>2, SiteFields
  <2>8. t.water \in Nat /\ t.rise \in Nat
    BY <2>2, <2>5, VehicleFields DEF Telemetry
  <2>9. PICK danger \in Nat, route \in Nat :
          /\ danger = OrElse(fleet[v].danger, 220) /\ route = OrElse(fleet[v].route, 260)
          /\ p.danger = danger
    BY <2>2, <2>6, VehicleFields, PolicyFields
  <2>10. PICK k \in Nat : k = n \div b
    BY QuotientsGrow
  <2>11. PICK o \in Nat : o = Overhead(p) /\ 12 * route + k * i + 3000 <= o
    BY <2>2, <2>6, <2>7, <2>9, <2>10, OverheadFields, OverheadGrows
  <2>12. t.rise * o < 1000 * (danger - t.water)
    BY <2>2, <2>4, <2>5, <2>6, <2>9, <2>11, MigrationWindow
  <2>13. /\ VehiclePolicy(v, 0).danger = danger
         /\ RouteTime(VehiclePolicy(v, 0)) = 12 * route
         /\ VehiclePolicy(v, 0).safetyBuffer = 3000
    BY <2>2, <2>9, PolicyFields DEF RouteTime
  <2>14. (plans[v].batch - 1) * site.batchInterval = k * i
    BY <2>4, <2>7, <2>10 DEF BatchOf
  <2>15. PICK spent \in Nat : spent = k * i + 12 * route + 3000 /\ spent <= o
    <3>1. k * i \in Nat /\ 12 * route \in Nat
      BY <2>7, <2>9, <2>10
    <3> QED
      BY <2>11, <3>1
  <2>16. t.rise * spent <= t.rise * o
    BY <2>8, <2>11, <2>15
  <2>17. 1000 * t.water + t.rise * spent < 1000 * danger
    <3>1. t.rise * spent \in Nat /\ t.rise * o \in Nat
      BY <2>8, <2>11, <2>15
    <3> QED
      BY <2>8, <2>9, <2>12, <2>16, <3>1
  <2> QED
    BY <2>5, <2>13, <2>14, <2>15, <2>17
<1> QED
  BY <1>1, PlanInvariant, PTL

(***************************************************************************)
(* WINDOW_CLOSED is only ever said of a window that closed while the       *)
(* vehicle would wait: plan_fleet tests for "not MIGRATE_NOW", and a queue *)
(* turns MIGRATE_NOW into no other decision than that of a closed window.  *)
(***************************************************************************)
THEOREM ClosedWindowsAreClosed == Spec => []WindowClosedForTime
<1>1. ASSUME PlanInv PROVE WindowClosedForTime
  <2>1. SUFFICES ASSUME NEW v \in WithStatus("WINDOW_CLOSED")
                 PROVE  LET p == VehiclePolicy(v, plans[v].queueAhead)
                        IN  /\ DecisionAt(v, plans[v].queueAhead) = "NO_GO"
                            /\ 1000 * (p.danger - fleet[v].telemetry.water)
                                  <= fleet[v].telemetry.rise * Overhead(p)
    BY DEF WindowClosedForTime
  <2>2. /\ fleet \in Fleets /\ site \in Sites /\ v \in Vehicles
        /\ plans[v] = PlanOf(v) /\ plans[v].status = "WINDOW_CLOSED"
    BY <1>1, <2>1 DEF PlanInv, WithStatus
  <2>3. PICK n \in Nat : n = Cardinality(Ahead(v))
    BY AheadIsFinite
  <2>4. plans[v].queueAhead = n /\ v \in Candidates /\ DecisionAt(v, n) # "MIGRATE_NOW"
    BY <2>2, <2>3, PlanFields
  <2>5. DecisionAt(v, 0) = "MIGRATE_NOW"
    BY <2>4 DEF Candidates
  <2> QED
    BY <2>2, <2>4, <2>5, WaitingClosesTheWindow
<1> QED
  BY <1>1, PlanInvariant, PTL

\* One candidate that precedes another has fewer vehicles ahead of it.
LEMMA AheadGrows ==
    ASSUME fleet \in Fleets, site \in Sites,
           NEW u \in Candidates, NEW v \in Candidates, Precedes(u, v)
    PROVE  Cardinality(Ahead(u)) < Cardinality(Ahead(v))
<1>1. Ahead(u) \subseteq Ahead(v)
  BY PrecedenceOrders DEF Ahead
<1>2. u \in Ahead(v) /\ u \notin Ahead(u)
  BY PrecedenceOrders DEF Ahead
<1>3. /\ IsFiniteSet(Ahead(v)) /\ Cardinality(Ahead(u)) \in Nat
      /\ Cardinality(Ahead(v)) \in Nat
  BY AheadIsFinite
<1>4. /\ Cardinality(Ahead(u)) <= Cardinality(Ahead(v))
      /\ Cardinality(Ahead(v)) = Cardinality(Ahead(u)) => Ahead(v) = Ahead(u)
  BY <1>1, <1>3, FS_Subset
<1> QED
  BY <1>2, <1>3, <1>4

(***************************************************************************)
(* No safe point is given to more vehicles than it holds or given out when *)
(* it is not available, and the slots go to the vehicles with the least    *)
(* time.  Guests of a point have different places in the queue, all of     *)
(* them in the point's stretch of the list of slots.                       *)
(***************************************************************************)
THEOREM PointsGoToTheMostUrgent == Spec => []PointsGoToTheUrgent
<1>1. ASSUME PlanInv PROVE PointsGoToTheUrgent
  <2> DEFINE Sooner(u, w) ==
               Slack(u) * fleet[w].telemetry.rise < Slack(w) * fleet[u].telemetry.rise
             Guests(p) == {v \in Scheduled : plans[v].point = p}
             Before(p) == Capacity({q \in AvailablePoints : Preferred(q, p)})
  <2>1. fleet \in Fleets /\ site \in Sites /\ SlotCount \in Nat
    BY <1>1, SlotCountIsNat DEF PlanInv
  <2>2. ASSUME NEW v \in Scheduled
        PROVE  /\ v \in Candidates /\ Cardinality(Ahead(v)) \in Nat
               /\ Cardinality(Ahead(v)) < SlotCount
               /\ plans[v].batch = BatchOf(Cardinality(Ahead(v)))
               /\ plans[v].point = PointOfSlot(Cardinality(Ahead(v)))
    <3>1. v \in Vehicles /\ plans[v] = PlanOf(v) /\ plans[v].status = "SCHEDULED_SHADOW"
      BY <1>1, <2>2 DEF PlanInv, Scheduled
    <3> QED
      BY <2>1, <3>1, AheadIsFinite, PlanFields
  <2>3. ASSUME NEW p \in Points
        PROVE  /\ Cardinality(Guests(p)) <= site.points[p].capacity
               /\ Guests(p) # {} => site.points[p].available
    <3>1. PICK first \in Nat : first = Before(p)
      <4>1. {q \in AvailablePoints : Preferred(q, p)} \subseteq Points
        BY DEF AvailablePoints
      <4> QED
        BY <2>1, <4>1, CapacityAdds
    <3>2. PICK c \in Nat : c = site.points[p].capacity
      BY <2>1, SiteFields
    <3>3. ASSUME NEW v \in Guests(p)
          PROVE  /\ p \in AvailablePoints
                 /\ Cardinality(Ahead(v)) \in first..(first + c - 1)
      <4>1. PICK n \in Nat : n = Cardinality(Ahead(v)) /\ n < SlotCount /\ p = PointOfSlot(n)
        BY <2>2
      <4>2. p \in AvailablePoints /\ first <= n /\ n < first + c
        BY <2>1, <3>1, <3>2, <4>1, SlotHasPoint
      <4> QED
        BY <3>1, <3>2, <4>1, <4>2
    <3>4. Guests(p) # {} => site.points[p].available
      BY <3>3 DEF AvailablePoints
    <3>5. ASSUME NEW u \in Guests(p), NEW v \in Guests(p), u # v
          PROVE  Cardinality(Ahead(u)) # Cardinality(Ahead(v))
      <4>1. /\ u \in Candidates /\ v \in Candidates
            /\ Cardinality(Ahead(u)) \in Nat /\ Cardinality(Ahead(v)) \in Nat
        BY <2>2
      <4>2. Precedes(u, v) \/ Precedes(v, u)
        BY <2>1, <3>5, <4>1, PrecedenceOrders
      <4>3. \/ Cardinality(Ahead(u)) < Cardinality(Ahead(v))
            \/ Cardinality(Ahead(v)) < Cardinality(Ahead(u))
        BY <2>1, <4>1, <4>2, AheadGrows
      <4> QED
        BY <4>1, <4>3
    <3> DEFINE place == [v \in Guests(p) |-> Cardinality(Ahead(v))]
    <3>6. place \in Injection(Guests(p), first..(first + c - 1))
      <4> HIDE DEF Guests
      <4> QED
        BY <3>3, <3>5 DEF Injection, IsInjective
    <3>7. /\ IsFiniteSet(first..(first + c - 1))
          /\ Cardinality(first..(first + c - 1)) =
                IF first > first + c - 1 THEN 0 ELSE first + c - 1 - first + 1
      BY FS_Interval
    <3>8. Cardinality(first..(first + c - 1)) = c
      BY <3>7
    <3>9. Cardinality(Guests(p)) <= c
      <4> HIDE DEF place, Guests
      <4> QED
        BY <3>6, <3>7, <3>8, FS_Injection
    <3> QED
      BY <3>2, <3>4, <3>9
  <2>4. ASSUME NEW u \in Candidates, NEW w \in Candidates, Sooner(u, w)
        PROVE  Cardinality(Ahead(u)) < Cardinality(Ahead(w))
    BY <2>1, <2>4, AheadGrows DEF Precedes
  <2>5. ASSUME NEW v \in Scheduled, NEW u \in WithStatus("NO_CAPACITY")
        PROVE  ~Sooner(u, v)
    <3>1. u \in Vehicles /\ plans[u] = PlanOf(u) /\ plans[u].status = "NO_CAPACITY"
      BY <1>1, <2>5 DEF PlanInv, WithStatus
    <3>2. u \in Candidates /\ Cardinality(Ahead(u)) >= SlotCount
      BY <2>1, <3>1, PlanFields
    <3>3. /\ v \in Candidates /\ Cardinality(Ahead(v)) \in Nat
          /\ Cardinality(Ahead(v)) < SlotCount /\ Cardinality(Ahead(u)) \in Nat
      BY <2>2, AheadIsFinite
    <3>4. ~(Cardinality(Ahead(u)) < Cardinality(Ahead(v)))
      BY <2>1, <3>2, <3>3
    <3> QED
      BY <2>4, <3>2, <3>3, <3>4
  <2>6. ASSUME NEW v \in Scheduled, NEW u \in Scheduled, Sooner(u, v)
        PROVE  plans[u].batch <= plans[v].batch
    <3>1. u \in Candidates /\ v \in Candidates
      BY <2>2
    <3>2. PICK m \in Nat, n \in Nat :
            m = Cardinality(Ahead(u)) /\ n = Cardinality(Ahead(v)) /\ m <= n
      <4>1. Cardinality(Ahead(u)) \in Nat /\ Cardinality(Ahead(v)) \in Nat
        BY <2>2
      <4>2. Cardinality(Ahead(u)) < Cardinality(Ahead(v))
        BY <2>4, <2>6, <3>1
      <4> QED
        BY <4>1, <4>2
    <3>3. PICK b \in Nat \ {0} : b = site.batchSize
      BY <2>1, SiteFields
    <3>4. m \div b \in Nat /\ n \div b \in Nat /\ m \div b <= n \div b
      BY <3>2, QuotientsGrow
    <3>5. plans[u].batch = BatchOf(m) /\ plans[v].batch = BatchOf(n)
      BY <2>2, <3>2
    <3>6. BatchOf(m) = (m \div b) + 1 /\ BatchOf(n) = (n \div b) + 1
      BY <3>3 DEF BatchOf
    <3> QED
      BY <3>4, <3>5, <3>6
  <2> QED
    BY <2>3, <2>5, <2>6 DEF PointsGoToTheUrgent
<1> QED
  BY <1>1, PlanInvariant, PTL
=============================================================================
