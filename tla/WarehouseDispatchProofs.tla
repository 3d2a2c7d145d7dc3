------------------------ MODULE WarehouseDispatchProofs ------------------------
(***************************************************************************)
(* What WarehouseDispatch keeps for any number of packages, branches,       *)
(* drivers and handlers.                                                    *)
(***************************************************************************)
EXTENDS WarehouseDispatch, SumProofs

-----------------------------------------------------------------------------
(* Sequences made from sets, and sums by parts                                *)

\* Ascending lists each member of a finite set of integers once.
LEMMA AscendingOnce ==
    ASSUME NEW S \in SUBSET Int, IsFiniteSet(S)
    PROVE  /\ Cardinality(S) \in Nat
           /\ Ascending(S) \in [1..Cardinality(S) -> S]
           /\ \A i, k \in 1..Cardinality(S) : Ascending(S)[i] = Ascending(S)[k] => i = k
<1> DEFINE n == Cardinality(S)
           UpTo(k) == {j \in S : j <= k}
           rank == [k \in S |-> Cardinality(UpTo(k))]
<1>1. n \in Nat
  BY FS_CardinalityType
<1>2. ASSUME NEW k \in S
      PROVE  IsFiniteSet(UpTo(k)) /\ Cardinality(UpTo(k)) \in 1..n
  <2>1. UpTo(k) \in SUBSET S /\ k \in UpTo(k)
    OBVIOUS
  <2> HIDE DEF UpTo
  <2>2. IsFiniteSet(UpTo(k)) /\ Cardinality(UpTo(k)) <= n /\ Cardinality(UpTo(k)) \in Nat
    BY <2>1, FS_Subset, FS_CardinalityType
  <2>3. Cardinality(UpTo(k)) # 0
    BY <2>1, <2>2, FS_EmptySet
  <2> QED BY <1>1, <2>2, <2>3
<1>3. ASSUME NEW k \in S, NEW l \in S, k < l
      PROVE  Cardinality(UpTo(k)) # Cardinality(UpTo(l))
  <2>0. k \in Int /\ l \in Int /\ k < l /\ \A j \in S : j \in Int
    BY <1>3
  <2>1. UpTo(k) \in SUBSET UpTo(l) /\ l \in UpTo(l) /\ l \notin UpTo(k)
    <3>1. \A j \in S : j <= k => j <= l
      BY <2>0
    <3>2. l <= l /\ ~(l <= k)
      BY <2>0
    <3> QED BY <3>1, <3>2
  <2>2. IsFiniteSet(UpTo(l))
    BY <1>2
  <2> HIDE DEF UpTo
  <2>3. Cardinality(UpTo(l)) = Cardinality(UpTo(k)) => UpTo(l) = UpTo(k)
    BY <2>1, <2>2, FS_Subset
  <2> QED BY <2>1, <2>3
<1>4. rank \in Injection(S, 1..n)
  <2>1. rank \in [S -> 1..n]
    BY <1>2
  <2>2. \A k, l \in S : k < l => rank[k] # rank[l]
    BY <1>3
  <2>3. DOMAIN rank = S /\ \A k, l \in S : k < l \/ l < k \/ k = l
    OBVIOUS
  <2> HIDE DEF rank
  <2> QED BY <2>1, <2>2, <2>3 DEF Injection, IsInjective
<1>5. rank \in Surjection(S, 1..n)
  <2>1. IsFiniteSet(1..n) /\ Cardinality(1..n) = n
    BY <1>1, FS_Interval
  <2> HIDE DEF rank
  <2> QED BY <1>4, <2>1, FS_Injection
<1>6. ASSUME NEW i \in 1..n
      PROVE  Ascending(S)[i] \in S /\ Cardinality(UpTo(Ascending(S)[i])) = i
  <2>1. \E k \in S : Cardinality(UpTo(k)) = i
    BY <1>5 DEF Surjection
  <2> QED BY <2>1 DEF Ascending
<1>7. DOMAIN Ascending(S) = 1..n
  BY DEF Ascending
<1>8. Ascending(S) = [i \in 1..n |-> Ascending(S)[i]]
  BY DEF Ascending
<1> HIDE DEF UpTo, n
<1>9. Ascending(S) \in [1..n -> S]
  BY <1>6, <1>8
<1>10. \A i, k \in 1..n : Ascending(S)[i] = Ascending(S)[k] => i = k
  BY <1>6
<1> QED BY <1>1, <1>9, <1>10 DEF n

\* A finite set can be put in an order.
LEMMA OrderedIs ==
    ASSUME NEW S, IsFiniteSet(S)
    PROVE  Ordered(S) \in Seq(S)
<1>1. Cardinality(S) \in Nat /\ \E s \in [1..Cardinality(S) -> S] : s \in Surjection(1..Cardinality(S), S)
  BY FS_CardinalityType DEF ExistsBijection, Bijection, Surjection
<1>2. \E s \in [1..Cardinality(S) -> S] : \A x \in S : \E i \in DOMAIN s : s[i] = x
  BY <1>1 DEF Surjection
<1>3. Ordered(S) \in [1..Cardinality(S) -> S]
  BY <1>2 DEF Ordered
<1> QED BY <1>1, <1>3

\* The sum over a set is the sum, over the parts it falls into, of their sums.
LEMMA SumByParts ==
    ASSUME NEW f, NEW h, NEW S, NEW T, IsFiniteSet(S), IsFiniteSet(T),
           \A x \in S : f[x] \in Int /\ h[x] \in T
    PROVE  SumFunctionOnSet(f, S) =
               SumFunctionOnSet([t \in T |-> SumFunctionOnSet(f, {x \in S : h[x] = t})], T)
<1> DEFINE Part(s, t) == {x \in s : h[x] = t}
           Parts(s) == [t \in T |-> SumFunctionOnSet(f, Part(s, t))]
           Bad == {n \in Nat : \E s \in SUBSET S : Cardinality(s) = n
                                   /\ SumFunctionOnSet(f, s) # SumFunctionOnSet(Parts(s), T)}
<1>1. ASSUME NEW s \in SUBSET S
      PROVE  /\ IsFiniteSet(s) /\ Cardinality(s) \in Nat /\ \A x \in s : f[x] \in Int
             /\ \A t : IsFiniteSet(Part(s, t)) /\ SumFunctionOnSet(f, Part(s, t)) \in Int
  <2>1. IsFiniteSet(s) /\ Cardinality(s) \in Nat /\ \A x \in s : f[x] \in Int
    BY FS_Subset, FS_CardinalityType
  <2>2. ASSUME NEW t
        PROVE  IsFiniteSet(Part(s, t)) /\ SumFunctionOnSet(f, Part(s, t)) \in Int
    <3>1. Part(s, t) \in SUBSET s
      OBVIOUS
    <3> HIDE DEF Part
    <3>2. IsFiniteSet(Part(s, t)) /\ \A x \in Part(s, t) : f[x] \in Int
      BY <2>1, <3>1, FS_Subset
    <3> QED BY <3>2, SumInt
  <2> HIDE DEF Part
  <2> QED BY <2>1, <2>2
<1>2. ASSUME NEW s \in SUBSET S, s = {}
      PROVE  SumFunctionOnSet(f, s) = SumFunctionOnSet(Parts(s), T)
  <2>1. \A t \in T : Parts(s)[t] = 0
    BY <1>2, SumEmpty
  <2> HIDE DEF Parts
  <2>2. SumFunctionOnSet(Parts(s), T) = 0
    BY <2>1, SumZero
  <2> QED BY <1>2, <2>2, SumEmpty
<1>3. ASSUME NEW s \in SUBSET S, NEW x \in s,
             SumFunctionOnSet(f, s \ {x}) = SumFunctionOnSet(Parts(s \ {x}), T)
      PROVE  SumFunctionOnSet(f, s) = SumFunctionOnSet(Parts(s), T)
  <2> DEFINE rest == s \ {x}
             t == h[x]
             p == Parts(s)
             p0 == Parts(rest)
  <2>1. rest \in SUBSET S /\ t \in T
    OBVIOUS
  <2>2. SumFunctionOnSet(f, s) = f[x] + SumFunctionOnSet(f, rest)
    BY <1>1, SumTake
  <2>3. Part(rest, t) = Part(s, t) \ {x} /\ x \in Part(s, t)
    OBVIOUS
  <2>4. \A u \in T : u # t => Part(rest, u) = Part(s, u)
    OBVIOUS
  <2>5. SumFunctionOnSet(f, Part(s, t)) = f[x] + SumFunctionOnSet(f, Part(rest, t))
    <3>1. IsFiniteSet(Part(s, t)) /\ \A y \in Part(s, t) : f[y] \in Int
      BY <1>1
    <3> DEFINE whole == Part(s, t)
    <3> HIDE DEF Part, whole
    <3>2. SumFunctionOnSet(f, whole) = f[x] + SumFunctionOnSet(f, whole \ {x})
      BY <2>3, <3>1, SumTake DEF whole
    <3> QED BY <2>3, <3>2 DEF whole
  <2>6. \A u \in T : /\ p[u] = SumFunctionOnSet(f, Part(s, u)) /\ p[u] \in Int
                     /\ p0[u] = SumFunctionOnSet(f, Part(rest, u)) /\ p0[u] \in Int
    <3>1. \A u \in T : /\ SumFunctionOnSet(f, Part(s, u)) \in Int
                      /\ SumFunctionOnSet(f, Part(rest, u)) \in Int
      <4> HIDE DEF Part, rest, t, p, p0
      <4> QED BY <1>1, <2>1
    <3>2. \A u \in T : p[u] = SumFunctionOnSet(f, Part(s, u))
      OBVIOUS
    <3>3. \A u \in T : p0[u] = SumFunctionOnSet(f, Part(rest, u))
      OBVIOUS
    <3> QED BY <3>1, <3>2, <3>3
  <2>7. SumFunctionOnSet(f, rest) \in Int /\ f[x] \in Int /\ SumFunctionOnSet(f, s) \in Int
    BY <1>1, <2>1, SumInt
  <2> HIDE DEF Part, Parts, p, p0, t, rest
  <2>8. \A u \in T : p0[u] \in Int /\ p[u] \in Int /\ (u # t => p[u] = p0[u])
    BY <2>4, <2>6
  <2>9. SumFunctionOnSet(p, T) = SumFunctionOnSet(p0, T) - p0[t] + p[t]
    BY <2>1, <2>8, SumChange
  <2>10. SumFunctionOnSet(p0, T) \in Int
    BY <2>8, SumInt
  <2>11. p[t] = f[x] + p0[t] /\ p0[t] \in Int
    BY <2>1, <2>5, <2>6
  <2>12. SumFunctionOnSet(f, rest) = SumFunctionOnSet(p0, T)
    BY <1>3 DEF rest, p0
  <2>13. SumFunctionOnSet(f, s) = SumFunctionOnSet(p, T)
    BY <2>2, <2>7, <2>9, <2>10, <2>11, <2>12
  <2> QED BY <2>13 DEF p
<1> HIDE DEF Part, Parts
<1>4. Bad = {}
  <2> SUFFICES ASSUME Bad # {}
               PROVE  FALSE
    OBVIOUS
  <2>1. PICK m \in Bad : \A k \in Bad : m <= k
    BY LeastNatural
  <2>2. PICK s \in SUBSET S : /\ Cardinality(s) = m
                              /\ SumFunctionOnSet(f, s) # SumFunctionOnSet(Parts(s), T)
    BY <2>1
  <2>3. s # {}
    BY <1>2, <2>2
  <2>4. PICK x \in s : TRUE
    BY <2>3
  <2>5. Cardinality(s \ {x}) = m - 1 /\ s \ {x} \in SUBSET S
    BY <1>1, <2>2, FS_RemoveElement
  <2>6. SumFunctionOnSet(f, s \ {x}) # SumFunctionOnSet(Parts(s \ {x}), T)
    BY <1>3, <2>2
  <2>7. m - 1 \in Nat /\ m \in Nat
    BY <1>1, <2>1, <2>5
  <2>8. m - 1 \in Bad
    BY <2>5, <2>6, <2>7
  <2> QED BY <2>1, <2>7, <2>8
<1>5. SumFunctionOnSet(f, S) = SumFunctionOnSet(Parts(S), T)
  <2>1. Cardinality(S) \in Nat /\ S \in SUBSET S
    BY FS_CardinalityType
  <2>2. Cardinality(S) \notin Bad
    BY <1>4
  <2> QED BY <2>1, <2>2
<1> QED BY <1>5 DEF Parts, Part

-----------------------------------------------------------------------------
(* What the operators of a dispatch return                                    *)

LEMMA WeightIs ==
    ASSUME package \in [Packages -> PackageDoc]
    PROVE  \A p \in Packages : Weight[p] \in Nat /\ Weight[p] = package[p].weight
<1>1. \A p \in Packages : package[p].weight \in Weights \cup {0}
  BY DEF PackageDoc
<1>2. Weights \cup {0} \in SUBSET Nat
  BY WarehouseAssumption
<1> QED BY <1>1, <1>2 DEF Weight

LEMMA DemandIs ==
    ASSUME package \in [Packages -> PackageDoc], NEW packages \in SUBSET Packages
    PROVE  Demand(packages) \in [Destinations -> Nat]
<1>1. ASSUME NEW destination
      PROVE  SumFunctionOnSet(Weight, {p \in packages : package[p].destination = destination}) \in Nat
  <2> DEFINE part == {p \in packages : package[p].destination = destination}
  <2>1. part \in SUBSET Packages
    OBVIOUS
  <2> HIDE DEF part
  <2>2. IsFiniteSet(part) /\ \A p \in part : Weight[p] \in Nat
    BY <2>1, WarehouseAssumption, WeightIs, FS_Subset
  <2>3. SumFunctionOnSet(Weight, part) \in Nat
    BY <2>2, SumNat
  <2> QED BY <2>3 DEF part
<1> QED BY <1>1 DEF Demand

LEMMA SequenceDomain ==
    ASSUME NEW S, NEW s \in Seq(S)
    PROVE  /\ IsFiniteSet(DOMAIN s) /\ DOMAIN s \in SUBSET Int
           /\ Len(s) \in Nat /\ DOMAIN s = 1..Len(s) /\ \A i \in DOMAIN s : s[i] \in S
BY FS_Interval

LEMMA EligibleIs ==
    ASSUME NEW drivers \in Seq(Drivers), NEW demand
    PROVE  Eligible(drivers, demand) \in Seq(Drivers)
<1> DEFINE S == {i \in DOMAIN drivers : \E stop \in Stops(demand) :
                                    Tenth * Capacity[drivers[i]] >= demand[stop]}
           chosen == Ascending(S)
<1>1. S \in SUBSET (DOMAIN drivers)
  OBVIOUS
<1> HIDE DEF S
<1>2. S \in SUBSET Int /\ IsFiniteSet(S) /\ \A i \in S : drivers[i] \in Drivers
  BY <1>1, SequenceDomain, FS_Subset
<1>3. Cardinality(S) \in Nat /\ chosen \in [1..Cardinality(S) -> S]
  BY <1>2, AscendingOnce
<1>4. Eligible(drivers, demand) = [i \in DOMAIN chosen |-> drivers[chosen[i]]]
  BY DEF Eligible, S
<1> HIDE DEF chosen
<1>5. Eligible(drivers, demand) \in [1..Cardinality(S) -> Drivers]
  BY <1>2, <1>3, <1>4
<1> QED BY <1>3, <1>5

\* The vehicles with a route are vehicles, each of them once.
LEMMA RoutedIs ==
    ASSUME NEW S, NEW vehicles \in Seq(S), NEW plan
    PROVE  /\ RoutedVehicles(vehicles, plan) \in Seq(DOMAIN vehicles)
           /\ \A i, k \in DOMAIN RoutedVehicles(vehicles, plan) :
                RoutedVehicles(vehicles, plan)[i] = RoutedVehicles(vehicles, plan)[k] => i = k
<1> DEFINE V == {v \in DOMAIN vehicles : Visits(plan, v) # {}}
<1>1. V \in SUBSET (DOMAIN vehicles) /\ RoutedVehicles(vehicles, plan) = Ascending(V)
  BY DEF RoutedVehicles
<1> HIDE DEF V
<1>2. V \in SUBSET Int /\ IsFiniteSet(V)
  BY <1>1, SequenceDomain, FS_Subset
<1>3. /\ Cardinality(V) \in Nat /\ Ascending(V) \in [1..Cardinality(V) -> V]
      /\ \A i, k \in 1..Cardinality(V) : Ascending(V)[i] = Ascending(V)[k] => i = k
  BY <1>2, AscendingOnce
<1>4. Ascending(V) \in [1..Cardinality(V) -> DOMAIN vehicles] /\ DOMAIN Ascending(V) = 1..Cardinality(V)
  BY <1>1, <1>3
<1>5. Ascending(V) \in Seq(DOMAIN vehicles)
  BY <1>3, <1>4
<1> QED BY <1>1, <1>3, <1>4, <1>5

\* The packages of a stop that is on a route.
Load(packages, stops, branch) ==
    {p \in packages : package[p].destination = branch /\ branch \in stops}

LEMMA CarryingIs ==
    ASSUME NEW packages, NEW stops \in SUBSET Branches, NEW route,
           \A branch \in Branches : route.stops[branch] = Load(packages, stops, branch)
    PROVE  Carrying(route) = {p \in packages : package[p].destination \in stops}
BY DEF Carrying, Load

\* The drivers of a dispatch that may drive, and those of them that do.
Vehicles(q) == Eligible(q.drivers, q.demand)
Routed(q, plan) == RoutedVehicles(Vehicles(q), plan)

\* A route is that of a vehicle, with the packages that go where it stops.
RouteIs(q, plan, i) ==
    /\ Routed(q, plan)[i] \in DOMAIN Vehicles(q)
    /\ Routes(q, plan)[i].driver = Vehicles(q)[Routed(q, plan)[i]]
    /\ Routes(q, plan)[i].isCompleted = FALSE
    /\ Carrying(Routes(q, plan)[i]) =
        {p \in q.packages : package[p].destination \in Visits(plan, Routed(q, plan)[i])}
    /\ \A branch \in Branches :
        Routes(q, plan)[i].stops[branch] = Load(q.packages, Visits(plan, Routed(q, plan)[i]), branch)

\* A delivery's routes share its packages out, each on the route of a vehicle
\* that visits where it goes.
LEMMA RoutesAre ==
    ASSUME NEW q \in RequestState, NEW plan,
           DOMAIN plan \in SUBSET Branches
    PROVE  /\ Routes(q, plan) \in Seq(RouteDoc)
           /\ DOMAIN Routes(q, plan) = DOMAIN Routed(q, plan)
           /\ \A i \in DOMAIN Routes(q, plan) : RouteIs(q, plan, i)
           /\ \A i, k \in DOMAIN Routes(q, plan) :
                i # k => Carrying(Routes(q, plan)[i]) \cap Carrying(Routes(q, plan)[k]) = {}
<1> DEFINE eligible == Eligible(q.drivers, q.demand)
           routed == RoutedVehicles(eligible, plan)
           routes == Routes(q, plan)
           route(i) == [driver |-> eligible[routed[i]],
                        stops |-> [branch \in Branches |-> Load(q.packages, Visits(plan, routed[i]), branch)],
                        isCompleted |-> FALSE]
<1>1. q.drivers \in Seq(Drivers) /\ q.packages \in SUBSET Packages
  BY DEF RequestState
<1>2. eligible \in Seq(Drivers)
  BY <1>1, EligibleIs
<1>3. routes = [i \in DOMAIN routed |-> route(i)]
  BY DEF Routes, Load
<1> HIDE DEF eligible
<1>4. /\ routed \in Seq(DOMAIN eligible)
      /\ \A i, k \in DOMAIN routed : routed[i] = routed[k] => i = k
  BY <1>2, RoutedIs
<1> HIDE DEF routed, routes
<1>5. Len(routed) \in Nat /\ DOMAIN routed = 1..Len(routed) /\ \A i \in DOMAIN routed : routed[i] \in DOMAIN eligible
  BY <1>4, SequenceDomain
<1>6. \A i \in DOMAIN routed : eligible[routed[i]] \in Drivers
  BY <1>2, <1>5, SequenceDomain
<1>7. \A i \in DOMAIN routed : route(i) \in RouteDoc
  BY <1>1, <1>6 DEF RouteDoc, Load
<1>8. ASSUME NEW i \in DOMAIN routed
      PROVE  Carrying(routes[i]) = {p \in q.packages : package[p].destination \in Visits(plan, routed[i])}
  <2>1. Visits(plan, routed[i]) \in SUBSET Branches
    BY DEF Visits
  <2>2. \A branch \in Branches :
            routes[i].stops[branch] = Load(q.packages, Visits(plan, routed[i]), branch)
    BY <1>3
  <2> QED BY <2>1, <2>2, CarryingIs
<1>9. routes \in Seq(RouteDoc) /\ DOMAIN routes = DOMAIN routed
  <2> HIDE DEF route
  <2>1. routes \in [1..Len(routed) -> RouteDoc]
    BY <1>3, <1>5, <1>7
  <2> QED BY <1>3, <1>5, <2>1
<1>10. \A i \in DOMAIN routed :
        /\ routes[i].driver = eligible[routed[i]] /\ routes[i].isCompleted = FALSE
        /\ \A branch \in Branches :
            routes[i].stops[branch] = Load(q.packages, Visits(plan, routed[i]), branch)
  BY <1>3
<1>11. ASSUME NEW i \in DOMAIN routed, NEW k \in DOMAIN routed, i # k
       PROVE  Carrying(routes[i]) \cap Carrying(routes[k]) = {}
  <2>1. routed[i] # routed[k]
    BY <1>4, <1>11
  <2> QED BY <1>8, <2>1 DEF Visits
<1>12. /\ routes \in Seq(RouteDoc) /\ DOMAIN routes = DOMAIN routed
       /\ \A i \in DOMAIN routes :
                    /\ routed[i] \in DOMAIN eligible
                    /\ routes[i].driver = eligible[routed[i]]
                    /\ routes[i].isCompleted = FALSE
                    /\ Carrying(routes[i]) =
                        {p \in q.packages : package[p].destination \in Visits(plan, routed[i])}
                    /\ \A branch \in Branches :
                        routes[i].stops[branch] = Load(q.packages, Visits(plan, routed[i]), branch)
       /\ \A i, k \in DOMAIN routes :
                    i # k => Carrying(routes[i]) \cap Carrying(routes[k]) = {}
  BY <1>5, <1>8, <1>9, <1>10, <1>11
<1> HIDE DEF route
<1> QED BY <1>12 DEF eligible, routed, routes, Vehicles, Routed, RouteIs

-----------------------------------------------------------------------------
(* The type invariant, with what a suspended handler relies on                *)

Dispatching == {r \in Requests : req[r].step \in {"loadPackages", "create"}}

\* What a handler is to save or to mark is there; a delivery's routes that were
\* completed when it was loaded still are.
SlotFit(q) ==
    /\ q.step = "saveStatus" => q.next \in PackageStatus \ {"PENDING"}
    /\ q.step = "markAssigned" =>
        /\ q.delivery \in DOMAIN delivery
        /\ q.packages \subseteq delivery[q.delivery].packageIds
    /\ q.step = "saveCompleted" =>
        /\ q.delivery \in DOMAIN delivery
        /\ q.route \in DOMAIN delivery[q.delivery].routes
        /\ q.completed \subseteq Completed(delivery[q.delivery].routes)
        /\ q.status \in DeliveryStatus

TypeInv ==
    /\ TypeOK
    /\ Len(delivery) + Cardinality(Dispatching) <= MaxDeliveries
    /\ \A r \in Requests : SlotFit(req[r])

\* A delivery keeps its packages and its routes, and a completed route stays so.
Kept(d, e) ==
    /\ e.packageIds = d.packageIds /\ DOMAIN e.routes = DOMAIN d.routes
    /\ \A i \in DOMAIN d.routes :
        /\ d.routes[i].isCompleted => e.routes[i].isCompleted
        /\ e.routes[i].driver = d.routes[i].driver /\ e.routes[i].stops = d.routes[i].stops

Later ==
    /\ DOMAIN delivery \subseteq DOMAIN delivery'
    /\ \A n \in DOMAIN delivery : Kept(delivery[n], delivery'[n])

\* Nothing a step does to the deliveries upsets a handler that waits.
LEMMA FitLater ==
    ASSUME NEW q, SlotFit(q), Later
    PROVE  SlotFit(q)'
<1>1. ASSUME NEW n \in DOMAIN delivery
      PROVE  /\ n \in DOMAIN delivery' /\ delivery'[n].packageIds = delivery[n].packageIds
             /\ DOMAIN delivery'[n].routes = DOMAIN delivery[n].routes
             /\ Completed(delivery[n].routes) \subseteq Completed(delivery'[n].routes)
  BY DEF Later, Kept, Completed
<1> QED BY <1>1 DEF SlotFit

LEMMA LaterSame ==
    ASSUME UNCHANGED delivery
    PROVE  Later
BY DEF Later, Kept

LEMMA IdleIs ==
    /\ Idle \in RequestState /\ SlotFit(Idle)
    /\ Idle.step \notin {"loadPackages", "create"}
<1>1. [b \in Destinations |-> 0] \in [Destinations -> Nat] /\ <<>> \in Seq(Drivers)
  OBVIOUS
<1>2. 0 \in 0..MaxDeliveries
  BY WarehouseAssumption
<1> QED BY <1>1, <1>2 DEF Idle, RequestState, Steps, SlotFit

\* The dispatches under way, as one handler moves on.
LEMMA DispatchingMoves ==
    ASSUME req \in [Requests -> RequestState], NEW r \in Requests, NEW slot,
           req' = [req EXCEPT ![r] = slot]
    PROVE  /\ Cardinality(Dispatching) \in Nat /\ Cardinality(Dispatching') \in Nat
           /\ slot.step \notin {"loadPackages", "create"} =>
                Cardinality(Dispatching') <= Cardinality(Dispatching)
           /\ Cardinality(Dispatching') <= Cardinality(Dispatching) + 1
           /\ req[r].step \in {"loadPackages", "create"} =>
                Cardinality(Dispatching') <= Cardinality(Dispatching)
           /\ (req[r].step \in {"loadPackages", "create"} /\ slot.step \notin {"loadPackages", "create"}) =>
                Cardinality(Dispatching') = Cardinality(Dispatching) - 1
<1>1. /\ Dispatching \in SUBSET Requests /\ Dispatching' \in SUBSET Requests
      /\ Dispatching' \in SUBSET (Dispatching \cup {r})
      /\ (r \in Dispatching <=> req[r].step \in {"loadPackages", "create"})
      /\ slot.step \notin {"loadPackages", "create"} => Dispatching' = Dispatching \ {r}
  BY DEF Dispatching
<1>2. IsFiniteSet(Dispatching) /\ IsFiniteSet(Dispatching \cup {r})
  BY <1>1, WarehouseAssumption, FS_Subset, FS_AddElement
<1>3. IsFiniteSet(Dispatching')
  BY <1>1, WarehouseAssumption, FS_Subset
<1>4. Cardinality(Dispatching) \in Nat /\ Cardinality(Dispatching') \in Nat
  BY <1>2, <1>3, FS_CardinalityType
<1>5. Cardinality(Dispatching \cup {r}) =
          IF r \in Dispatching THEN Cardinality(Dispatching) ELSE Cardinality(Dispatching) + 1
  BY <1>2, FS_AddElement
<1>6. Cardinality(Dispatching \ {r}) =
          IF r \in Dispatching THEN Cardinality(Dispatching) - 1 ELSE Cardinality(Dispatching)
  BY <1>2, FS_RemoveElement
<1>7. Cardinality(Dispatching') <= Cardinality(Dispatching \cup {r})
  BY <1>1, <1>2, FS_Subset
<1>8. ASSUME NEW C \in Nat, NEW D \in Nat, NEW added, NEW removed, NEW was \in BOOLEAN, NEW stops \in BOOLEAN,
             added = IF was THEN C ELSE C + 1, removed = IF was THEN C - 1 ELSE C,
             stops => D = removed, D <= added
      PROVE  /\ stops => D <= C
             /\ D <= C + 1
             /\ was => D <= C
             /\ (was /\ stops) => D = C - 1
  BY <1>8
<1>9. slot.step \notin {"loadPackages", "create"} => Cardinality(Dispatching') = Cardinality(Dispatching \ {r})
  BY <1>1
<1> DEFINE C == Cardinality(Dispatching)
           D == Cardinality(Dispatching')
           added == Cardinality(Dispatching \cup {r})
           removed == Cardinality(Dispatching \ {r})
           was == r \in Dispatching
           stops == slot.step \notin {"loadPackages", "create"}
<1>10. /\ C \in Nat /\ D \in Nat /\ D <= added /\ (stops => D = removed)
       /\ added = (IF was THEN C ELSE C + 1) /\ removed = (IF was THEN C - 1 ELSE C)
  BY <1>4, <1>5, <1>6, <1>7, <1>9
<1>11. was \in BOOLEAN /\ stops \in BOOLEAN
  OBVIOUS
<1>12. was <=> req[r].step \in {"loadPackages", "create"}
  BY <1>1
<1> HIDE DEF C, D, added, removed, was, stops
<1>13. /\ stops => D <= C
       /\ D <= C + 1
       /\ was => D <= C
       /\ (was /\ stops) => D = C - 1
  BY <1>8, <1>10, <1>11
<1>14. C = Cardinality(Dispatching) /\ D = Cardinality(Dispatching')
  BY DEF C, D
<1> QED BY <1>10, <1>12, <1>13, <1>14 DEF stops

\* A handler that moves on, with the deliveries as they are, keeps the type
\* invariant when its slot fits.
LEMMA MovedOn ==
    ASSUME TypeInv, NEW r \in Requests, NEW slot \in RequestState, SlotFit(slot),
           req' = [req EXCEPT ![r] = slot], UNCHANGED delivery,
           slot.step \in {"loadPackages", "create"} =>
               \/ req[r].step \in {"loadPackages", "create"}
               \/ Len(delivery) + Cardinality(Dispatching) < MaxDeliveries
    PROVE  /\ req' \in [Requests -> RequestState]
           /\ \A q \in Requests : SlotFit(req[q])'
           /\ Len(delivery') + Cardinality(Dispatching') <= MaxDeliveries
<1>1. req \in [Requests -> RequestState]
  BY DEF TypeInv, TypeOK
<1>2. Later
  BY LaterSame
<1>3. ASSUME NEW q \in Requests
      PROVE  SlotFit(req[q])'
  <2>1. req'[q] = IF q = r THEN slot ELSE req[q]
    BY <1>1
  <2>2. SlotFit(IF q = r THEN slot ELSE req[q])
    BY DEF TypeInv
  <2>3. ASSUME NEW a, a = req'[q]
        PROVE  SlotFit(a)'
    BY <1>2, <2>1, <2>2, <2>3, FitLater
  <2> QED BY <2>3
<1>4. Len(delivery') + Cardinality(Dispatching') <= MaxDeliveries
  <2>1. /\ Len(delivery) \in Nat /\ MaxDeliveries \in Nat /\ Len(delivery') = Len(delivery)
        /\ Len(delivery) + Cardinality(Dispatching) <= MaxDeliveries
    BY WarehouseAssumption DEF TypeInv, TypeOK
  <2> DEFINE C == Cardinality(Dispatching)
             D == Cardinality(Dispatching')
  <2>2. /\ C \in Nat /\ D \in Nat /\ D <= C + 1
        /\ D <= C \/ Len(delivery) + C < MaxDeliveries
    BY <1>1, DispatchingMoves
  <2>3. Len(delivery) + C <= MaxDeliveries
    BY <2>1
  <2> HIDE DEF C, D
  <2>4. Len(delivery) + D <= MaxDeliveries
    BY <2>1, <2>2, <2>3
  <2> QED BY <2>1, <2>4 DEF D
<1>5. req' \in [Requests -> RequestState]
  BY <1>1
<1> QED BY <1>3, <1>4, <1>5

LEMMA MishapType ==
    ASSUME mishap \in [Kinds -> 0..MaxMishaps], NEW kind \in Kinds, Mishap(kind)
    PROVE  /\ mishap' \in [Kinds -> 0..MaxMishaps]
           /\ mishap'[kind] # 0
<1>1. /\ mishap["overlap"] \in Nat /\ mishap["crash"] \in Nat /\ MaxMishaps \in Nat
      /\ mishap["overlap"] + mishap["crash"] < MaxMishaps
  BY WarehouseAssumption DEF Mishap, Kinds
<1>2. mishap' = [mishap EXCEPT ![kind] = mishap[kind] + 1]
  BY DEF Mishap
<1>3. mishap[kind] \in Nat /\ mishap[kind] + 1 \in 0..MaxMishaps
  BY <1>1 DEF Kinds
<1> QED BY <1>2, <1>3

\* A call suspends a handler and leaves the collections alone.
LEMMA StartKeeps ==
    ASSUME TypeInv, NEW r \in Requests, NEW step \in Steps, NEW state \in RequestState,
           Start(r, step, state), SlotFit([state EXCEPT !.step = step]),
           step \in {"loadPackages", "create"} =>
               Len(delivery) + Cardinality(Dispatching) < MaxDeliveries,
           reports' \in 0..MaxReports
    PROVE  TypeInv'
<1> DEFINE slot == [state EXCEPT !.step = step]
<1>1. slot \in RequestState /\ SlotFit(slot) /\ slot.step = step
  BY DEF RequestState
<1>2. req' = [req EXCEPT ![r] = slot] /\ UNCHANGED <<package, delivery, online>>
  BY DEF Start
<1> HIDE DEF slot
<1>3. /\ req' \in [Requests -> RequestState]
      /\ \A q \in Requests : SlotFit(req[q])'
      /\ Len(delivery') + Cardinality(Dispatching') <= MaxDeliveries
  BY <1>1, <1>2, MovedOn
<1>4. mishap' \in [Kinds -> 0..MaxMishaps]
  <2>1. mishap \in [Kinds -> 0..MaxMishaps]
    BY DEF TypeInv, TypeOK
  <2>2. UNCHANGED mishap \/ Mishap("overlap")
    BY DEF Start
  <2> QED BY <2>1, <2>2, MishapType DEF Kinds
<1> QED BY <1>2, <1>3, <1>4 DEF TypeInv, TypeOK

LEMMA ReportType ==
    ASSUME reports \in 0..MaxReports, UNCHANGED reports \/ Report
    PROVE  reports' \in 0..MaxReports
BY WarehouseAssumption DEF Report

LEMMA BeginType ==
    ASSUME TypeInv, NEW r \in Requests, Begin(r)
    PROVE  TypeInv'
<1>0. reports' \in 0..MaxReports
  BY ReportType DEF Begin, TypeInv, TypeOK
<1>1. ASSUME NEW p \in Packages, NEW weight \in Weights, UpdateWarehousePackage(r, p, weight)
      PROVE  TypeInv'
  <2> DEFINE state == [Idle EXCEPT !.packages = {p}, !.weight = weight]
  <2>1. state \in RequestState /\ SlotFit([state EXCEPT !.step = "savePackage"])
    BY IdleIs DEF RequestState, SlotFit
  <2>2. Start(r, "savePackage", state)
    BY <1>1 DEF UpdateWarehousePackage
  <2> HIDE DEF state
  <2> QED BY <1>0, <2>1, <2>2, StartKeeps DEF Steps
<1>2. ASSUME NEW p \in Packages, DeleteWarehousePackage(r, p)
      PROVE  TypeInv'
  <2> DEFINE state == [Idle EXCEPT !.packages = {p}]
  <2>1. state \in RequestState /\ SlotFit([state EXCEPT !.step = "deletePackage"])
    BY IdleIs DEF RequestState, SlotFit
  <2>2. Start(r, "deletePackage", state)
    BY <1>2 DEF DeleteWarehousePackage
  <2> HIDE DEF state
  <2> QED BY <1>0, <2>1, <2>2, StartKeeps DEF Steps
<1>3. ASSUME NEW drivers \in SUBSET Drivers, NEW requested \in SUBSET Packages,
             Dispatch(r, drivers, requested)
      PROVE  TypeInv'
  <2> DEFINE order == Ordered(drivers)
             state == [Idle EXCEPT !.drivers = order, !.packages = requested]
  <2>1. order \in Seq(Drivers)
    <3>1. order \in Seq(drivers)
      BY WarehouseAssumption, FS_Subset, OrderedIs
    <3> HIDE DEF order
    <3> QED BY <3>1
  <2>2. Start(r, "loadPackages", state) /\ Len(delivery) + Cardinality(Dispatching) < MaxDeliveries
    BY <1>3 DEF Dispatch, Dispatching
  <2> HIDE DEF order
  <2>3. state \in RequestState /\ SlotFit([state EXCEPT !.step = "loadPackages"])
    BY <2>1, IdleIs DEF RequestState, SlotFit
  <2> HIDE DEF state
  <2> QED BY <1>0, <2>2, <2>3, StartKeeps DEF Steps
<1>4. ASSUME NEW p \in Packages, NEW next \in PackageStatus, UpdateWarehousePackageStatus(r, p, next)
      PROVE  TypeInv'
  <2> DEFINE state == [Idle EXCEPT !.packages = {p}, !.status = package[p].status, !.next = next]
  <2>1. package[p].status \in PackageStatus /\ next \in PackageStatus \ {"PENDING"}
    BY <1>4 DEF UpdateWarehousePackageStatus, ValidTransitions, PackageStatus
  <2>2. state \in RequestState /\ SlotFit([state EXCEPT !.step = "saveStatus"])
    BY <2>1, IdleIs DEF RequestState, SlotFit
  <2>3. Start(r, "saveStatus", state)
    BY <1>4 DEF UpdateWarehousePackageStatus
  <2> HIDE DEF state
  <2> QED BY <1>0, <2>2, <2>3, StartKeeps DEF Steps
<1>5. ASSUME NEW n \in DOMAIN delivery, NEW i \in DOMAIN delivery[n].routes, MarkDriverCompleted(r, n, i)
      PROVE  TypeInv'
  <2> DEFINE done == Completed(delivery[n].routes)
             state == [Idle EXCEPT !.delivery = n, !.route = i, !.status = delivery[n].status,
                                   !.completed = done]
  <2>1. delivery[n] \in DeliveryDoc /\ n \in 0..MaxDeliveries
    <3>1. delivery \in Seq(DeliveryDoc) /\ Len(delivery) <= MaxDeliveries /\ MaxDeliveries \in Nat
      BY WarehouseAssumption DEF TypeInv, TypeOK
    <3>2. n \in 1..Len(delivery) /\ Len(delivery) \in Nat /\ delivery[n] \in DeliveryDoc
      BY <3>1
    <3> QED BY <3>1, <3>2
  <2>2. i \in Nat /\ done \in SUBSET Nat /\ delivery[n].status \in DeliveryStatus
    <3>1. delivery[n].routes \in Seq(RouteDoc) /\ delivery[n].status \in DeliveryStatus
      BY <2>1 DEF DeliveryDoc
    <3>2. DOMAIN delivery[n].routes \in SUBSET Nat
      BY <3>1
    <3> QED BY <3>1, <3>2 DEF Completed
  <2>3. Start(r, "saveCompleted", state)
    BY <1>5 DEF MarkDriverCompleted
  <2>4. done = Completed(delivery[n].routes)
    OBVIOUS
  <2> HIDE DEF done
  <2>5. state \in RequestState
    BY <2>1, <2>2, IdleIs DEF RequestState
  <2>6. SlotFit([state EXCEPT !.step = "saveCompleted"])
    <3>1. /\ [state EXCEPT !.step = "saveCompleted"].step = "saveCompleted"
          /\ [state EXCEPT !.step = "saveCompleted"].delivery = n
          /\ [state EXCEPT !.step = "saveCompleted"].route = i
          /\ [state EXCEPT !.step = "saveCompleted"].completed = done
          /\ [state EXCEPT !.step = "saveCompleted"].status = delivery[n].status
      BY DEF Idle
    <3> HIDE DEF state
    <3> QED BY <2>2, <2>4, <3>1 DEF SlotFit
  <2> HIDE DEF state
  <2> QED BY <1>0, <2>3, <2>5, <2>6, StartKeeps DEF Steps
<1> QED BY <1>1, <1>2, <1>3, <1>4, <1>5 DEF Begin

\* A handler that ends frees its slot.
LEMMA FinishFits ==
    ASSUME TypeInv, NEW r \in Requests, Finish(r), UNCHANGED delivery
    PROVE  /\ req' \in [Requests -> RequestState]
           /\ \A q \in Requests : SlotFit(req[q])'
           /\ Len(delivery') + Cardinality(Dispatching') <= MaxDeliveries
<1>1. req' = [req EXCEPT ![r] = Idle]
  BY DEF Finish
<1> QED BY <1>1, IdleIs, MovedOn

\* What a save leaves of a package document is one.
LEMMA DocsType ==
    ASSUME package \in [Packages -> PackageDoc], NEW n \in 0..MaxDeliveries,
           NEW weight \in Weights \cup {0}, NEW status \in PackageStatus
    PROVE  \A p \in Packages :
                /\ package[p] \in PackageDoc
                /\ [package[p] EXCEPT !.weight = weight] \in PackageDoc
                /\ [package[p] EXCEPT !.status = status] \in PackageDoc
                /\ [package[p] EXCEPT !.status = "ASSIGNED", !.deliveryId = n] \in PackageDoc
                /\ [NoPackage EXCEPT !.status = "deleted"] \in PackageDoc
<1>1. "ASSIGNED" \in PackageStatus /\ 0 \in 0..MaxDeliveries
  BY WarehouseAssumption DEF PackageStatus
<1> QED BY <1>1 DEF PackageDoc, NoPackage

\* One more of the packages of a delivery is marked.
MarkNext(r) == \E p \in req[r].packages : MarkAssigned(r, p)

LEMMA SavesType ==
    ASSUME TypeInv, NEW r \in Requests,
           SavePackage(r) \/ DeletePackage(r) \/ SaveStatus(r) \/ MarkNext(r)
    PROVE  package' \in [Packages -> PackageDoc] /\ UNCHANGED <<delivery, online, reports, mishap>>
<1> DEFINE q == req[r]
<1>1. q \in RequestState /\ SlotFit(q) /\ package \in [Packages -> PackageDoc]
  BY DEF TypeInv, TypeOK
<1>2. q.weight \in Weights \cup {0} /\ q.delivery \in 0..MaxDeliveries
  BY <1>1 DEF RequestState
<1> HIDE DEF q
<1>3. "PENDING" \in PackageStatus
  BY DEF PackageStatus
<1>4. CASE SavePackage(r)
  <2>1. package' = [p \in Packages |-> IF p \in q.packages /\ Exists(p)
                        THEN [package[p] EXCEPT !.weight = q.weight] ELSE package[p]]
    BY <1>4 DEF SavePackage, q
  <2>2. package' \in [Packages -> PackageDoc]
    BY <1>1, <1>2, <1>3, <2>1, DocsType
  <2> QED BY <1>4, <2>2 DEF SavePackage
<1>5. CASE DeletePackage(r)
  <2>1. package' = [p \in Packages |-> IF p \in q.packages
                        THEN [NoPackage EXCEPT !.status = "deleted"] ELSE package[p]]
    BY <1>5 DEF DeletePackage, q
  <2>2. package' \in [Packages -> PackageDoc]
    BY <1>1, <1>2, <1>3, <2>1, DocsType
  <2> QED BY <1>5, <2>2 DEF DeletePackage
<1>6. CASE SaveStatus(r)
  <2>1. q.next \in PackageStatus
    BY <1>1, <1>6 DEF SaveStatus, SlotFit, q
  <2>2. package' = [p \in Packages |-> IF p \in q.packages /\ Exists(p)
                        THEN [package[p] EXCEPT !.status = Written(package[p].status, q.status, q.next)]
                        ELSE package[p]]
    BY <1>6 DEF SaveStatus, q
  <2>3. \A p \in Packages : Exists(p) => Written(package[p].status, q.status, q.next) \in PackageStatus
    BY <2>1 DEF Exists, Written
  <2>4. package' \in [Packages -> PackageDoc]
    <3>1. \A p \in Packages, status \in PackageStatus : [package[p] EXCEPT !.status = status] \in PackageDoc
      BY <1>1, <1>2, DocsType
    <3> QED BY <1>1, <2>2, <2>3, <3>1
  <2> QED BY <1>6, <2>4 DEF SaveStatus
<1>7. CASE MarkNext(r)
  <2>1. PICK p \in q.packages : MarkAssigned(r, p)
    BY <1>7 DEF MarkNext, q
  <2>2. p \in Packages
    BY <1>1 DEF RequestState
  <2>3. package' = package
        \/ package' = [package EXCEPT ![p] = [package[p] EXCEPT !.status = "ASSIGNED",
                                                               !.deliveryId = q.delivery]]
    BY <1>1, <2>1, <2>2 DEF MarkAssigned, q, PackageDoc
  <2>4. [package[p] EXCEPT !.status = "ASSIGNED", !.deliveryId = q.delivery] \in PackageDoc
    BY <1>1, <1>2, <1>3, <2>2, DocsType
  <2>5. package' \in [Packages -> PackageDoc]
    BY <1>1, <2>3, <2>4
  <2> QED BY <2>1, <2>5 DEF MarkAssigned
<1> QED BY <1>4, <1>5, <1>6, <1>7

\* The slot of a dispatch that found its packages.
LEMMA GotoIs ==
    ASSUME TypeInv, NEW r \in Requests, LoadPackages(r), ~Finish(r)
    PROVE  \E found \in SUBSET Pending :
                LET slot == [req[r] EXCEPT !.packages = found, !.demand = Demand(found), !.step = "create"]
                IN  req' = [req EXCEPT ![r] = slot] /\ slot \in RequestState /\ SlotFit(slot)
<1> DEFINE q == req[r]
<1>1. q \in RequestState /\ package \in [Packages -> PackageDoc]
  BY DEF TypeInv, TypeOK
<1> HIDE DEF q
<1>2. PICK found \in SUBSET Pending :
          req' = [req EXCEPT ![r] = [q EXCEPT !.packages = found, !.demand = Demand(found), !.step = "create"]]
  BY DEF LoadPackages, Goto, q
<1>3. found \in SUBSET Packages /\ Demand(found) \in [Destinations -> Nat]
  BY <1>1, DemandIs DEF Pending
<1> DEFINE slot == [q EXCEPT !.packages = found, !.demand = Demand(found), !.step = "create"]
<1>4. slot \in RequestState /\ slot.step = "create"
  BY <1>1, <1>3 DEF RequestState, Steps
<1>5. SlotFit(slot)
  BY <1>4 DEF SlotFit
<1> QED BY <1>2, <1>4, <1>5 DEF q

\* A dispatch marks its packages one after the other, and turns to the drivers
\* after the last.
LEMMA MarkIs ==
    ASSUME TypeInv, NEW r \in Requests, NEW p \in req[r].packages, MarkAssigned(r, p)
    PROVE  /\ req[r].step = "markAssigned" /\ p \in Packages
           /\ req' = [req EXCEPT ![r] = req'[r]] /\ req'[r] \in RequestState /\ SlotFit(req'[r])
           /\ \/ req'[r].step = "driversOffline" /\ req[r].packages = {p}
              \/ req'[r] = [req[r] EXCEPT !.packages = @ \ {p}]
<1>1. req \in [Requests -> RequestState] /\ req[r] \in RequestState /\ SlotFit(req[r])
  BY DEF TypeInv, TypeOK
<1>2. req[r].step = "markAssigned" /\ NextPackage(r, p) /\ p \in Packages
  BY <1>1 DEF MarkAssigned, RequestState
<1>3. CASE req[r].packages = {p}
  <2> DEFINE slot == [Idle EXCEPT !.drivers = req[r].drivers, !.step = "driversOffline"]
  <2>1. req' = [req EXCEPT ![r] = slot]
    BY <1>2, <1>3 DEF NextPackage, Goto
  <2>2. slot \in RequestState /\ slot.step = "driversOffline"
    BY <1>1, IdleIs DEF RequestState, Steps
  <2>3. SlotFit(slot)
    BY <2>2 DEF SlotFit
  <2> HIDE DEF slot
  <2>4. req'[r] = slot
    BY <1>1, <2>1
  <2> QED BY <1>2, <1>3, <2>1, <2>2, <2>3, <2>4
<1>4. CASE req[r].packages # {p}
  <2> DEFINE slot == [req[r] EXCEPT !.packages = @ \ {p}]
  <2>1. req' = [req EXCEPT ![r] = slot]
    BY <1>1, <1>2, <1>4 DEF NextPackage
  <2>2. slot \in RequestState /\ SlotFit(slot)
    BY <1>1 DEF RequestState, SlotFit
  <2>3. req'[r] = slot
    BY <1>1, <2>1
  <2> QED BY <1>2, <2>1, <2>2, <2>3
<1> QED BY <1>3, <1>4

\* The drivers go offline one after the other, and the dispatch ends.
LEMMA OfflineIs ==
    ASSUME TypeInv, NEW r \in Requests, DriversOffline(r)
    PROVE  /\ req[r].step = "driversOffline" /\ UNCHANGED <<package, delivery, reports, mishap>>
           /\ req' = [req EXCEPT ![r] = req'[r]] /\ req'[r] \in RequestState /\ SlotFit(req'[r])
           /\ req'[r] = Idle \/ req'[r].step = "driversOffline"
<1>1. req \in [Requests -> RequestState] /\ req[r] \in RequestState
  BY DEF TypeInv, TypeOK
<1>2. /\ req[r].step = "driversOffline" /\ req[r].drivers # <<>>
      /\ UNCHANGED <<package, delivery, reports, mishap>>
      /\ \/ req' = [req EXCEPT ![r] = Idle]
         \/ req' = [req EXCEPT ![r].drivers = Tail(@)]
  BY DEF DriversOffline, Finish
<1>3. CASE req' = [req EXCEPT ![r] = Idle]
  <2>1. req'[r] = Idle
    BY <1>1, <1>3
  <2> QED BY <1>2, <1>3, <2>1, IdleIs
<1>4. CASE req' = [req EXCEPT ![r].drivers = Tail(@)]
  <2> DEFINE slot == [req[r] EXCEPT !.drivers = Tail(req[r].drivers)]
  <2>1. Tail(req[r].drivers) \in Seq(Drivers)
    BY <1>1, <1>2 DEF RequestState
  <2>2. slot \in RequestState /\ slot.step = "driversOffline"
    BY <1>1, <1>2, <2>1 DEF RequestState
  <2>3. req' = [req EXCEPT ![r] = slot] /\ req'[r] = slot
    BY <1>1, <1>4
  <2>4. SlotFit(slot)
    BY <2>2 DEF SlotFit
  <2> HIDE DEF slot
  <2> QED BY <1>2, <2>2, <2>3, <2>4
<1> QED BY <1>2, <1>3, <1>4

\* The delivery that a dispatch creates, and its slot then.
Created(r, plan) == [status |-> "PLANNED", routes |-> Routes(req[r], plan), packageIds |-> req[r].packages]

Marking(r) == [Idle EXCEPT !.drivers = Eligible(req[r].drivers, req[r].demand),
                           !.packages = req[r].packages,
                           !.delivery = Len(delivery) + 1, !.step = "markAssigned"]

LEMMA CreateIs ==
    ASSUME TypeInv, NEW r \in Requests, req[r].step = "create", NEW plan,
           DOMAIN plan \in SUBSET Branches, CreateDelivery(r, plan)
    PROVE  /\ delivery' = Append(delivery, Created(r, plan)) /\ Created(r, plan) \in DeliveryDoc
           /\ delivery' \in Seq(DeliveryDoc) /\ Len(delivery') = Len(delivery) + 1
           /\ DOMAIN delivery' = DOMAIN delivery \cup {Len(delivery) + 1}
           /\ Len(delivery) + 1 \notin DOMAIN delivery
           /\ delivery'[Len(delivery) + 1] = Created(r, plan)
           /\ \A n \in DOMAIN delivery : delivery'[n] = delivery[n]
           /\ req' = [req EXCEPT ![r] = Marking(r)] /\ Marking(r).step = "markAssigned"
           /\ Marking(r).delivery = Len(delivery) + 1 /\ Marking(r).packages = req[r].packages
           /\ Later /\ TypeInv'
<1> DEFINE q == req[r]
           eligible == Eligible(q.drivers, q.demand)
           new == Created(r, plan)
           slot == Marking(r)
<1>1. q \in RequestState /\ delivery \in Seq(DeliveryDoc) /\ Len(delivery) <= MaxDeliveries
  BY DEF TypeInv, TypeOK
<1>2. delivery' = Append(delivery, new) /\ req' = [req EXCEPT ![r] = slot]
      /\ UNCHANGED <<package, online, reports, mishap>>
  BY DEF CreateDelivery, Goto, Created, Marking
<1>3. q.drivers \in Seq(Drivers) /\ q.packages \in SUBSET Packages
  BY <1>1 DEF RequestState
<1>4. eligible \in Seq(Drivers)
  BY <1>3, EligibleIs
<1>5. Routes(q, plan) \in Seq(RouteDoc)
  BY <1>1, RoutesAre
<1>6. new \in DeliveryDoc
  BY <1>3, <1>5 DEF DeliveryDoc, DeliveryStatus, Created
<1> HIDE DEF new, eligible
<1>7. /\ delivery' \in Seq(DeliveryDoc) /\ Len(delivery') = Len(delivery) + 1
      /\ Len(delivery) \in Nat /\ DOMAIN delivery = 1..Len(delivery)
      /\ DOMAIN delivery' = 1..(Len(delivery) + 1)
      /\ delivery'[Len(delivery) + 1] = new
      /\ \A n \in DOMAIN delivery : delivery'[n] = delivery[n]
  BY <1>1, <1>2, <1>6
<1>8. /\ DOMAIN delivery' = DOMAIN delivery \cup {Len(delivery) + 1}
      /\ Len(delivery) + 1 \notin DOMAIN delivery
  BY <1>7
<1>9. Later
  BY <1>7, <1>8 DEF Later, Kept
<1>10. /\ Cardinality(Dispatching) \in Nat /\ Cardinality(Dispatching') = Cardinality(Dispatching) - 1
       /\ slot.step = "markAssigned" /\ slot.delivery = Len(delivery) + 1 /\ slot.packages = q.packages
       /\ slot.drivers = eligible
  <2>1. /\ slot.step = "markAssigned" /\ slot.delivery = Len(delivery) + 1 /\ slot.packages = q.packages
        /\ slot.drivers = eligible
    BY DEF Marking, Idle, eligible
  <2>2. req \in [Requests -> RequestState]
    BY DEF TypeInv, TypeOK
  <2> HIDE DEF slot
  <2> QED BY <1>2, <2>1, <2>2, DispatchingMoves
<1>11. /\ Len(delivery) + Cardinality(Dispatching) <= MaxDeliveries /\ MaxDeliveries \in Nat
       /\ r \in Dispatching /\ IsFiniteSet(Dispatching)
  BY WarehouseAssumption, FS_Subset DEF TypeInv, Dispatching
<1>12. Cardinality(Dispatching) # 0
  BY <1>11, FS_EmptySet
<1>13. /\ Len(delivery') + Cardinality(Dispatching') <= MaxDeliveries
       /\ Len(delivery') <= MaxDeliveries /\ Len(delivery) + 1 \in 0..MaxDeliveries
  <2> DEFINE C == Cardinality(Dispatching)
             D == Cardinality(Dispatching')
  <2>1. C \in Nat /\ D = C - 1 /\ C # 0 /\ Len(delivery) + C <= MaxDeliveries
    BY <1>10, <1>11, <1>12
  <2> HIDE DEF C, D
  <2>2. Len(delivery') + D <= MaxDeliveries /\ Len(delivery') <= MaxDeliveries
    BY <1>7, <1>11, <2>1
  <2>3. Len(delivery) + 1 \in 0..MaxDeliveries
    BY <1>7, <1>11, <2>2
  <2> QED BY <2>2, <2>3 DEF D
<1>14. slot \in RequestState
  BY <1>3, <1>4, <1>13, IdleIs DEF Marking, RequestState, Steps, eligible
<1>15. ASSUME NEW a, a = slot
       PROVE  SlotFit(a)'
  <2>1. new.packageIds = q.packages
    BY DEF new, Created
  <2>2. a.step = "markAssigned" /\ a.delivery \in DOMAIN delivery' /\ a.packages = delivery'[a.delivery].packageIds
    BY <1>7, <1>8, <1>10, <1>15, <2>1
  <2> QED BY <2>2 DEF SlotFit
<1> HIDE DEF slot
<1>16. req \in [Requests -> RequestState] /\ \A p \in Requests : SlotFit(req[p])
  BY DEF TypeInv, TypeOK
<1>17. ASSUME NEW p \in Requests
       PROVE  SlotFit(req[p])'
  <2>1. ASSUME NEW a, a = req'[p]
        PROVE  SlotFit(a)'
    <3>1. CASE p = r
      BY <1>2, <1>15, <1>16, <2>1, <3>1
    <3>2. CASE p # r
      <4>1. a = req[p]
        BY <1>2, <1>16, <2>1, <3>2
      <4> QED BY <1>9, <1>16, <4>1, FitLater
    <3> QED BY <3>1, <3>2
  <2> QED BY <2>1
<1>18. req' \in [Requests -> RequestState]
  BY <1>2, <1>14, <1>16
<1>19. TypeInv'
  BY <1>2, <1>7, <1>13, <1>17, <1>18 DEF TypeInv, TypeOK
<1> QED BY <1>2, <1>6, <1>7, <1>8, <1>9, <1>10, <1>19 DEF new, slot

\* A delivery after one of its routes is saved as completed.
StatusSaved(d, q) ==
    Written(d.status, q.status,
            IF q.completed \cup {q.route} = DOMAIN d.routes THEN "COMPLETED" ELSE "IN_PROGRESS")

Saved(d, q) ==
    [d EXCEPT !.routes = [d.routes EXCEPT ![q.route] = [d.routes[q.route] EXCEPT !.isCompleted = TRUE]],
              !.status = StatusSaved(d, q)]

LEMMA SavedIs ==
    ASSUME NEW d \in DeliveryDoc, NEW q, q.route \in DOMAIN d.routes
    PROVE  /\ Saved(d, q) \in DeliveryDoc /\ Kept(d, Saved(d, q))
           /\ Saved(d, q).status = StatusSaved(d, q)
           /\ Completed(Saved(d, q).routes) = Completed(d.routes) \cup {q.route}
           /\ \A i \in DOMAIN d.routes : Carrying(Saved(d, q).routes[i]) = Carrying(d.routes[i])
<1> DEFINE i == q.route
           routes == [d.routes EXCEPT ![i] = [d.routes[i] EXCEPT !.isCompleted = TRUE]]
<1>1. d.routes \in Seq(RouteDoc) /\ d.status \in DeliveryStatus /\ d.packageIds \in SUBSET Packages
  BY DEF DeliveryDoc
<1>2. \A k \in DOMAIN d.routes : d.routes[k] \in RouteDoc
  BY <1>1
<1>3. [d.routes[i] EXCEPT !.isCompleted = TRUE] \in RouteDoc
  BY <1>2 DEF RouteDoc
<1>4. routes \in Seq(RouteDoc) /\ DOMAIN routes = DOMAIN d.routes
  <2>1. d.routes \in [1..Len(d.routes) -> RouteDoc] /\ Len(d.routes) \in Nat
    BY <1>1
  <2>2. routes \in [1..Len(d.routes) -> RouteDoc]
    BY <1>3, <2>1
  <2> QED BY <2>1, <2>2
<1>5. \A k \in DOMAIN d.routes :
          /\ routes[k].isCompleted = (k = i \/ d.routes[k].isCompleted)
          /\ routes[k].driver = d.routes[k].driver /\ routes[k].stops = d.routes[k].stops
  BY <1>2 DEF RouteDoc
<1>6. StatusSaved(d, q) \in DeliveryStatus
  BY <1>1 DEF StatusSaved, Written, DeliveryStatus
<1>7. /\ Saved(d, q).routes = routes /\ Saved(d, q).status = StatusSaved(d, q)
      /\ Saved(d, q).packageIds = d.packageIds
  BY DEF Saved, DeliveryDoc
<1>8. Saved(d, q) \in DeliveryDoc
  BY <1>4, <1>6 DEF Saved, DeliveryDoc
<1> HIDE DEF routes
<1>9. Kept(d, Saved(d, q))
  BY <1>4, <1>5, <1>7 DEF Kept
<1>10. Completed(Saved(d, q).routes) = Completed(d.routes) \cup {i}
  BY <1>4, <1>5, <1>7 DEF Completed
<1>11. \A k \in DOMAIN d.routes : Carrying(routes[k]) = Carrying(d.routes[k])
  BY <1>5 DEF Carrying
<1> QED BY <1>7, <1>8, <1>9, <1>10, <1>11

\* A step that replaces one delivery by another that keeps it.
LEMMA ReplaceKeeps ==
    ASSUME delivery \in Seq(DeliveryDoc), NEW n \in DOMAIN delivery, NEW e \in DeliveryDoc,
           Kept(delivery[n], e), delivery' = [delivery EXCEPT ![n] = e]
    PROVE  /\ delivery' \in Seq(DeliveryDoc) /\ Len(delivery') = Len(delivery)
           /\ DOMAIN delivery' = DOMAIN delivery /\ Later
           /\ \A m \in DOMAIN delivery : delivery'[m] = IF m = n THEN e ELSE delivery[m]
<1>1. delivery \in [1..Len(delivery) -> DeliveryDoc] /\ Len(delivery) \in Nat /\ DOMAIN delivery = 1..Len(delivery)
  OBVIOUS
<1>2. delivery' \in [1..Len(delivery) -> DeliveryDoc] /\ DOMAIN delivery' = DOMAIN delivery
  BY <1>1
<1>3. delivery' \in Seq(DeliveryDoc) /\ Len(delivery') = Len(delivery)
  BY <1>1, <1>2
<1>4. \A m \in DOMAIN delivery : delivery'[m] = IF m = n THEN e ELSE delivery[m]
  BY <1>1
<1>5. \A m \in DOMAIN delivery : Kept(delivery[m], delivery'[m])
  <2>1. \A d : Kept(d, d)
    BY DEF Kept
  <2> QED BY <1>4, <2>1
<1> QED BY <1>2, <1>3, <1>4, <1>5 DEF Later

LEMMA SaveCompletedIs ==
    ASSUME TypeInv, NEW r \in Requests, SaveCompleted(r)
    PROVE  /\ req[r].delivery \in DOMAIN delivery /\ delivery[req[r].delivery] \in DeliveryDoc
           /\ req[r].route \in DOMAIN delivery[req[r].delivery].routes
           /\ delivery' = [delivery EXCEPT ![req[r].delivery] = Saved(delivery[req[r].delivery], req[r])]
           /\ req' = [req EXCEPT ![r] = Idle]
           /\ UNCHANGED <<package, online, reports, mishap>>
<1> DEFINE q == req[r]
           n == q.delivery
           status == StatusSaved(delivery[n], q)
<1>1. n \in DOMAIN delivery /\ delivery \in Seq(DeliveryDoc) /\ q.route \in DOMAIN delivery[n].routes
  BY DEF TypeInv, TypeOK, SlotFit, SaveCompleted
<1>2. delivery[n] \in DeliveryDoc
  BY <1>1
<1>3. delivery' = [delivery EXCEPT ![n].routes[q.route].isCompleted = TRUE, ![n].status = status]
  <2>1. delivery' = [delivery EXCEPT
                ![n].routes[q.route].isCompleted = TRUE,
                ![n].status = Written(@, q.status,
                    IF q.completed \cup {q.route} = DOMAIN delivery[q.delivery].routes
                    THEN "COMPLETED" ELSE "IN_PROGRESS")]
    BY DEF SaveCompleted
  <2> DEFINE assigned == IF q.completed \cup {q.route} = DOMAIN delivery[q.delivery].routes
                         THEN "COMPLETED" ELSE "IN_PROGRESS"
  <2>2. status = Written(delivery[n].status, q.status, assigned)
    BY DEF StatusSaved
  <2>3. delivery' = [delivery EXCEPT
                ![n].routes[q.route].isCompleted = TRUE, ![n].status = Written(@, q.status, assigned)]
    BY <2>1
  <2> HIDE DEF assigned, status
  <2> QED BY <1>1, <1>2, <2>2, <2>3 DEF DeliveryDoc
<1>4. delivery' = [delivery EXCEPT ![n] = [delivery[n] EXCEPT !.routes[q.route].isCompleted = TRUE, !.status = status]]
  <2> HIDE DEF status
  <2> QED BY <1>1, <1>2, <1>3 DEF DeliveryDoc
<1>5. [delivery[n] EXCEPT !.routes[q.route].isCompleted = TRUE, !.status = status] = Saved(delivery[n], q)
  <2> HIDE DEF status, n, q
  <2> QED BY <1>2 DEF Saved, DeliveryDoc, status
<1>6. req' = [req EXCEPT ![r] = Idle] /\ UNCHANGED <<package, online, reports, mishap>>
  BY DEF SaveCompleted, Finish
<1> QED BY <1>1, <1>2, <1>4, <1>5, <1>6

LEMMA CancelIs ==
    ASSUME TypeInv, NEW n \in DOMAIN delivery, Cancel(n)
    PROVE  /\ delivery[n] \in DeliveryDoc
           /\ [delivery[n] EXCEPT !.status = "CANCELLED"] \in DeliveryDoc
           /\ Kept(delivery[n], [delivery[n] EXCEPT !.status = "CANCELLED"])
           /\ delivery' = [delivery EXCEPT ![n] = [delivery[n] EXCEPT !.status = "CANCELLED"]]
           /\ UNCHANGED <<package, online, req, mishap>> /\ reports' \in 0..MaxReports
<1>1. delivery \in Seq(DeliveryDoc) /\ reports \in 0..MaxReports
  BY DEF TypeInv, TypeOK
<1>2. delivery[n] \in DeliveryDoc
  BY <1>1
<1>3. [delivery[n] EXCEPT !.status = "CANCELLED"] \in DeliveryDoc
  BY <1>2 DEF DeliveryDoc, DeliveryStatus
<1>4. delivery' = [delivery EXCEPT ![n] = [delivery[n] EXCEPT !.status = "CANCELLED"]]
      /\ UNCHANGED <<package, online, req, mishap>> /\ Report
  BY DEF Cancel
<1>5. Kept(delivery[n], [delivery[n] EXCEPT !.status = "CANCELLED"])
  BY <1>2 DEF Kept, DeliveryDoc
<1> QED BY <1>1, <1>2, <1>3, <1>4, <1>5, ReportType

\* Marking goes on with the packages, and then with the drivers.
LEMMA MarkingOn ==
    ASSUME TypeInv, NEW r \in Requests, MarkNext(r)
    PROVE  req[r].step = "markAssigned" /\ req'[r].step \in {"markAssigned", "driversOffline"}
<1>1. PICK p \in req[r].packages : MarkAssigned(r, p)
  BY DEF MarkNext
<1>2. /\ req[r].step = "markAssigned" /\ req[r] \in RequestState
      /\ req'[r].step = "driversOffline" \/ req'[r] = [req[r] EXCEPT !.packages = @ \ {p}]
  BY <1>1, MarkIs DEF TypeInv, TypeOK
<1>3. [req[r] EXCEPT !.packages = @ \ {p}].step = "markAssigned"
  BY <1>2 DEF RequestState
<1> QED BY <1>2, <1>3

\* No step takes anything from a delivery, and the invariant is kept.
LEMMA ContinueType ==
    ASSUME TypeInv, NEW r \in Requests, Continue(r)
    PROVE  TypeInv' /\ Later
<1> DEFINE q == req[r]
<1>1. /\ package \in [Packages -> PackageDoc] /\ online \in [Drivers -> BOOLEAN]
      /\ reports \in 0..MaxReports /\ mishap \in [Kinds -> 0..MaxMishaps]
      /\ delivery \in Seq(DeliveryDoc) /\ Len(delivery) <= MaxDeliveries
      /\ req \in [Requests -> RequestState] /\ q \in RequestState
  BY DEF TypeInv, TypeOK
<1>2. ASSUME UNCHANGED <<delivery, reports, mishap>>,
             package' \in [Packages -> PackageDoc], online' \in [Drivers -> BOOLEAN],
             \/ Finish(r)
             \/ \E slot \in RequestState : /\ req' = [req EXCEPT ![r] = slot] /\ SlotFit(slot)
                                           /\ slot.step \in {"loadPackages", "create"} =>
                                                q.step \in {"loadPackages", "create"}
      PROVE  TypeInv' /\ Later
  <2>1. /\ req' \in [Requests -> RequestState] /\ \A p \in Requests : SlotFit(req[p])'
        /\ Len(delivery') + Cardinality(Dispatching') <= MaxDeliveries
    BY <1>2, MovedOn, FinishFits
  <2> QED BY <1>1, <1>2, <2>1, LaterSame DEF TypeInv, TypeOK
<1>3. CASE SavePackage(r) \/ DeletePackage(r) \/ SaveStatus(r)
  BY <1>1, <1>2, <1>3, SavesType DEF SavePackage, DeletePackage, SaveStatus
<1>4. CASE LoadPackages(r)
  <2>1. q.step = "loadPackages" /\ UNCHANGED <<package, delivery, online, reports, mishap>>
    BY <1>4 DEF LoadPackages
  <2>2. CASE Finish(r)
    BY <1>1, <1>2, <2>1, <2>2
  <2>3. CASE ~Finish(r)
    <3>1. PICK found \in SUBSET Pending :
            LET slot == [q EXCEPT !.packages = found, !.demand = Demand(found), !.step = "create"]
            IN  req' = [req EXCEPT ![r] = slot] /\ slot \in RequestState /\ SlotFit(slot)
      BY <1>4, <2>3, GotoIs
    <3> QED BY <1>1, <1>2, <2>1, <3>1
  <2> QED BY <2>2, <2>3
<1>5. CASE Solve(r)
  <2>1. q.step = "create"
    BY <1>5 DEF Solve
  <2>2. CASE NoPlan(r)
    BY <1>1, <1>2, <2>2 DEF NoPlan
  <2>3. CASE ~NoPlan(r)
    <3>1. PICK plan : DOMAIN plan \in SUBSET Branches /\ CreateDelivery(r, plan)
      BY <1>5, <2>3 DEF Solve, Plans, StopNodes
    <3> QED BY <2>1, <3>1, CreateIs
  <2> QED BY <2>2, <2>3
<1>6. CASE MarkNext(r)
  <2>1. package' \in [Packages -> PackageDoc] /\ UNCHANGED <<delivery, online, reports, mishap>>
    BY <1>6, SavesType
  <2>2. PICK p \in q.packages : MarkAssigned(r, p)
    BY <1>6 DEF MarkNext
  <2>3. /\ req' = [req EXCEPT ![r] = req'[r]] /\ req'[r] \in RequestState /\ SlotFit(req'[r])
        /\ req'[r].step \in {"driversOffline", "markAssigned"}
    BY <1>6, <2>2, MarkIs, MarkingOn
  <2>4. \E slot \in RequestState : /\ req' = [req EXCEPT ![r] = slot] /\ SlotFit(slot)
                                   /\ slot.step \in {"loadPackages", "create"} =>
                                        q.step \in {"loadPackages", "create"}
    <3> DEFINE slot == req'[r]
    <3>1. slot \in RequestState /\ req' = [req EXCEPT ![r] = slot] /\ SlotFit(slot)
          /\ slot.step \notin {"loadPackages", "create"}
      BY <2>3
    <3> HIDE DEF slot
    <3> QED BY <3>1
  <2>5. online' \in [Drivers -> BOOLEAN] /\ UNCHANGED <<delivery, reports, mishap>>
    BY <1>1, <2>1
  <2> QED BY <1>2, <2>1, <2>4, <2>5
<1>7. CASE DriversOffline(r)
  <2>1. /\ req' = [req EXCEPT ![r] = req'[r]] /\ req'[r] \in RequestState /\ SlotFit(req'[r])
        /\ req'[r].step \in {"idle", "driversOffline"}
        /\ UNCHANGED <<package, delivery, reports, mishap>>
    BY <1>7, OfflineIs DEF Idle
  <2>2. online' \in [Drivers -> BOOLEAN]
    BY <1>1, <1>7 DEF DriversOffline
  <2> QED BY <1>1, <1>2, <2>1, <2>2
<1>8. CASE SaveCompleted(r)
  <2> DEFINE n == q.delivery
             e == Saved(delivery[n], q)
  <2>1. /\ n \in DOMAIN delivery /\ delivery[n] \in DeliveryDoc
        /\ q.route \in DOMAIN delivery[n].routes
        /\ delivery' = [delivery EXCEPT ![n] = e] /\ req' = [req EXCEPT ![r] = Idle]
        /\ UNCHANGED <<package, online, reports, mishap>>
    BY <1>8, SaveCompletedIs
  <2>2. e \in DeliveryDoc /\ Kept(delivery[n], e)
    BY <2>1, SavedIs
  <2> HIDE DEF e, n
  <2>3. delivery' \in Seq(DeliveryDoc) /\ Len(delivery') = Len(delivery) /\ Later
    BY <1>1, <2>1, <2>2, ReplaceKeeps
  <2>4. Cardinality(Dispatching) \in Nat /\ Cardinality(Dispatching') \in Nat
        /\ Cardinality(Dispatching') <= Cardinality(Dispatching)
    BY <1>1, <2>1, IdleIs, DispatchingMoves
  <2>5. Len(delivery') + Cardinality(Dispatching') <= MaxDeliveries
    <3> DEFINE C == Cardinality(Dispatching)
               D == Cardinality(Dispatching')
    <3>1. Len(delivery) + C <= MaxDeliveries /\ Len(delivery) \in Nat /\ MaxDeliveries \in Nat
      BY <1>1, WarehouseAssumption DEF TypeInv
    <3>2. C \in Nat /\ D \in Nat /\ D <= C
      BY <2>4
    <3> HIDE DEF C, D
    <3> QED BY <2>3, <3>1, <3>2 DEF D
  <2>6. ASSUME NEW p \in Requests
        PROVE  SlotFit(req[p])'
    <3>1. ASSUME NEW a, a = req'[p]
          PROVE  SlotFit(a)'
      <4>1. a = Idle \/ a = req[p]
        BY <1>1, <2>1, <3>1
      <4>2. SlotFit(a)
        BY <4>1, IdleIs DEF TypeInv
      <4> QED BY <2>3, <4>2, FitLater
    <3> QED BY <3>1
  <2>7. req' \in [Requests -> RequestState]
    BY <1>1, <2>1, IdleIs
  <2> QED BY <1>1, <2>1, <2>3, <2>5, <2>6, <2>7 DEF TypeInv, TypeOK
<1> QED BY <1>3, <1>4, <1>5, <1>6, <1>7, <1>8 DEF Continue, MarkNext

LEMMA CrashType ==
    ASSUME TypeInv, Crash
    PROVE  TypeInv'
<1>1. /\ req' = [r \in Requests |-> Idle] /\ UNCHANGED <<package, delivery, online, reports>>
      /\ Mishap("crash") /\ mishap \in [Kinds -> 0..MaxMishaps]
      /\ Len(delivery) + Cardinality(Dispatching) <= MaxDeliveries
  BY DEF Crash, TypeInv, TypeOK
<1>2. mishap' \in [Kinds -> 0..MaxMishaps]
  BY <1>1, MishapType DEF Kinds
<1>3. \A r \in Requests : req'[r] = Idle
  BY <1>1
<1>4. Dispatching' = {}
  BY <1>3, IdleIs DEF Dispatching
<1>5. Len(delivery') + Cardinality(Dispatching') <= MaxDeliveries
  BY <1>1, <1>4, FS_EmptySet, WarehouseAssumption DEF TypeInv, TypeOK
<1>6. ASSUME NEW r \in Requests
      PROVE  SlotFit(req[r])'
  <2>1. ASSUME NEW a, a = req'[r]
        PROVE  SlotFit(a)'
    BY <1>1, <1>3, <2>1, IdleIs, LaterSame, FitLater
  <2> QED BY <2>1
<1> QED BY <1>1, <1>2, <1>5, <1>6, IdleIs DEF TypeInv, TypeOK

\* Steps that neither suspend nor resume a handler nor touch the deliveries.
LEMMA AsideType ==
    ASSUME TypeInv, UNCHANGED <<delivery, req, reports, mishap>>,
           package' \in [Packages -> PackageDoc], online' \in [Drivers -> BOOLEAN]
    PROVE  TypeInv'
<1>1. ASSUME NEW r \in Requests
      PROVE  SlotFit(req[r])'
  <2>1. ASSUME NEW a, a = req'[r]
        PROVE  SlotFit(a)'
    BY <2>1, LaterSame, FitLater DEF TypeInv
  <2> QED BY <2>1
<1>2. Dispatching' = Dispatching
  BY DEF Dispatching
<1> QED BY <1>1, <1>2 DEF TypeInv, TypeOK

LEMMA CancelType ==
    ASSUME TypeInv, NEW n \in DOMAIN delivery, Cancel(n)
    PROVE  TypeInv' /\ Later
<1> DEFINE e == [delivery[n] EXCEPT !.status = "CANCELLED"]
<1>1. /\ e \in DeliveryDoc /\ Kept(delivery[n], e) /\ delivery' = [delivery EXCEPT ![n] = e]
      /\ UNCHANGED <<package, online, req, mishap>> /\ reports' \in 0..MaxReports
      /\ delivery \in Seq(DeliveryDoc)
  BY CancelIs DEF TypeInv, TypeOK
<1> HIDE DEF e
<1>2. delivery' \in Seq(DeliveryDoc) /\ Len(delivery') = Len(delivery) /\ Later
  BY <1>1, ReplaceKeeps
<1>3. ASSUME NEW r \in Requests
      PROVE  SlotFit(req[r])'
  <2>1. ASSUME NEW a, a = req'[r]
        PROVE  SlotFit(a)'
    BY <1>1, <1>2, <2>1, FitLater DEF TypeInv
  <2> QED BY <2>1
<1>4. Dispatching' = Dispatching
  BY <1>1 DEF Dispatching
<1> QED BY <1>1, <1>2, <1>3, <1>4 DEF TypeInv, TypeOK

LEMMA CreatePackageType ==
    ASSUME TypeInv, NEW p \in Packages, NEW destination \in Destinations, NEW weight \in Weights,
           CreateWarehousePackage(p, destination, weight)
    PROVE  TypeInv'
<1>1. package' \in [Packages -> PackageDoc]
  BY WarehouseAssumption DEF CreateWarehousePackage, TypeInv, TypeOK, PackageDoc, PackageStatus
<1> QED BY <1>1, AsideType DEF CreateWarehousePackage, TypeInv, TypeOK

LEMMA DriverStatusType ==
    ASSUME TypeInv, NEW d \in Drivers, NEW isOnline \in BOOLEAN, UpdateDriverStatus(d, isOnline)
    PROVE  TypeInv'
<1>1. online' \in [Drivers -> BOOLEAN]
  BY DEF UpdateDriverStatus, TypeInv, TypeOK
<1> QED BY <1>1, AsideType DEF UpdateDriverStatus, TypeInv, TypeOK

LEMMA StepType ==
    ASSUME TypeInv, [Next]_vars
    PROVE  TypeInv' /\ Later
<1>1. CASE Crash
  BY <1>1, CrashType, LaterSame DEF Crash
<1>2. ASSUME NEW n \in DOMAIN delivery, Cancel(n)
      PROVE  TypeInv' /\ Later
  BY <1>2, CancelType
<1>3. ASSUME NEW d \in Drivers, NEW isOnline \in BOOLEAN, UpdateDriverStatus(d, isOnline)
      PROVE  TypeInv' /\ Later
  BY <1>3, DriverStatusType, LaterSame DEF UpdateDriverStatus
<1>4. ASSUME NEW p \in Packages, NEW destination \in Destinations, NEW weight \in Weights,
             CreateWarehousePackage(p, destination, weight)
      PROVE  TypeInv' /\ Later
  BY <1>4, CreatePackageType, LaterSame DEF CreateWarehousePackage
<1>5. ASSUME NEW r \in Requests, Begin(r)
      PROVE  TypeInv' /\ Later
  <2>1. UNCHANGED delivery
    BY <1>5 DEF Begin, UpdateWarehousePackage, DeleteWarehousePackage, Dispatch,
                UpdateWarehousePackageStatus, MarkDriverCompleted, Start
  <2> QED BY <1>5, <2>1, BeginType, LaterSame
<1>6. ASSUME NEW r \in Requests, Continue(r)
      PROVE  TypeInv' /\ Later
  BY <1>6, ContinueType
<1>7. CASE UNCHANGED vars
  BY <1>7, AsideType, LaterSame DEF vars, TypeInv, TypeOK
<1> QED BY <1>1, <1>2, <1>3, <1>4, <1>5, <1>6, <1>7 DEF Next

LEMMA TypeInit ==
    ASSUME Init
    PROVE  TypeInv
<1>1. package \in [Packages -> PackageDoc]
  BY WarehouseAssumption DEF Init, NoPackage, PackageDoc
<1>2. delivery \in Seq(DeliveryDoc) /\ Len(delivery) = 0
  BY DEF Init
<1>3. req \in [Requests -> RequestState] /\ \A r \in Requests : req[r] = Idle
  BY IdleIs DEF Init
<1>4. reports \in 0..MaxReports /\ mishap \in [Kinds -> 0..MaxMishaps] /\ online \in [Drivers -> BOOLEAN]
  BY WarehouseAssumption DEF Init
<1>5. Dispatching = {}
  BY <1>3, IdleIs DEF Dispatching
<1>6. Cardinality(Dispatching) = 0 /\ 0 <= MaxDeliveries
  BY <1>5, FS_EmptySet, WarehouseAssumption
<1> QED BY <1>1, <1>2, <1>3, <1>4, <1>6, IdleIs DEF TypeInv, TypeOK

\* The type invariant of the warehouse: every document and every suspended
\* handler keeps its shape, whatever overlaps or crashes.
THEOREM WarehouseTypeCorrect == Spec => []TypeOK
<1>1. Init => TypeInv
  BY TypeInit
<1>2. TypeInv /\ [Next]_vars => TypeInv'
  BY StepType
<1>3. TypeInv => TypeOK
  BY DEF TypeInv
<1> QED BY <1>1, <1>2, <1>3, PTL DEF Spec

-----------------------------------------------------------------------------
(* What one step does to a package, to the deliveries and to a handler        *)

LEMMA PackageStep ==
    ASSUME TypeInv, [Next]_vars, NEW p \in Packages
    PROVE  /\ package[p].status # "new" => package'[p].status # "new"
           /\ package'[p].status = "PENDING" => package[p].status \in {"PENDING", "new"}
           /\ \/ package'[p].deliveryId \in {0, package[p].deliveryId}
              \/ \E r \in Requests : /\ p \in req[r].packages /\ MarkAssigned(r, p)
                                     /\ package'[p].deliveryId = req[r].delivery
           /\ package[p].status # "new" =>
                \/ package'[p].weight = package[p].weight /\ package'[p].destination = package[p].destination
                \/ \E r \in Requests : /\ req[r].step \in {"savePackage", "deletePackage"}
                                       /\ p \in req[r].packages
<1>1. package \in [Packages -> PackageDoc] /\ package[p] \in PackageDoc
  BY DEF TypeInv, TypeOK
<1> DEFINE d == package[p]
           e == package'[p]
<1>2. CASE e = d
  BY <1>2
<1>3. ASSUME NEW x \in Packages, NEW destination, NEW weight,
             CreateWarehousePackage(x, destination, weight)
      PROVE  e = d \/ (d.status = "new" /\ e.status = "PENDING" /\ e.deliveryId = 0)
  BY <1>1, <1>3 DEF CreateWarehousePackage, NoPackage
<1>4. ASSUME NEW r \in Requests, SavePackage(r)
      PROVE  /\ e.status = d.status /\ e.deliveryId = d.deliveryId
             /\ e = d \/ (p \in req[r].packages /\ req[r].step = "savePackage")
  BY <1>1, <1>4 DEF SavePackage, PackageDoc
<1>5. ASSUME NEW r \in Requests, DeletePackage(r)
      PROVE  \/ e = d
             \/ /\ e.status = "deleted" /\ e.deliveryId = 0
                /\ p \in req[r].packages /\ req[r].step = "deletePackage"
  BY <1>1, <1>5 DEF DeletePackage, NoPackage
<1>6. ASSUME NEW r \in Requests, SaveStatus(r)
      PROVE  /\ e.weight = d.weight /\ e.destination = d.destination /\ e.deliveryId = d.deliveryId
             /\ e.status = d.status \/ (e.status \in PackageStatus \ {"PENDING"} /\ d.status # "new")
  <2>1. req[r].next \in PackageStatus \ {"PENDING"}
    BY <1>6 DEF SaveStatus, TypeInv, SlotFit
  <2>2. e = IF p \in req[r].packages /\ Exists(p)
            THEN [d EXCEPT !.status = Written(d.status, req[r].status, req[r].next)] ELSE d
    BY <1>6 DEF SaveStatus
  <2> QED BY <1>1, <2>1, <2>2 DEF PackageDoc, Written, Exists, PackageStatus
<1>7. ASSUME NEW r \in Requests, NEW x \in req[r].packages, MarkAssigned(r, x)
      PROVE  /\ e.weight = d.weight /\ e.destination = d.destination
             /\ \/ e = d
                \/ e.status = "ASSIGNED" /\ e.deliveryId = req[r].delivery /\ x = p
  BY <1>1, <1>7 DEF MarkAssigned, PackageDoc
<1>8. "new" \notin PackageStatus
  BY DEF PackageStatus
<1>9. ASSUME NEW r \in Requests,
             Begin(r) \/ LoadPackages(r) \/ Solve(r) \/ DriversOffline(r) \/ SaveCompleted(r)
      PROVE  e = d
  <2>1. Begin(r) => UNCHANGED package
    BY DEF Begin, UpdateWarehousePackage, DeleteWarehousePackage, Dispatch,
           UpdateWarehousePackageStatus, MarkDriverCompleted, Start
  <2> QED BY <1>9, <2>1 DEF LoadPackages, Solve, NoPlan, CreateDelivery, DriversOffline, SaveCompleted
<1>10. Crash \/ (\E n \in DOMAIN delivery : Cancel(n)) \/ UNCHANGED vars
       \/ (\E x \in Drivers, isOnline \in BOOLEAN : UpdateDriverStatus(x, isOnline)) => e = d
  BY DEF Crash, Cancel, UpdateDriverStatus, vars
<1> HIDE DEF d, e
<1>11. \/ e = d
       \/ d.status = "new" /\ e.status = "PENDING" /\ e.deliveryId = 0
       \/ \E r \in Requests :
            \/ SavePackage(r) \/ DeletePackage(r) \/ SaveStatus(r) \/ MarkNext(r)
  BY <1>3, <1>9, <1>10 DEF Next, Continue, MarkNext
<1>12. ASSUME NEW r \in Requests, SavePackage(r) \/ DeletePackage(r)
       PROVE  /\ d.status # "new" => e.status # "new"
              /\ e.status = "PENDING" => d.status = "PENDING"
              /\ e.deliveryId \in {0, d.deliveryId}
              /\ \/ e.weight = d.weight /\ e.destination = d.destination
                 \/ req[r].step \in {"savePackage", "deletePackage"} /\ p \in req[r].packages
  BY <1>4, <1>5, <1>12
<1>13. ASSUME NEW r \in Requests, SaveStatus(r) \/ MarkNext(r)
       PROVE  /\ d.status # "new" => e.status # "new"
              /\ e.status = "PENDING" => d.status = "PENDING"
              /\ \/ e.deliveryId \in {0, d.deliveryId}
                 \/ p \in req[r].packages /\ MarkAssigned(r, p) /\ e.deliveryId = req[r].delivery
              /\ e.weight = d.weight /\ e.destination = d.destination
  BY <1>6, <1>7, <1>8, <1>13 DEF MarkNext
<1>14. /\ d.status # "new" => e.status # "new"
       /\ e.status = "PENDING" => d.status \in {"PENDING", "new"}
       /\ \/ e.deliveryId \in {0, d.deliveryId}
          \/ \E r \in Requests : p \in req[r].packages /\ MarkAssigned(r, p) /\ e.deliveryId = req[r].delivery
       /\ d.status # "new" =>
            \/ e.weight = d.weight /\ e.destination = d.destination
            \/ \E r \in Requests : req[r].step \in {"savePackage", "deletePackage"} /\ p \in req[r].packages
  <2>1. CASE e = d
    BY <2>1
  <2>2. CASE d.status = "new" /\ e.status = "PENDING" /\ e.deliveryId = 0
    BY <2>2
  <2> QED BY <1>11, <1>12, <1>13, <2>1, <2>2
<1> QED BY <1>14 DEF d, e

\* The plans that may come back for a dispatch.
PlansFor(q) ==
    LET eligible == Eligible(q.drivers, q.demand)
        capacity == [v \in DOMAIN eligible |-> Capacity[eligible[v]]]
    IN  UNION {Plans(capacity, nodes) : nodes \in StopNodes(q.demand)}

LEMMA PlansForAre ==
    ASSUME NEW q, NEW plan \in PlansFor(q)
    PROVE  DOMAIN plan \in SUBSET Branches
BY DEF PlansFor, Plans, StopNodes

Creates(r, plan) == req[r].step = "create" /\ plan \in PlansFor(req[r]) /\ CreateDelivery(r, plan)

LEMMA DeliveryStep ==
    ASSUME [Next]_vars
    PROVE  \/ UNCHANGED delivery
           \/ \E r \in Requests : \E plan \in PlansFor(req[r]) : Creates(r, plan)
           \/ \E r \in Requests : SaveCompleted(r)
           \/ \E n \in DOMAIN delivery : Cancel(n)
<1>1. ASSUME NEW r \in Requests, Solve(r)
      PROVE  \/ UNCHANGED delivery
             \/ \E plan \in PlansFor(req[r]) : Creates(r, plan)
  BY <1>1 DEF Solve, NoPlan, PlansFor, Creates
<1>2. ASSUME NEW r \in Requests, Begin(r)
      PROVE  UNCHANGED delivery
  BY <1>2 DEF Begin, UpdateWarehousePackage, DeleteWarehousePackage, Dispatch,
              UpdateWarehousePackageStatus, MarkDriverCompleted, Start
<1>3. ASSUME NEW r \in Requests,
             \/ SavePackage(r) \/ DeletePackage(r) \/ SaveStatus(r) \/ LoadPackages(r)
             \/ MarkNext(r) \/ DriversOffline(r)
      PROVE  UNCHANGED delivery
  BY <1>3 DEF SavePackage, DeletePackage, SaveStatus, LoadPackages, MarkNext, MarkAssigned,
              DriversOffline
<1> QED BY <1>1, <1>2, <1>3 DEF Next, Continue, MarkNext, Crash, UpdateDriverStatus,
                               CreateWarehousePackage, vars

\* A handler is where it was, or ended, or took a step of its own.
LEMMA SlotStep ==
    ASSUME TypeInv, [Next]_vars, NEW r \in Requests
    PROVE  \/ req'[r] = req[r]
           \/ req'[r] = Idle /\ (Crash \/ Continue(r))
           \/ Begin(r) \/ LoadPackages(r) \/ MarkNext(r) \/ DriversOffline(r)
           \/ \E plan \in PlansFor(req[r]) : Creates(r, plan)
<1>0. req \in [Requests -> RequestState]
  BY DEF TypeInv, TypeOK
<1>1. ASSUME NEW q \in Requests, q # r, NEW slot, req' = [req EXCEPT ![q] = slot]
      PROVE  req'[r] = req[r]
  BY <1>0, <1>1
<1>2. ASSUME NEW q \in Requests, Begin(q)
      PROVE  \E slot : req' = [req EXCEPT ![q] = slot]
  BY <1>2 DEF Begin, UpdateWarehousePackage, DeleteWarehousePackage, Dispatch,
              UpdateWarehousePackageStatus, MarkDriverCompleted, Start
<1>3. ASSUME NEW q \in Requests, LoadPackages(q) \/ MarkNext(q) \/ DriversOffline(q)
      PROVE  \E slot : req' = [req EXCEPT ![q] = slot]
  <2>1. LoadPackages(q) => \E slot : req' = [req EXCEPT ![q] = slot]
    BY DEF LoadPackages, Goto, Finish
  <2>2. MarkNext(q) => req' = [req EXCEPT ![q] = req'[q]]
    BY MarkIs DEF MarkNext
  <2> QED BY <1>3, <2>1, <2>2, OfflineIs
<1>4. ASSUME NEW q \in Requests,
             SavePackage(q) \/ DeletePackage(q) \/ SaveStatus(q) \/ SaveCompleted(q)
      PROVE  req' = [req EXCEPT ![q] = Idle]
  BY <1>4 DEF SavePackage, DeletePackage, SaveStatus, SaveCompleted, Finish
<1>5. ASSUME NEW q \in Requests, Solve(q)
      PROVE  /\ \E slot : req' = [req EXCEPT ![q] = slot]
             /\ req' = [req EXCEPT ![q] = Idle] \/ \E plan \in PlansFor(req[q]) : Creates(q, plan)
  BY <1>5 DEF Solve, NoPlan, Finish, PlansFor, Creates, CreateDelivery, Goto
<1>6. ASSUME req' = [req EXCEPT ![r] = Idle]
      PROVE  req'[r] = Idle
  BY <1>0, <1>6
<1>7. ASSUME NEW q \in Requests, Begin(q) \/ Continue(q)
      PROVE  \/ req'[r] = req[r]
             \/ req'[r] = Idle /\ (Crash \/ Continue(r))
             \/ Begin(r) \/ LoadPackages(r) \/ MarkNext(r) \/ DriversOffline(r)
             \/ \E plan \in PlansFor(req[r]) : Creates(r, plan)
  <2>1. CASE q = r
    BY <1>4, <1>5, <1>6, <1>7, <2>1 DEF Continue, MarkNext
  <2>2. CASE q # r
    BY <1>1, <1>2, <1>3, <1>4, <1>5, <1>7, <2>2 DEF Continue, MarkNext
  <2> QED BY <2>1, <2>2
<1>8. Crash => req'[r] = Idle
  BY DEF Crash
<1> QED BY <1>7, <1>8 DEF Next, Cancel, UpdateDriverStatus, CreateWarehousePackage, vars

-----------------------------------------------------------------------------
(* What a delivery lists, whatever overlaps or crashes                        *)

\* A delivery lists packages that were created, each of its routes carries a
\* share of its own, and it is COMPLETED only when every route is.
Sound(d) ==
    /\ \A p \in d.packageIds : package[p].status # "new"
    /\ \A i \in DOMAIN d.routes : Carrying(d.routes[i]) \subseteq d.packageIds
    /\ \A i, j \in DOMAIN d.routes :
        i # j => Carrying(d.routes[i]) \cap Carrying(d.routes[j]) = {}
    /\ d.status = "COMPLETED" => Completed(d.routes) = DOMAIN d.routes

Found(q) == q.step = "create" => \A p \in q.packages : package[p].status # "new"

ListedBack(p) ==
    package[p].deliveryId # 0 =>
        /\ package[p].deliveryId \in DOMAIN delivery
        /\ p \in delivery[package[p].deliveryId].packageIds

ListInv ==
    /\ \A n \in DOMAIN delivery : Sound(delivery[n])
    /\ \A r \in Requests : Found(req[r])
    /\ \A p \in Packages : ListedBack(p)

LEMMA DeliveryIs ==
    ASSUME TypeInv, NEW n \in DOMAIN delivery
    PROVE  /\ delivery[n] \in DeliveryDoc /\ delivery[n].packageIds \in SUBSET Packages
           /\ delivery[n].routes \in Seq(RouteDoc) /\ n \in Nat \ {0}
<1>1. delivery \in Seq(DeliveryDoc)
  BY DEF TypeInv, TypeOK
<1>2. delivery[n] \in DeliveryDoc /\ n \in Nat \ {0}
  BY <1>1
<1> QED BY <1>2 DEF DeliveryDoc

\* A sound delivery stays so while nobody writes it ...
LEMMA SoundLater ==
    ASSUME TypeInv, [Next]_vars, NEW d, d.packageIds \in SUBSET Packages, Sound(d)
    PROVE  Sound(d)'
BY PackageStep DEF Sound, Completed, Carrying

\* ... and when what is written keeps it.
LEMMA SoundKept ==
    ASSUME NEW d, NEW e, Sound(d), Kept(d, e),
           e.status = "COMPLETED" => Completed(e.routes) = DOMAIN e.routes
    PROVE  Sound(e)
<1>1. \A i \in DOMAIN d.routes : Carrying(e.routes[i]) = Carrying(d.routes[i])
  BY DEF Kept, Carrying
<1> QED BY <1>1 DEF Sound, Kept

\* The save that completes the last route is right about it.
LEMMA SavedSound ==
    ASSUME TypeInv, ListInv, NEW r \in Requests, SaveCompleted(r)
    PROVE  Sound(Saved(delivery[req[r].delivery], req[r]))
<1> DEFINE q == req[r]
           d == delivery[q.delivery]
           e == Saved(d, q)
<1>1. q.delivery \in DOMAIN delivery /\ d \in DeliveryDoc /\ q.route \in DOMAIN d.routes
  BY SaveCompletedIs
<1>2. q.completed \subseteq Completed(d.routes)
  BY DEF TypeInv, SlotFit, SaveCompleted
<1>3. Sound(d)
  BY <1>1 DEF ListInv
<1> HIDE DEF d, q
<1>4. /\ Kept(d, e) /\ e.status = StatusSaved(d, q)
      /\ Completed(e.routes) = Completed(d.routes) \cup {q.route}
  BY <1>1, SavedIs
<1> HIDE DEF e
<1>5. DOMAIN e.routes = DOMAIN d.routes /\ Completed(d.routes) \subseteq DOMAIN d.routes
  BY <1>4 DEF Kept, Completed
<1>6. ASSUME e.status = "COMPLETED"
      PROVE  Completed(e.routes) = DOMAIN e.routes
  <2>1. d.status = "COMPLETED" \/ q.completed \cup {q.route} = DOMAIN d.routes
    BY <1>4, <1>6 DEF StatusSaved, Written
  <2> QED BY <1>1, <1>2, <1>3, <1>4, <1>5, <2>1 DEF Sound
<1>7. Sound(e)
  BY <1>3, <1>4, <1>6, SoundKept
<1> QED BY <1>7 DEF e, d, q

LEMMA CancelledSound ==
    ASSUME TypeInv, ListInv, NEW n \in DOMAIN delivery, Cancel(n)
    PROVE  Sound([delivery[n] EXCEPT !.status = "CANCELLED"])
<1> DEFINE e == [delivery[n] EXCEPT !.status = "CANCELLED"]
<1>1. delivery[n] \in DeliveryDoc /\ Kept(delivery[n], e) /\ Sound(delivery[n])
  BY CancelIs DEF ListInv
<1>2. e.status = "CANCELLED"
  BY <1>1 DEF DeliveryDoc
<1> HIDE DEF e
<1>3. Sound(e)
  BY <1>1, <1>2, SoundKept
<1> QED BY <1>3 DEF e

LEMMA CreatedSound ==
    ASSUME TypeInv, ListInv, NEW r \in Requests, NEW plan, Creates(r, plan)
    PROVE  Sound(Created(r, plan))
<1> DEFINE q == req[r]
           new == Created(r, plan)
           routes == Routes(q, plan)
<1>1. q \in RequestState /\ DOMAIN plan \in SUBSET Branches
  BY PlansForAre DEF TypeInv, TypeOK, Creates
<1>2. /\ \A i \in DOMAIN routes : Carrying(routes[i]) \subseteq q.packages
      /\ \A i, k \in DOMAIN routes : i # k => Carrying(routes[i]) \cap Carrying(routes[k]) = {}
  <2> HIDE DEF q, routes, new
  <2>1. \A i \in DOMAIN routes : RouteIs(q, plan, i)
    BY <1>1, RoutesAre DEF routes
  <2>2. \A i, k \in DOMAIN routes : i # k => Carrying(routes[i]) \cap Carrying(routes[k]) = {}
    BY <1>1, RoutesAre DEF routes
  <2>3. \A i \in DOMAIN routes : Carrying(routes[i]) \subseteq q.packages
    BY <2>1 DEF RouteIs, routes
  <2> QED BY <2>2, <2>3
<1>3. new.status = "PLANNED" /\ new.routes = routes /\ new.packageIds = q.packages
  BY DEF Created
<1>4. \A p \in q.packages : package[p].status # "new"
  BY DEF ListInv, Found, Creates
<1> HIDE DEF new, routes, q
<1>5. Sound(new)
  BY <1>2, <1>3, <1>4 DEF Sound
<1> QED BY <1>5 DEF new

\* The slot of a handler that begins, and what is left as it is.
LEMMA BeginIs ==
    ASSUME TypeInv, NEW r \in Requests, Begin(r)
    PROVE  /\ req[r] = Idle /\ UNCHANGED <<package, delivery, online>>
           /\ IF Quiet THEN UNCHANGED mishap ELSE Mishap("overlap")
           /\ req' = [req EXCEPT ![r] = req'[r]]
           /\ req'[r].step \in {"savePackage", "deletePackage", "loadPackages", "saveStatus", "saveCompleted"}
           /\ req'[r].step \in {"savePackage", "deletePackage"} => req'[r].packages \subseteq Pending
           /\ req'[r].step = "saveCompleted" =>
                /\ req'[r].delivery \in DOMAIN delivery
                /\ req'[r].route \in DOMAIN delivery[req'[r].delivery].routes
                /\ req'[r].completed = Completed(delivery[req'[r].delivery].routes)
                /\ req'[r].status = delivery[req'[r].delivery].status
<1>0. req \in [Requests -> RequestState]
  BY DEF TypeInv, TypeOK
<1> USE <1>0 DEF Start, Idle
<1>1. ASSUME NEW p \in Packages, NEW weight \in Weights, UpdateWarehousePackage(r, p, weight)
      PROVE  req'[r].step = "savePackage" /\ req'[r].packages \subseteq Pending
  BY <1>1 DEF UpdateWarehousePackage
<1>2. ASSUME NEW p \in Packages, DeleteWarehousePackage(r, p)
      PROVE  req'[r].step = "deletePackage" /\ req'[r].packages \subseteq Pending
  BY <1>2 DEF DeleteWarehousePackage
<1>3. ASSUME NEW drivers \in SUBSET Drivers, NEW requested \in SUBSET Packages,
             Dispatch(r, drivers, requested)
      PROVE  req'[r].step = "loadPackages"
  BY <1>3 DEF Dispatch
<1>4. ASSUME NEW p \in Packages, NEW next \in PackageStatus, UpdateWarehousePackageStatus(r, p, next)
      PROVE  req'[r].step = "saveStatus"
  BY <1>4 DEF UpdateWarehousePackageStatus
<1>5. ASSUME NEW n \in DOMAIN delivery, NEW i \in DOMAIN delivery[n].routes, MarkDriverCompleted(r, n, i)
      PROVE  /\ req'[r].step = "saveCompleted" /\ req'[r].delivery = n /\ req'[r].route = i
             /\ req'[r].completed = Completed(delivery[n].routes) /\ req'[r].status = delivery[n].status
  BY <1>5 DEF MarkDriverCompleted
<1>6. /\ req[r] = Idle /\ UNCHANGED <<package, delivery, online>>
      /\ IF Quiet THEN UNCHANGED mishap ELSE Mishap("overlap")
      /\ \E slot : req' = [req EXCEPT ![r] = slot]
  BY DEF Begin, UpdateWarehousePackage, DeleteWarehousePackage, Dispatch,
         UpdateWarehousePackageStatus, MarkDriverCompleted
<1>7. req' = [req EXCEPT ![r] = req'[r]]
  <2>1. PICK slot : req' = [req EXCEPT ![r] = slot]
    BY <1>6
  <2>2. req'[r] = slot
    BY <2>1
  <2> QED BY <2>1, <2>2
<1> QED BY <1>1, <1>2, <1>3, <1>4, <1>5, <1>6, <1>7 DEF Begin

\* What a dispatch found when it moves on.
LEMMA LoadIs ==
    ASSUME TypeInv, NEW r \in Requests, LoadPackages(r), req'[r] # Idle
    PROVE  /\ req[r].step = "loadPackages" /\ UNCHANGED <<package, delivery, online, reports, mishap>>
           /\ req'[r].step = "create" /\ req'[r].packages \subseteq Pending
           /\ req'[r].demand = Demand(req'[r].packages)
<1>1. req[r].step = "loadPackages" /\ UNCHANGED <<package, delivery, online, reports, mishap>>
      /\ req \in [Requests -> RequestState]
  BY DEF LoadPackages, TypeInv, TypeOK
<1>2. ~Finish(r)
  BY <1>1 DEF Finish
<1>3. PICK found \in SUBSET Pending :
            LET slot == [req[r] EXCEPT !.packages = found, !.demand = Demand(found), !.step = "create"]
            IN  req' = [req EXCEPT ![r] = slot] /\ slot \in RequestState /\ SlotFit(slot)
  BY <1>2, GotoIs
<1>4. /\ req'[r].step = "create" /\ req'[r].packages = found /\ req'[r].demand = Demand(found)
  <2>1. req[r] \in RequestState
    BY <1>1
  <2> QED BY <1>1, <1>3, <2>1 DEF RequestState
<1> QED BY <1>1, <1>4

LEMMA ListStep ==
    ASSUME TypeInv, ListInv, [Next]_vars
    PROVE  ListInv'
<1>1. ASSUME NEW n \in DOMAIN delivery'
      PROVE  Sound(delivery[n])'
  <2>1. ASSUME NEW e, e \in DeliveryDoc, Sound(e)
        PROVE  Sound(e)'
    BY <2>1, SoundLater DEF DeliveryDoc
  <2>2. Sound(delivery'[n]) /\ delivery'[n] \in DeliveryDoc
    <3>1. CASE UNCHANGED delivery
      BY <3>1, DeliveryIs DEF ListInv
    <3>2. ASSUME NEW r \in Requests, NEW plan \in PlansFor(req[r]), Creates(r, plan)
          PROVE  Sound(delivery'[n]) /\ delivery'[n] \in DeliveryDoc
      <4>1. Sound(Created(r, plan))
        BY <3>2, CreatedSound
      <4>2. /\ DOMAIN delivery' = DOMAIN delivery \cup {Len(delivery) + 1}
            /\ delivery'[Len(delivery) + 1] = Created(r, plan) /\ Created(r, plan) \in DeliveryDoc
            /\ \A m \in DOMAIN delivery : delivery'[m] = delivery[m]
        BY <3>2, CreateIs, PlansForAre DEF Creates
      <4> QED BY <4>1, <4>2, DeliveryIs DEF ListInv
    <3>3. ASSUME NEW m \in DOMAIN delivery, NEW e \in DeliveryDoc, Kept(delivery[m], e), Sound(e),
                 delivery' = [delivery EXCEPT ![m] = e]
          PROVE  Sound(delivery'[n]) /\ delivery'[n] \in DeliveryDoc
      <4>1. n \in DOMAIN delivery /\ delivery'[n] = IF n = m THEN e ELSE delivery[n]
        BY <3>3, ReplaceKeeps DEF TypeInv, TypeOK
      <4> QED BY <3>3, <4>1, DeliveryIs DEF ListInv
    <3>4. ASSUME NEW r \in Requests, SaveCompleted(r)
          PROVE  Sound(delivery'[n]) /\ delivery'[n] \in DeliveryDoc
      <4> DEFINE d == delivery[req[r].delivery]
                 e == Saved(d, req[r])
      <4>1. /\ req[r].delivery \in DOMAIN delivery /\ d \in DeliveryDoc
            /\ req[r].route \in DOMAIN d.routes
            /\ delivery' = [delivery EXCEPT ![req[r].delivery] = e]
        BY <3>4, SaveCompletedIs
      <4>2. e \in DeliveryDoc /\ Kept(d, e)
        BY <4>1, SavedIs
      <4>3. Sound(e)
        BY <3>4, SavedSound
      <4> HIDE DEF e
      <4> QED BY <3>3, <4>1, <4>2, <4>3
    <3>5. ASSUME NEW m \in DOMAIN delivery, Cancel(m)
          PROVE  Sound(delivery'[n]) /\ delivery'[n] \in DeliveryDoc
      <4> DEFINE e == [delivery[m] EXCEPT !.status = "CANCELLED"]
      <4>1. e \in DeliveryDoc /\ Kept(delivery[m], e) /\ delivery' = [delivery EXCEPT ![m] = e]
        BY <3>5, CancelIs
      <4>2. Sound(e)
        BY <3>5, CancelledSound
      <4> HIDE DEF e
      <4> QED BY <3>3, <4>1, <4>2
    <3> QED BY <3>1, <3>2, <3>4, <3>5, DeliveryStep
  <2>3. ASSUME NEW e, e = delivery'[n]
        PROVE  Sound(e)'
    BY <2>1, <2>2, <2>3
  <2> QED BY <2>3
<1>2. ASSUME NEW r \in Requests
      PROVE  Found(req[r])'
  <2> SUFFICES ASSUME req'[r].step = "create", NEW p \in req'[r].packages
               PROVE  package'[p].status # "new"
    BY DEF Found
  <2>1. req'[r] \in RequestState /\ req'[r] # Idle
    BY StepType, IdleIs DEF TypeInv, TypeOK
  <2>2. p \in Packages
    BY <2>1 DEF RequestState
  <2>3. package[p].status # "new"
    <3>1. CASE req'[r] = req[r]
      BY <3>1 DEF ListInv, Found
    <3>2. ~Begin(r)
      BY BeginIs
    <3>3. CASE LoadPackages(r)
      BY <2>1, <3>3, LoadIs DEF Pending
    <3>4. ~MarkNext(r) /\ ~DriversOffline(r)
      BY MarkingOn, OfflineIs DEF Idle
    <3>5. ASSUME NEW plan \in PlansFor(req[r]), Creates(r, plan)
          PROVE  FALSE
      <4>1. req' = [req EXCEPT ![r] = Marking(r)] /\ Marking(r).step = "markAssigned"
        BY <3>5, CreateIs, PlansForAre DEF Creates
      <4> QED BY <4>1 DEF TypeInv, TypeOK
    <3> QED BY <2>1, <3>1, <3>2, <3>3, <3>4, <3>5, SlotStep
  <2> QED BY <2>2, <2>3, PackageStep
<1>3. ASSUME NEW p \in Packages
      PROVE  ListedBack(p)'
  <2> DEFINE n == package'[p].deliveryId
  <2>1. ASSUME NEW m \in DOMAIN delivery, p \in delivery[m].packageIds
        PROVE  m \in DOMAIN delivery' /\ p \in delivery'[m].packageIds
    BY <2>1, StepType DEF Later, Kept
  <2>2. n \in {0, package[p].deliveryId} \/ (n \in DOMAIN delivery /\ p \in delivery[n].packageIds)
    <3>1. ASSUME NEW r \in Requests, p \in req[r].packages, MarkAssigned(r, p), n = req[r].delivery
          PROVE  n \in DOMAIN delivery /\ p \in delivery[n].packageIds
      BY <3>1 DEF TypeInv, SlotFit, MarkAssigned
    <3> HIDE DEF n
    <3>2. n \in {0, package[p].deliveryId} \/
          \E r \in Requests : p \in req[r].packages /\ MarkAssigned(r, p) /\ n = req[r].delivery
      BY PackageStep DEF n
    <3> QED BY <3>1, <3>2
  <2>3. n # 0 => n \in DOMAIN delivery /\ p \in delivery[n].packageIds
    BY <2>2 DEF ListInv, ListedBack
  <2> HIDE DEF n
  <2>4. n # 0 => n \in DOMAIN delivery' /\ p \in delivery'[n].packageIds
    BY <2>1, <2>3
  <2> QED BY <2>4 DEF ListedBack, n
<1> QED BY <1>1, <1>2, <1>3 DEF ListInv

-----------------------------------------------------------------------------
(* Handlers one at a time                                                     *)

LEMMA MishapStep ==
    ASSUME TypeInv, [Next]_vars
    PROVE  /\ \A kind \in Kinds : mishap'[kind] = 0 => mishap[kind] = 0
           /\ Crash => mishap'["crash"] # 0
           /\ \A r \in Requests : Begin(r) => Quiet \/ mishap'["overlap"] # 0
<1>1. mishap \in [Kinds -> 0..MaxMishaps] /\ \A kind \in Kinds : mishap[kind] \in Nat
  BY WarehouseAssumption DEF TypeInv, TypeOK
<1>2. ASSUME NEW kind \in Kinds, Mishap(kind)
      PROVE  mishap'[kind] # 0 /\ \A k \in Kinds : k # kind => mishap'[k] = mishap[k]
  BY <1>1, <1>2, MishapType DEF Mishap
<1>3. "crash" \in Kinds /\ "overlap" \in Kinds
  BY DEF Kinds
<1>4. Crash => Mishap("crash")
  BY DEF Crash
<1>5. ASSUME NEW r \in Requests, Begin(r)
      PROVE  IF Quiet THEN UNCHANGED mishap ELSE Mishap("overlap")
  BY <1>5, BeginIs
<1>6. ASSUME NEW r \in Requests, Continue(r)
      PROVE  UNCHANGED mishap
  BY <1>6 DEF Continue, SavePackage, DeletePackage, SaveStatus, LoadPackages, Solve, NoPlan,
              CreateDelivery, MarkAssigned, DriversOffline, SaveCompleted
<1>7. UNCHANGED mishap \/ Mishap("crash") \/ Mishap("overlap")
  BY <1>4, <1>5, <1>6 DEF Next, Cancel, UpdateDriverStatus, CreateWarehousePackage, vars
<1>8. \A kind \in Kinds : mishap'[kind] = 0 => mishap[kind] = 0
  BY <1>2, <1>3, <1>7
<1> QED BY <1>2, <1>3, <1>4, <1>5, <1>8

Alone == \A p, q \in Requests : p = q \/ req[p] = Idle \/ req[q] = Idle

\* A handler that goes on is busy, and all others wait for a call.
LEMMA Turns ==
    ASSUME TypeInv, Alone, NEW r \in Requests, Continue(r)
    PROVE  req[r] # Idle /\ \A q \in Requests \ {r} : req[q] = Idle /\ req'[q] = Idle
<1>1. req[r].step # "idle"
  BY DEF Continue, SavePackage, DeletePackage, SaveStatus, LoadPackages, Solve, MarkAssigned,
         DriversOffline, SaveCompleted
<1>2. req[r] # Idle
  BY <1>1 DEF Idle
<1>3. \A q \in Requests \ {r} : req[q] = Idle
  BY <1>2 DEF Alone
<1>4. \E slot : req' = [req EXCEPT ![r] = slot]
  <2>1. MarkNext(r) \/ DriversOffline(r) => req' = [req EXCEPT ![r] = req'[r]]
    BY MarkIs, OfflineIs DEF MarkNext
  <2> QED BY <2>1 DEF Continue, MarkNext, SavePackage, DeletePackage, SaveStatus, LoadPackages,
                      Solve, NoPlan, CreateDelivery, SaveCompleted, Goto, Finish
<1>5. \A q \in Requests \ {r} : req'[q] = req[q]
  BY <1>4 DEF TypeInv, TypeOK
<1> QED BY <1>2, <1>3, <1>5

LEMMA AloneStep ==
    ASSUME TypeInv, Alone, [Next]_vars, mishap'["overlap"] = 0
    PROVE  Alone'
<1>1. ASSUME NEW r \in Requests, Begin(r)
      PROVE  \A q \in Requests \ {r} : req'[q] = Idle
  <2>1. Quiet
    BY <1>1, MishapStep
  <2>2. req' = [req EXCEPT ![r] = req'[r]] /\ req \in [Requests -> RequestState]
    BY <1>1, BeginIs DEF TypeInv, TypeOK
  <2> QED BY <2>1, <2>2 DEF Quiet
<1>2. ASSUME NEW r \in Requests, Begin(r) \/ Continue(r)
      PROVE  Alone'
  <2>1. \A q \in Requests \ {r} : req'[q] = Idle
    BY <1>1, <1>2, Turns
  <2>2. ASSUME NEW p \in Requests, NEW q \in Requests, p # q
        PROVE  req'[p] = Idle \/ req'[q] = Idle
    BY <2>1, <2>2
  <2>3. Idle' = Idle
    BY DEF Idle
  <2> QED BY <2>2, <2>3 DEF Alone
<1>3. CASE Crash
  BY <1>3 DEF Crash, Alone, Idle
<1>4. CASE UNCHANGED req
  BY <1>4 DEF Alone, Idle
<1> QED BY <1>2, <1>3, <1>4 DEF Next, Cancel, UpdateDriverStatus, CreateWarehousePackage, vars

-----------------------------------------------------------------------------
(* Until the process dies, a listed package that is PENDING is about to be    *)
(* marked by the handler that created the delivery.                            *)

Marks(r, n, p) == req[r].step = "markAssigned" /\ req[r].delivery = n /\ p \in req[r].packages

MarkedInv ==
    Without({"crash"}) =>
        \A n \in DOMAIN delivery : \A p \in delivery[n].packageIds \cap Pending :
            \E r \in Requests : Marks(r, n, p)

LEMMA MarkedStep ==
    ASSUME TypeInv, ListInv, MarkedInv, [Next]_vars
    PROVE  MarkedInv'
<1> SUFFICES ASSUME mishap'["crash"] = 0, NEW n \in DOMAIN delivery',
                    NEW p \in delivery'[n].packageIds, p \in Packages, package'[p].status = "PENDING"
             PROVE  \E r \in Requests : /\ req'[r].step = "markAssigned" /\ req'[r].delivery = n
                                        /\ p \in req'[r].packages
  BY DEF MarkedInv, Marks, Without, Pending
<1>1. mishap["crash"] = 0 /\ ~Crash
  BY MishapStep DEF Kinds
<1>2. CASE n \in DOMAIN delivery
  <2>1. p \in delivery[n].packageIds /\ package[p].status # "new"
    BY <1>2, StepType DEF Later, Kept, ListInv, Sound
  <2>2. package[p].status = "PENDING"
    BY <2>1, PackageStep
  <2>3. PICK r \in Requests : /\ req[r].step = "markAssigned" /\ req[r].delivery = n
                              /\ p \in req[r].packages
    BY <1>1, <1>2, <2>1, <2>2 DEF MarkedInv, Marks, Without, Pending
  <2>4. ~MarkAssigned(r, p)
    <3>1. ASSUME MarkAssigned(r, p)
          PROVE  package'[p].status = "ASSIGNED"
      <4>1. package \in [Packages -> PackageDoc] /\ Exists(p)
        BY <2>2 DEF TypeInv, TypeOK, Exists, PackageStatus
      <4> QED BY <3>1, <4>1 DEF MarkAssigned, PackageDoc
    <3> QED BY <3>1
  <2>5. CASE MarkNext(r)
    <3>1. PICK x \in req[r].packages : MarkAssigned(r, x)
      BY <2>5 DEF MarkNext
    <3>2. x # p /\ p \in req[r].packages
      BY <2>3, <2>4, <3>1
    <3>3. req'[r] = [req[r] EXCEPT !.packages = @ \ {x}] /\ req[r] \in RequestState
      BY <3>1, <3>2, MarkIs DEF TypeInv, TypeOK
    <3> QED BY <2>3, <3>2, <3>3 DEF RequestState
  <2>6. CASE ~MarkNext(r)
    <3>1. ~Begin(r) /\ ~DriversOffline(r)
      BY <2>3, BeginIs, OfflineIs DEF Idle
    <3>2. ~Continue(r) /\ \A plan \in PlansFor(req[r]) : ~Creates(r, plan)
      BY <2>3, <2>6, <3>1 DEF Continue, MarkNext, SavePackage, DeletePackage, SaveStatus,
                              LoadPackages, Solve, SaveCompleted, Creates
    <3>3. req'[r] = req[r]
      BY <1>1, <2>6, <3>1, <3>2, SlotStep DEF Continue
    <3> QED BY <2>3, <3>3
  <2> QED BY <2>5, <2>6
<1>3. CASE n \notin DOMAIN delivery
  <2>1. ASSUME NEW r \in Requests, NEW plan \in PlansFor(req[r]), Creates(r, plan)
        PROVE  /\ req'[r].step = "markAssigned" /\ req'[r].delivery = n
               /\ p \in req'[r].packages
    <3>1. /\ DOMAIN delivery' = DOMAIN delivery \cup {Len(delivery) + 1}
          /\ req' = [req EXCEPT ![r] = Marking(r)] /\ Marking(r).step = "markAssigned"
          /\ Marking(r).delivery = Len(delivery) + 1 /\ Marking(r).packages = req[r].packages
          /\ delivery'[Len(delivery) + 1] = Created(r, plan)
      BY <2>1, CreateIs, PlansForAre DEF Creates
    <3>2. n = Len(delivery) + 1 /\ p \in req[r].packages
      BY <1>3, <3>1 DEF Created
    <3> QED BY <3>1, <3>2 DEF TypeInv, TypeOK
  <2>2. ASSUME NEW r \in Requests, SaveCompleted(r)
        PROVE  DOMAIN delivery' = DOMAIN delivery
    BY <2>2, SaveCompletedIs
  <2>3. ASSUME NEW m \in DOMAIN delivery, Cancel(m)
        PROVE  DOMAIN delivery' = DOMAIN delivery
    BY <2>3, CancelIs
  <2> QED BY <1>3, <2>1, <2>2, <2>3, DeliveryStep
<1> QED BY <1>2, <1>3

-----------------------------------------------------------------------------
(* Reports about routes, one at a time                                        *)

\* A delivery of which every route is completed is COMPLETED or was cancelled.
Closed(d) ==
    d.routes # <<>> /\ Completed(d.routes) = DOMAIN d.routes => d.status \in {"COMPLETED", "CANCELLED"}

\* The delivery is still as it was loaded.
Fresh(q) ==
    q.step = "saveCompleted" =>
        /\ q.completed = Completed(delivery[q.delivery].routes)
        /\ q.status = "COMPLETED" => q.completed = DOMAIN delivery[q.delivery].routes

AloneInv ==
    Without({"overlap"}) =>
        /\ Alone
        /\ \A r \in Requests : Fresh(req[r])
        /\ \A n \in DOMAIN delivery : Closed(delivery[n])

LEMMA ClosedKept ==
    ASSUME NEW d, NEW e, Closed(d), e.routes = d.routes, e.status \in {d.status, "COMPLETED", "CANCELLED"}
    PROVE  Closed(e)
BY DEF Closed

LEMMA SavedClosed ==
    ASSUME TypeInv, NEW r \in Requests, SaveCompleted(r), Fresh(req[r]),
           Closed(delivery[req[r].delivery])
    PROVE  Closed(Saved(delivery[req[r].delivery], req[r]))
<1> DEFINE q == req[r]
           d == delivery[q.delivery]
           e == Saved(d, q)
<1>1. q.delivery \in DOMAIN delivery /\ d \in DeliveryDoc /\ q.route \in DOMAIN d.routes
  BY SaveCompletedIs
<1>2. q.completed = Completed(d.routes) /\ (q.status = "COMPLETED" => q.completed = DOMAIN d.routes)
  BY DEF Fresh, SaveCompleted
<1>3. Closed(d)
  OBVIOUS
<1> HIDE DEF d, q
<1>4. /\ Kept(d, e) /\ e.status = StatusSaved(d, q)
      /\ Completed(e.routes) = Completed(d.routes) \cup {q.route}
  BY <1>1, SavedIs
<1> HIDE DEF e
<1>5. DOMAIN e.routes = DOMAIN d.routes /\ d.routes # <<>>
  BY <1>1, <1>4 DEF Kept
<1>6. ASSUME Completed(e.routes) = DOMAIN e.routes
      PROVE  e.status \in {"COMPLETED", "CANCELLED"}
  <2>1. q.completed \cup {q.route} = DOMAIN d.routes
    BY <1>2, <1>4, <1>5, <1>6
  <2>2. e.status = IF "COMPLETED" = q.status THEN d.status ELSE "COMPLETED"
    BY <1>4, <2>1 DEF StatusSaved, Written
  <2>3. q.status = "COMPLETED" => d.status \in {"COMPLETED", "CANCELLED"}
    BY <1>2, <1>3, <1>5 DEF Closed
  <2> QED BY <2>2, <2>3
<1>7. Closed(e)
  BY <1>6 DEF Closed
<1> QED BY <1>7 DEF e, d, q

LEMMA CreatedClosed ==
    ASSUME TypeInv, NEW r \in Requests, NEW plan, Creates(r, plan)
    PROVE  Closed(Created(r, plan))
<1> DEFINE q == req[r]
           routes == Routes(q, plan)
<1>1. q \in RequestState /\ DOMAIN plan \in SUBSET Branches
  BY PlansForAre DEF TypeInv, TypeOK, Creates
<1> HIDE DEF q, routes
<1>2. routes \in Seq(RouteDoc) /\ \A i \in DOMAIN routes : routes[i].isCompleted = FALSE
  <2>1. routes \in Seq(RouteDoc)
    BY <1>1, RoutesAre DEF routes
  <2>2. \A i \in DOMAIN routes : RouteIs(q, plan, i)
    BY <1>1, RoutesAre DEF routes
  <2>3. \A i \in DOMAIN routes : routes[i].isCompleted = FALSE
    BY <2>2 DEF RouteIs, routes
  <2> QED BY <2>1, <2>3
<1>3. Completed(routes) = {}
  BY <1>2 DEF Completed
<1>4. routes # <<>> => 1 \in DOMAIN routes
  BY <1>2
<1>5. Created(r, plan).routes = routes
  BY DEF Created, routes, q
<1> QED BY <1>3, <1>4, <1>5 DEF Closed

LEMMA ClosedStep ==
    ASSUME TypeInv, [Next]_vars, \A r \in Requests : Fresh(req[r]),
           \A n \in DOMAIN delivery : Closed(delivery[n]), NEW n \in DOMAIN delivery'
    PROVE  Closed(delivery'[n])
<1>0. delivery \in Seq(DeliveryDoc)
  BY DEF TypeInv, TypeOK
<1>1. CASE UNCHANGED delivery
  BY <1>1
<1>2. ASSUME NEW r \in Requests, NEW plan \in PlansFor(req[r]), Creates(r, plan)
      PROVE  Closed(delivery'[n])
  <2>1. /\ DOMAIN delivery' = DOMAIN delivery \cup {Len(delivery) + 1}
        /\ delivery'[Len(delivery) + 1] = Created(r, plan)
        /\ \A m \in DOMAIN delivery : delivery'[m] = delivery[m]
    BY <1>2, CreateIs, PlansForAre DEF Creates
  <2>2. Closed(Created(r, plan))
    BY <1>2, CreatedClosed
  <2> QED BY <2>1, <2>2
<1>3. ASSUME NEW m \in DOMAIN delivery, NEW e \in DeliveryDoc, Kept(delivery[m], e), Closed(e),
             delivery' = [delivery EXCEPT ![m] = e]
      PROVE  Closed(delivery'[n])
  <2>1. n \in DOMAIN delivery /\ delivery'[n] = IF n = m THEN e ELSE delivery[n]
    BY <1>0, <1>3, ReplaceKeeps
  <2> QED BY <1>3, <2>1
<1>4. ASSUME NEW r \in Requests, SaveCompleted(r)
      PROVE  Closed(delivery'[n])
  <2> DEFINE d == delivery[req[r].delivery]
             e == Saved(d, req[r])
  <2>1. /\ req[r].delivery \in DOMAIN delivery /\ d \in DeliveryDoc
        /\ req[r].route \in DOMAIN d.routes
        /\ delivery' = [delivery EXCEPT ![req[r].delivery] = e]
    BY <1>4, SaveCompletedIs
  <2>2. e \in DeliveryDoc /\ Kept(d, e)
    BY <2>1, SavedIs
  <2>3. Closed(e)
    BY <1>4, <2>1, SavedClosed
  <2> HIDE DEF e
  <2> QED BY <1>3, <2>1, <2>2, <2>3
<1>5. ASSUME NEW m \in DOMAIN delivery, Cancel(m)
      PROVE  Closed(delivery'[n])
  <2> DEFINE e == [delivery[m] EXCEPT !.status = "CANCELLED"]
  <2>1. e \in DeliveryDoc /\ Kept(delivery[m], e) /\ delivery' = [delivery EXCEPT ![m] = e]
        /\ delivery[m] \in DeliveryDoc
    BY <1>5, CancelIs
  <2>2. e.status = "CANCELLED" /\ e.routes = delivery[m].routes
    BY <2>1 DEF DeliveryDoc
  <2> HIDE DEF e
  <2>3. Closed(e)
    BY <2>2, ClosedKept
  <2> QED BY <1>3, <2>1, <2>3
<1> QED BY <1>1, <1>2, <1>4, <1>5, DeliveryStep

LEMMA AloneInvStep ==
    ASSUME TypeInv, ListInv, AloneInv, [Next]_vars
    PROVE  AloneInv'
<1> SUFFICES ASSUME mishap'["overlap"] = 0
             PROVE  /\ Alone'
                    /\ \A r \in Requests : Fresh(req[r])'
                    /\ \A n \in DOMAIN delivery' : Closed(delivery'[n])
  <2>1. \A d : Closed(d)' <=> Closed(d)
    BY DEF Closed, Completed
  <2> QED BY DEF AloneInv, Without, Closed, Completed
<1>1. /\ mishap["overlap"] = 0 /\ Alone /\ \A r \in Requests : Fresh(req[r])
      /\ \A n \in DOMAIN delivery : Closed(delivery[n])
  BY MishapStep DEF AloneInv, Without, Kinds
<1>2. Alone'
  BY <1>1, AloneStep
<1>3. \A n \in DOMAIN delivery' : Closed(delivery'[n])
  BY <1>1, ClosedStep
<1>4. ASSUME NEW r \in Requests
      PROVE  Fresh(req[r])'
  <2> DEFINE n == req'[r].delivery
  <2> SUFFICES ASSUME req'[r].step = "saveCompleted"
               PROVE  /\ req'[r].completed = Completed(delivery'[n].routes)
                      /\ req'[r].status = "COMPLETED" => req'[r].completed = DOMAIN delivery'[n].routes
    BY DEF Fresh, Completed
  <2>1. CASE Begin(r)
    <3>1. /\ UNCHANGED delivery /\ n \in DOMAIN delivery
          /\ req'[r].completed = Completed(delivery[n].routes) /\ req'[r].status = delivery[n].status
      BY <2>1, BeginIs
    <3>2. Sound(delivery[n])
      BY <3>1 DEF ListInv
    <3> QED BY <3>1, <3>2 DEF Sound
  <2>2. CASE ~Begin(r)
    <3>1. /\ req'[r] # Idle
          /\ LoadPackages(r) => req'[r].step = "create"
      BY LoadIs DEF Idle
    <3>2. ~MarkNext(r) /\ ~DriversOffline(r)
      BY MarkingOn, OfflineIs DEF Idle
    <3>3. ASSUME NEW plan \in PlansFor(req[r]), Creates(r, plan)
          PROVE  FALSE
      <4>1. req' = [req EXCEPT ![r] = Marking(r)] /\ Marking(r).step = "markAssigned"
        BY <3>3, CreateIs, PlansForAre DEF Creates
      <4> QED BY <4>1 DEF TypeInv, TypeOK
    <3>4. req'[r] = req[r]
      BY <2>2, <3>1, <3>2, <3>3, SlotStep
    <3>5. n \in DOMAIN delivery /\ Fresh(req[r]) /\ req[r] # Idle
      BY <1>1, <3>1, <3>4 DEF TypeInv, SlotFit
    <3>6. \A q \in Requests \ {r} : ~Continue(q)
      BY <1>1, <3>5, Turns
    <3>7. ~SaveCompleted(r)
      BY <3>1, SaveCompletedIs DEF TypeInv, TypeOK
    <3>8. n \in DOMAIN delivery /\ delivery'[n].routes = delivery[n].routes
      <4>1. \A q \in Requests : ~SaveCompleted(q)
        BY <3>6, <3>7 DEF Continue
      <4>2. ASSUME NEW q \in Requests, NEW plan \in PlansFor(req[q]), Creates(q, plan)
            PROVE  delivery'[n] = delivery[n]
        BY <3>5, <4>2, CreateIs, PlansForAre DEF Creates
      <4>3. ASSUME NEW m \in DOMAIN delivery, Cancel(m)
            PROVE  delivery'[n].routes = delivery[n].routes
        <5>1. /\ delivery' = [delivery EXCEPT ![m] = [delivery[m] EXCEPT !.status = "CANCELLED"]]
              /\ delivery[m] \in DeliveryDoc /\ delivery \in Seq(DeliveryDoc)
          BY <4>3, CancelIs DEF TypeInv, TypeOK
        <5> QED BY <3>5, <5>1 DEF DeliveryDoc
      <4> QED BY <3>5, <4>1, <4>2, <4>3, DeliveryStep
    <3> QED BY <3>4, <3>5, <3>8 DEF Fresh
  <2> QED BY <2>1, <2>2
<1> QED BY <1>2, <1>3, <1>4

-----------------------------------------------------------------------------
(* Dispatches, one at a time                                                  *)

Unlisted(packages) == \A n \in DOMAIN delivery : packages \cap delivery[n].packageIds = {}

Visited(route) == {branch \in Branches : route.stops[branch] # {}}

\* Each stop may weigh half a tenth of a kilogram more than the solver was told.
Fits(route) ==
    2 * SumFunctionOnSet(Weight, Carrying(route))
        <= Tenth * (2 * Capacity[route.driver] + Cardinality(Visited(route)))

\* What a handler is about to write or to dispatch is on no delivery, and a
\* dispatch plans with the weights that the packages have.
InTurnFit(q) ==
    /\ q.step \in {"savePackage", "deletePackage", "create"} => Unlisted(q.packages)
    /\ q.step = "create" => q.demand = Demand(q.packages)

InTurn ==
    Without(Kinds) =>
        /\ \A r \in Requests : InTurnFit(req[r])
        /\ \A m, n \in DOMAIN delivery : m # n => delivery[m].packageIds \cap delivery[n].packageIds = {}
        /\ \A n \in DOMAIN delivery : \A i \in DOMAIN delivery[n].routes : Fits(delivery[n].routes[i])

\* When no handler is about to mark packages, none that is listed is PENDING.
LEMMA NothingToMark ==
    ASSUME MarkedInv, mishap["crash"] = 0, \A r \in Requests : req[r].step # "markAssigned",
           NEW packages \in SUBSET Pending
    PROVE  Unlisted(packages)
BY DEF MarkedInv, Marks, Without, Unlisted

\* What the stops of a vehicle weigh, by the capacity that their rounded weights
\* stay within.
LEMMA StopsFit ==
    ASSUME NEW demand \in [Destinations -> Nat], NEW nodes \in StopNodes(demand),
           NEW T \in SUBSET (DOMAIN nodes), NEW capacity \in Nat, Carried(nodes, T) <= capacity
    PROVE  /\ 2 * SumFunctionOnSet(demand, T) <= Tenth * (2 * capacity + Cardinality(T))
           /\ T \subseteq Stops(demand) \cap Branches
<1> DEFINE n == Cardinality(T)
           x == SumFunctionOnSet(nodes, T)
           y == SumFunctionOnSet(demand, T)
<1>1. /\ DOMAIN nodes = Stops(demand) \cap Branches
      /\ \A stop \in DOMAIN nodes : nodes[stop] \in Nearest(demand[stop], Tenth)
  BY DEF StopNodes
<1>2. T \in SUBSET Destinations /\ T \subseteq Stops(demand) \cap Branches
  BY <1>1, WarehouseAssumption
<1>3. IsFiniteSet(T) /\ Cardinality(T) \in Nat
  BY <1>2, WarehouseAssumption, FS_Subset, FS_CardinalityType
<1>4. Tenth \in Nat \ {0} /\ Tenth \in Int
  BY WarehouseAssumption
<1>5. ASSUME NEW t \in T
      PROVE  demand[t] \in Int /\ nodes[t] \in Int /\ 2 * demand[t] <= Tenth * (2 * nodes[t] + 1)
  <2>1. demand[t] \in Int /\ nodes[t] \in Nearest(demand[t], Tenth)
    BY <1>1, <1>2
  <2>2. nodes[t] \in Int /\ Rounds(demand[t], Tenth, nodes[t])
    BY <1>4, <2>1, NearestType
  <2> QED BY <1>4, <2>1, <2>2, RoundsAtMost
<1>6. 2 * y <= Tenth * (2 * x + n)
  BY <1>3, <1>4, <1>5, SumRounded
<1>7. x \in Int /\ y \in Int /\ n \in Nat /\ x <= capacity
  BY <1>3, <1>5, SumInt DEF Carried
<1> HIDE DEF x, y, n
<1>8. Tenth * (2 * x + n) <= Tenth * (2 * capacity + n)
  <2>1. 2 * x + n <= 2 * capacity + n /\ 2 * x + n \in Int /\ 2 * capacity + n \in Int
    BY <1>7
  <2> QED BY <1>4, <2>1, Scale
<1>9. Tenth * (2 * x + n) \in Int /\ Tenth * (2 * capacity + n) \in Int /\ 2 * y \in Int
  BY <1>4, <1>7, Product
<1>10. 2 * y <= Tenth * (2 * capacity + n)
  BY <1>6, <1>8, <1>9
<1> QED BY <1>2, <1>10 DEF y, n

\* A plan within the capacities of the vehicles is one for the packages.
LEMMA PlanFits ==
    ASSUME TypeInv, NEW r \in Requests, NEW plan, Creates(r, plan),
           req[r].demand = Demand(req[r].packages)
    PROVE  \A i \in DOMAIN Created(r, plan).routes : Fits(Created(r, plan).routes[i])
<1> DEFINE q == req[r]
           eligible == Vehicles(q)
           routed == Routed(q, plan)
           routes == Routes(q, plan)
           capacity == [v \in DOMAIN eligible |-> Capacity[eligible[v]]]
           To(t) == {p \in q.packages : package[p].destination = t}
<1>0. Created(r, plan).routes = routes
  BY DEF Created
<1>1. q \in RequestState /\ plan \in PlansFor(q) /\ q.demand = Demand(q.packages)
      /\ package \in [Packages -> PackageDoc]
  BY DEF TypeInv, TypeOK, Creates
<1> HIDE DEF q
<1>2. DOMAIN plan \in SUBSET Branches /\ q.packages \in SUBSET Packages
      /\ q.demand \in [Destinations -> Nat] /\ q.drivers \in Seq(Drivers)
  BY <1>1, PlansForAre DEF RequestState
<1>3. PICK nodes \in StopNodes(q.demand) : plan \in Plans(capacity, nodes)
  BY <1>1 DEF PlansFor, Vehicles
<1>4. eligible \in Seq(Drivers)
  BY <1>2, EligibleIs DEF Vehicles
<1> HIDE DEF eligible, routed, routes
<1>5. \A t \in Destinations : q.demand[t] = SumFunctionOnSet(Weight, To(t))
  BY <1>1 DEF Demand
<1> HIDE DEF To
<1>6. ASSUME NEW v \in DOMAIN eligible, NEW route,
             route.driver = eligible[v],
             Carrying(route) = {p \in q.packages : package[p].destination \in Visits(plan, v)},
             \A branch \in Branches : route.stops[branch] = Load(q.packages, Visits(plan, v), branch)
      PROVE  Fits(route)
  <2> DEFINE T == Visits(plan, v)
             S == Carrying(route)
             where == [p \in Packages |-> package[p].destination]
             parts == [t \in T |-> SumFunctionOnSet(Weight, {x \in S : where[x] = t})]
  <2>1. DOMAIN plan = DOMAIN nodes /\ Carried(nodes, T) <= Capacity[eligible[v]]
    <3>1. v \in DOMAIN capacity /\ capacity[v] = Capacity[eligible[v]]
      OBVIOUS
    <3> HIDE DEF capacity
    <3> QED BY <1>3, <3>1 DEF Plans
  <2>2. T \in SUBSET (DOMAIN nodes) /\ T \in SUBSET Destinations
    BY <1>2, <2>1, WarehouseAssumption DEF Visits
  <2>3. Capacity[eligible[v]] \in Nat
    BY <1>4, SequenceDomain, WarehouseAssumption
  <2>4. /\ 2 * SumFunctionOnSet(q.demand, T) <= Tenth * (2 * Capacity[eligible[v]] + Cardinality(T))
        /\ T \subseteq Stops(q.demand) \cap Branches
    BY <1>2, <2>1, <2>2, <2>3, StopsFit
  <2>5. S = {p \in q.packages : package[p].destination \in T} /\ S \in SUBSET Packages
    BY <1>2, <1>6
  <2>6. IsFiniteSet(S) /\ IsFiniteSet(T)
    <3> HIDE DEF S, T
    <3> QED BY <2>2, <2>5, WarehouseAssumption, FS_Subset
  <2>7. \A x \in S : Weight[x] \in Int /\ where[x] \in T
    BY <1>1, <1>2, <2>5, WeightIs
  <2>8. ASSUME NEW t \in T
        PROVE  q.demand[t] = parts[t] /\ q.demand[t] \in Int
    <3>1. {x \in S : where[x] = t} = To(t)
      BY <1>2, <2>5 DEF To
    <3>2. parts[t] = SumFunctionOnSet(Weight, To(t))
      BY <3>1
    <3>3. q.demand[t] = SumFunctionOnSet(Weight, To(t)) /\ q.demand[t] \in Nat
      BY <1>2, <1>5, <2>2
    <3> HIDE DEF parts
    <3> QED BY <3>2, <3>3
  <2>9. SumFunctionOnSet(Weight, S) = SumFunctionOnSet(parts, T)
    <3> HIDE DEF S, T, where
    <3> QED BY <2>6, <2>7, SumByParts
  <2>10. Visited(route) = T
    <3>1. ASSUME NEW t \in T
          PROVE  t \in Branches /\ route.stops[t] # {}
      <4>1. t \in Branches /\ t \in Destinations /\ q.demand[t] > 0
        BY <2>2, <2>4 DEF Stops
      <4>2. To(t) # {}
        BY <1>5, <4>1, SumEmpty
      <4> QED BY <1>6, <4>1, <4>2 DEF Load, To
    <3>2. ASSUME NEW branch \in Branches, route.stops[branch] # {}
          PROVE  branch \in T
      BY <1>6, <3>2 DEF Load
    <3> HIDE DEF T
    <3> QED BY <3>1, <3>2 DEF Visited
  <2> HIDE DEF parts, S, T
  <2>11. SumFunctionOnSet(q.demand, T) = SumFunctionOnSet(parts, T)
    BY <2>6, <2>8, SumSame
  <2>12. 2 * SumFunctionOnSet(Weight, S) <= Tenth * (2 * Capacity[route.driver] + Cardinality(Visited(route)))
    BY <1>6, <2>4, <2>9, <2>10, <2>11
  <2> QED BY <2>12 DEF Fits, S
<1>7. ASSUME NEW i \in DOMAIN routes
      PROVE  Fits(routes[i])
  <2>1. RouteIs(q, plan, i)
    BY <1>1, <1>2, RoutesAre DEF routes
  <2> QED BY <1>6, <2>1 DEF RouteIs, eligible, routed, routes
<1> QED BY <1>0, <1>7

\* Among handlers that take turns, none but the one that writes it changes the
\* weight or the destination of a package.
LEMMA PackagesStay ==
    ASSUME TypeInv, ListInv, AloneInv, InTurn, [Next]_vars, Without(Kinds)', NEW p \in Packages,
           package[p].status # "new",
           \/ \E n \in DOMAIN delivery : p \in delivery[n].packageIds
           \/ \E r \in Requests : req[r].step = "create" /\ p \in req[r].packages
    PROVE  package'[p].weight = package[p].weight /\ package'[p].destination = package[p].destination
<1>1. Without(Kinds) /\ Alone
  BY MishapStep DEF Without, Kinds, AloneInv
<1>2. ASSUME NEW r \in Requests, req[r].step \in {"savePackage", "deletePackage"}, p \in req[r].packages
      PROVE  FALSE
  <2>1. Unlisted(req[r].packages)
    BY <1>1, <1>2 DEF InTurn, InTurnFit
  <2>2. PICK q \in Requests : req[q].step = "create" /\ p \in req[q].packages
    BY <1>2, <2>1 DEF Unlisted
  <2>3. q # r /\ req[q] # Idle /\ req[r] # Idle
    BY <1>2, <2>2, IdleIs DEF Idle
  <2> QED BY <1>1, <2>3 DEF Alone
<1> QED BY <1>2, PackageStep

LEMMA DemandStays ==
    ASSUME package \in [Packages -> PackageDoc], NEW packages \in SUBSET Packages,
           \A p \in packages : /\ package'[p].weight = package[p].weight
                               /\ package'[p].destination = package[p].destination
    PROVE  Demand(packages)' = Demand(packages)
<1>1. ASSUME NEW destination \in Destinations
      PROVE  SumFunctionOnSet(Weight', {p \in packages : package'[p].destination = destination})
                = SumFunctionOnSet(Weight, {p \in packages : package[p].destination = destination})
  <2> DEFINE part == {p \in packages : package[p].destination = destination}
  <2>1. {p \in packages : package'[p].destination = destination} = part /\ part \in SUBSET Packages
    OBVIOUS
  <2>2. \A p \in part : Weight[p] \in Int /\ Weight[p] = Weight'[p]
    BY WeightIs DEF Weight
  <2> HIDE DEF part
  <2>3. IsFiniteSet(part)
    BY <2>1, WarehouseAssumption, FS_Subset
  <2>4. SumFunctionOnSet(Weight, part) = SumFunctionOnSet(Weight', part)
    BY <2>2, <2>3, SumSame
  <2> QED BY <2>1, <2>4 DEF part
<1> QED BY <1>1 DEF Demand

LEMMA FitsStays ==
    ASSUME package \in [Packages -> PackageDoc], NEW route, Carrying(route) \in SUBSET Packages,
           \A p \in Carrying(route) : package'[p].weight = package[p].weight,
           Fits(route)
    PROVE  Fits(route)'
<1> DEFINE S == Carrying(route)
<1>1. \A p \in S : Weight[p] \in Int /\ Weight[p] = Weight'[p]
  BY WeightIs DEF Weight
<1>2. IsFiniteSet(S)
  BY WarehouseAssumption, FS_Subset
<1>3. Carrying(route)' = S
  BY DEF Carrying
<1> HIDE DEF S
<1>4. SumFunctionOnSet(Weight, S) = SumFunctionOnSet(Weight', S)
  BY <1>1, <1>2, SumSame
<1>5. 2 * SumFunctionOnSet(Weight', S)
          <= Tenth * (2 * Capacity[route.driver] + Cardinality(Visited(route)))
  BY <1>4 DEF Fits, S
<1> QED BY <1>3, <1>5 DEF Fits, Visited

\* A step adds nothing to what is listed, but for the delivery it creates.
LEMMA Listing ==
    ASSUME TypeInv, [Next]_vars
    PROVE  \/ DOMAIN delivery' = DOMAIN delivery
           \/ \E r \in Requests : \E plan \in PlansFor(req[r]) : Creates(r, plan)
<1>1. ASSUME NEW r \in Requests, SaveCompleted(r)
      PROVE  DOMAIN delivery' = DOMAIN delivery
  BY <1>1, SaveCompletedIs
<1>2. ASSUME NEW n \in DOMAIN delivery, Cancel(n)
      PROVE  DOMAIN delivery' = DOMAIN delivery
  BY <1>2, CancelIs
<1> QED BY <1>1, <1>2, DeliveryStep

LEMMA InTurnStep ==
    ASSUME TypeInv, ListInv, MarkedInv, AloneInv, InTurn, [Next]_vars
    PROVE  InTurn'
<1> SUFFICES ASSUME Without(Kinds)'
             PROVE  /\ \A r \in Requests : InTurnFit(req[r])'
                    /\ \A m, n \in DOMAIN delivery' :
                        m # n => delivery'[m].packageIds \cap delivery'[n].packageIds = {}
                    /\ \A n \in DOMAIN delivery' : \A i \in DOMAIN delivery'[n].routes :
                        Fits(delivery[n].routes[i])'
  BY DEF InTurn
<1>1. /\ Without(Kinds) /\ Alone /\ mishap["crash"] = 0
      /\ mishap'["crash"] = 0 /\ mishap'["overlap"] = 0
  BY MishapStep DEF Without, Kinds, AloneInv
<1>2. /\ \A r \in Requests : InTurnFit(req[r])
      /\ \A m, n \in DOMAIN delivery : m # n => delivery[m].packageIds \cap delivery[n].packageIds = {}
      /\ \A n \in DOMAIN delivery : \A i \in DOMAIN delivery[n].routes : Fits(delivery[n].routes[i])
  BY <1>1 DEF InTurn
<1>3. package \in [Packages -> PackageDoc] /\ req \in [Requests -> RequestState] /\ Later
  BY StepType DEF TypeInv, TypeOK
<1>4. ASSUME NEW r \in Requests, NEW plan \in PlansFor(req[r]), Creates(r, plan)
      PROVE  /\ DOMAIN delivery' = DOMAIN delivery \cup {Len(delivery) + 1}
             /\ Len(delivery) + 1 \notin DOMAIN delivery
             /\ delivery'[Len(delivery) + 1] = Created(r, plan)
             /\ Created(r, plan).packageIds = req[r].packages
             /\ \A n \in DOMAIN delivery : delivery'[n] = delivery[n]
             /\ req'[r].step = "markAssigned" /\ UNCHANGED package
             /\ Unlisted(req[r].packages)
  <2>1. /\ DOMAIN delivery' = DOMAIN delivery \cup {Len(delivery) + 1}
        /\ Len(delivery) + 1 \notin DOMAIN delivery
        /\ delivery'[Len(delivery) + 1] = Created(r, plan)
        /\ \A n \in DOMAIN delivery : delivery'[n] = delivery[n]
        /\ req' = [req EXCEPT ![r] = Marking(r)] /\ Marking(r).step = "markAssigned"
    BY <1>4, CreateIs, PlansForAre DEF Creates
  <2>2. Created(r, plan).packageIds = req[r].packages
    BY DEF Created
  <2>3. Unlisted(req[r].packages)
    BY <1>2, <1>4 DEF InTurnFit, Creates
  <2>4. UNCHANGED package
    BY <1>4 DEF Creates, CreateDelivery
  <2> QED BY <1>3, <2>1, <2>2, <2>3, <2>4
<1>5. ASSUME NEW r \in Requests
      PROVE  InTurnFit(req[r])'
  <2>1. CASE req'[r] = req[r]
    <3>1. ASSUME req[r].step \in {"savePackage", "deletePackage", "create"}
          PROVE  Unlisted(req[r].packages)
      BY <1>2, <3>1 DEF InTurnFit
    <3>2. ASSUME req[r].step \in {"savePackage", "deletePackage", "create"}
          PROVE  DOMAIN delivery' = DOMAIN delivery
      <4>1. ASSUME NEW q \in Requests, NEW plan \in PlansFor(req[q]), Creates(q, plan)
            PROVE  FALSE
        <5>1. req[q].step = "create" /\ req'[q].step = "markAssigned"
          BY <1>4, <4>1 DEF Creates
        <5>2. q # r
          BY <2>1, <5>1
        <5>3. req[q] # Idle /\ req[r] # Idle
          BY <3>2, <5>1 DEF Idle
        <5> QED BY <1>1, <5>2, <5>3 DEF Alone
      <4> QED BY <4>1, Listing
    <3>3. ASSUME req[r].step \in {"savePackage", "deletePackage", "create"}, NEW n \in DOMAIN delivery'
          PROVE  req[r].packages \cap delivery'[n].packageIds = {}
      BY <1>3, <3>1, <3>2, <3>3 DEF Unlisted, Later, Kept
    <3>4. ASSUME req[r].step = "create"
          PROVE  \A p \in req[r].packages : /\ package'[p].weight = package[p].weight
                                            /\ package'[p].destination = package[p].destination
      <4> SUFFICES ASSUME NEW p \in req[r].packages
                   PROVE  /\ package'[p].weight = package[p].weight
                          /\ package'[p].destination = package[p].destination
        OBVIOUS
      <4>1. p \in Packages /\ package[p].status # "new"
        BY <1>3, <3>4 DEF RequestState, ListInv, Found
      <4> QED BY <3>4, <4>1, PackagesStay
    <3>5. ASSUME req[r].step = "create", NEW packages, packages = req'[r].packages
          PROVE  Demand(packages)' = Demand(req[r].packages)
      <4>1. req[r].packages \in SUBSET Packages /\ packages = req[r].packages
        BY <1>3, <2>1, <3>5 DEF RequestState
      <4> QED BY <1>3, <3>4, <3>5, <4>1, DemandStays
    <3>6. req[r].step = "create" => req[r].demand = Demand(req[r].packages)
      BY <1>2 DEF InTurnFit
    <3>7. req[r].step = "create" => req'[r].demand = Demand(req[r].packages)'
      BY <2>1, <3>5, <3>6
    <3> QED BY <2>1, <3>3, <3>7 DEF InTurnFit, Unlisted
  <2>2. CASE req'[r] = Idle
    BY <2>2 DEF InTurnFit, Idle
  <2>3. CASE Begin(r)
    <3>1. Quiet /\ UNCHANGED delivery
      BY <1>1, <2>3, MishapStep, BeginIs
    <3>2. \A q \in Requests : req[q].step # "markAssigned"
      BY <3>1 DEF Quiet, Idle
    <3>3. /\ req'[r].step \in {"savePackage", "deletePackage", "loadPackages", "saveStatus", "saveCompleted"}
          /\ req'[r].step \in {"savePackage", "deletePackage"} => req'[r].packages \subseteq Pending
      BY <2>3, BeginIs
    <3>4. req'[r].step \in {"savePackage", "deletePackage"} => Unlisted(req'[r].packages)
      BY <1>1, <3>2, <3>3, NothingToMark
    <3> QED BY <3>1, <3>3, <3>4 DEF InTurnFit, Unlisted
  <2>4. CASE LoadPackages(r) /\ req'[r] # Idle
    <3>1. /\ req[r].step = "loadPackages" /\ UNCHANGED <<package, delivery>>
          /\ req'[r].step = "create" /\ req'[r].packages \subseteq Pending
          /\ req'[r].demand = Demand(req'[r].packages)
      BY <2>4, LoadIs
    <3>2. \A q \in Requests : req[q].step # "markAssigned"
      <4>1. req[r] # Idle
        BY <3>1 DEF Idle
      <4>2. \A q \in Requests : q # r => req[q] = Idle
        BY <1>1, <4>1 DEF Alone
      <4> QED BY <3>1, <4>2 DEF Idle
    <3>3. Unlisted(req'[r].packages)
      BY <1>1, <3>1, <3>2, NothingToMark
    <3>4. Demand(req'[r].packages) = Demand(req[r].packages)'
      BY <3>1 DEF Demand, Weight
    <3> QED BY <3>1, <3>3, <3>4 DEF InTurnFit, Unlisted
  <2>5. CASE MarkNext(r) \/ DriversOffline(r)
    <3>1. req'[r].step \in {"markAssigned", "driversOffline", "idle"}
      BY <2>5, MarkingOn, OfflineIs DEF Idle
    <3> QED BY <3>1 DEF InTurnFit
  <2>6. ASSUME NEW plan \in PlansFor(req[r]), Creates(r, plan)
        PROVE  InTurnFit(req[r])'
    <3>1. req'[r].step = "markAssigned"
      BY <1>4, <2>6
    <3> QED BY <3>1 DEF InTurnFit
  <2> QED BY <2>1, <2>2, <2>3, <2>4, <2>5, <2>6, SlotStep
<1>6. ASSUME NEW m \in DOMAIN delivery', NEW n \in DOMAIN delivery', m # n
      PROVE  delivery'[m].packageIds \cap delivery'[n].packageIds = {}
  <2>1. CASE DOMAIN delivery' = DOMAIN delivery
    BY <1>2, <1>3, <1>6, <2>1 DEF Later, Kept
  <2>2. ASSUME NEW r \in Requests, NEW plan \in PlansFor(req[r]), Creates(r, plan)
        PROVE  delivery'[m].packageIds \cap delivery'[n].packageIds = {}
    BY <1>2, <1>4, <1>6, <2>2 DEF Unlisted
  <2> QED BY <2>1, <2>2, Listing
<1>7. ASSUME NEW n \in DOMAIN delivery', NEW i \in DOMAIN delivery'[n].routes
      PROVE  Fits(delivery[n].routes[i])'
  <2>1. ASSUME NEW route, Fits(route), Carrying(route) \in SUBSET Packages,
               \A p \in Carrying(route) : package'[p].weight = package[p].weight,
               route.stops = delivery'[n].routes[i].stops, route.driver = delivery'[n].routes[i].driver
        PROVE  Fits(delivery[n].routes[i])'
    <3>1. Fits(route)'
      BY <1>3, <2>1, FitsStays
    <3>2. Carrying(route)' = Carrying(delivery[n].routes[i])'
      BY <2>1 DEF Carrying
    <3> QED BY <2>1, <3>1, <3>2 DEF Fits, Visited
  <2>2. CASE n \in DOMAIN delivery
    <3> DEFINE route == delivery[n].routes[i]
    <3>1. /\ i \in DOMAIN delivery[n].routes
          /\ route.stops = delivery'[n].routes[i].stops /\ route.driver = delivery'[n].routes[i].driver
      BY <1>3, <2>2 DEF Later, Kept
    <3>2. /\ Fits(route) /\ Carrying(route) \subseteq delivery[n].packageIds
          /\ \A p \in delivery[n].packageIds : package[p].status # "new"
      BY <1>2, <2>2, <3>1 DEF ListInv, Sound
    <3>3. delivery[n].packageIds \in SUBSET Packages
      BY <2>2, DeliveryIs
    <3> HIDE DEF route
    <3>4. \A p \in Carrying(route) : package'[p].weight = package[p].weight
      BY <2>2, <3>2, <3>3, PackagesStay
    <3> QED BY <2>1, <3>1, <3>2, <3>3, <3>4
  <2>3. CASE n \notin DOMAIN delivery
    <3>1. PICK r \in Requests : \E plan \in PlansFor(req[r]) : Creates(r, plan)
      BY <2>3, Listing
    <3>2. PICK plan \in PlansFor(req[r]) : Creates(r, plan)
      BY <3>1
    <3>3. delivery'[n] = Created(r, plan) /\ UNCHANGED package
      BY <1>4, <2>3, <3>2
    <3>4. req[r].demand = Demand(req[r].packages)
      BY <1>2, <3>2 DEF InTurnFit, Creates
    <3> DEFINE route == Created(r, plan).routes[i]
    <3>5. i \in DOMAIN Created(r, plan).routes
      BY <3>3
    <3>6. Fits(route)
      BY <3>2, <3>4, <3>5, PlanFits
    <3>7. Carrying(route) \in SUBSET Packages
      <4>1. Sound(Created(r, plan)) /\ Created(r, plan).packageIds \in SUBSET Packages
        <5>1. Created(r, plan).packageIds = req[r].packages
          BY DEF Created
        <5> QED BY <1>3, <3>2, <5>1, CreatedSound DEF RequestState
      <4> QED BY <3>5, <4>1 DEF Sound
    <3>8. route = delivery'[n].routes[i]
      BY <3>3
    <3> HIDE DEF route
    <3> QED BY <2>1, <3>3, <3>6, <3>7, <3>8
  <2> QED BY <2>2, <2>3
<1> QED BY <1>5, <1>6, <1>7

-----------------------------------------------------------------------------
(* The theorems                                                               *)

Inv == TypeInv /\ ListInv /\ MarkedInv /\ AloneInv /\ InTurn

LEMMA InvInit ==
    ASSUME Init
    PROVE  Inv
<1>1. TypeInv
  BY TypeInit
<1>2. /\ delivery = <<>> /\ DOMAIN delivery = {} /\ \A r \in Requests : req[r] = Idle
      /\ \A p \in Packages : package[p].deliveryId = 0
  BY DEF Init, NoPackage
<1>3. ListInv
  BY <1>2, IdleIs DEF ListInv, Found, ListedBack
<1>4. MarkedInv
  BY <1>2 DEF MarkedInv
<1>5. AloneInv
  <2>1. Alone
    BY <1>2 DEF Alone
  <2>2. \A r \in Requests : req[r].step = "idle"
    BY <1>2 DEF Idle
  <2> QED BY <1>2, <2>1, <2>2 DEF AloneInv, Fresh
<1>6. InTurn
  BY <1>2 DEF InTurn, InTurnFit, Idle
<1> QED BY <1>1, <1>3, <1>4, <1>5, <1>6 DEF Inv

LEMMA InvStep ==
    ASSUME Inv, [Next]_vars
    PROVE  Inv'
<1>1. TypeInv /\ ListInv /\ MarkedInv /\ AloneInv /\ InTurn
  BY DEF Inv
<1> QED BY <1>1, StepType, ListStep, MarkedStep, AloneInvStep, InTurnStep DEF Inv

LEMMA InvAlways == Spec => []Inv
<1>1. Init => Inv
  BY InvInit
<1>2. Inv /\ [Next]_vars => Inv'
  BY InvStep
<1> QED BY <1>1, <1>2, PTL DEF Spec

\* A package that names a delivery is listed by it, always; no two deliveries
\* list one package and no two routes carry it while handlers take turns and the
\* process lives.
THEOREM PackagesDispatchedOnce == Spec => []DispatchedOnce
<1>1. Inv => DispatchedOnce
  <2> SUFFICES ASSUME Inv
               PROVE  DispatchedOnce
    OBVIOUS
  <2>1. \A p \in Packages :
            package[p].deliveryId # 0 => p \in delivery[package[p].deliveryId].packageIds
    BY DEF Inv, ListInv, ListedBack
  <2>2. ASSUME Without(Kinds), NEW m \in DOMAIN delivery, NEW n \in DOMAIN delivery,
               NEW p \in delivery[m].packageIds \cap delivery[n].packageIds
        PROVE  /\ m = n
               /\ \A i, j \in DOMAIN delivery[m].routes :
                    p \in Carrying(delivery[m].routes[i]) \cap Carrying(delivery[m].routes[j]) => i = j
    <3>1. m = n
      BY <2>2 DEF Inv, InTurn
    <3>2. Sound(delivery[m])
      BY DEF Inv, ListInv
    <3> QED BY <3>1, <3>2 DEF Sound
  <2> QED BY <2>1, <2>2 DEF DispatchedOnce
<1> QED BY <1>1, InvAlways, PTL

\* No vehicle is loaded beyond its capacity by more than the rounding of its stops'
\* weights hides, by the weights that the packages have now, while handlers take
\* turns and the process lives.
THEOREM RoutesWithinCapacity == Spec => []WithinCapacity
<1>1. Inv => WithinCapacity
  BY DEF Inv, InTurn, Fits, Visited, WithinCapacity
<1> QED BY <1>1, InvAlways, PTL

\* A delivery is COMPLETED only when every route is, whatever overlaps or
\* crashes; when every route is and reports take turns, it is COMPLETED or was
\* cancelled.
THEOREM DeliveriesCompletedWhenDone == Spec => []CompletedWhenDone
<1>1. Inv => CompletedWhenDone
  BY DEF Inv, ListInv, Sound, AloneInv, Closed, CompletedWhenDone
<1> QED BY <1>1, InvAlways, PTL

\* Until the process dies, a package that a delivery lists is not PENDING once
\* the handlers have ended.
THEOREM ListedPackagesTaken == Spec => []ListedIsTaken
<1>1. Inv => ListedIsTaken
  <2> SUFFICES ASSUME Inv, Quiet, Without({"crash"}), NEW n \in DOMAIN delivery,
                      NEW p \in delivery[n].packageIds \cap Pending
               PROVE  FALSE
    BY DEF ListedIsTaken
  <2>1. PICK r \in Requests : Marks(r, n, p)
    BY DEF Inv, MarkedInv
  <2> QED BY <2>1 DEF Marks, Quiet, Idle
<1> QED BY <1>1, InvAlways, PTL

=============================================================================
