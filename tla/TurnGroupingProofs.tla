------------------------- MODULE TurnGroupingProofs -------------------------
(***************************************************************************)
(* The incremental rebuild of a timeline is the full one, while the times  *)
(* of the events rise with their offsets.                                  *)
(***************************************************************************)
EXTENDS TurnGrouping, FiniteSetTheorems, TLAPS

\* Some of the events.
EventsOf(E, offsets) == [q \in offsets |-> E[q]]

\* Timestamps of the events of E.
TimesOf(E, T) == T \in [DOMAIN E -> Nat]

\* A later event of the file is not stamped with an earlier time.
TimesRise(E, T) == TimesOf(E, T) /\ \A p, q \in DOMAIN E : p <= q => T[p] <= T[q]

(***************************************************************************)
(* Every turn of a grouping starts at a stored event.                      *)
(***************************************************************************)
LEMMA TurnIds ==
    ASSUME NEW E, NEW t \in GroupIntoTurns(E)
    PROVE  t.id \in TurnStarts(E) /\ t = Turn(E, t.id)
BY DEF GroupIntoTurns, Turn

(***************************************************************************)
(* Cutting events off at the end does not move the turn starts before.     *)
(***************************************************************************)
LEMMA StartsBelow ==
    ASSUME NEW E, DOMAIN E \subseteq Nat, NEW k \in Nat
    PROVE  TurnStarts(EventsBelow(E, k)) = {u \in TurnStarts(E) : u < k}
<1> DEFINE B == EventsBelow(E, k)
<1>1. DOMAIN B = {x \in DOMAIN E : x < k} /\ \A x \in DOMAIN B : B[x] = E[x]
  BY DEF EventsBelow
<1>2. ASSUME NEW u \in DOMAIN B
      PROVE  StartsTurn(B, u) <=> StartsTurn(E, u)
  <2>1. u \in DOMAIN E /\ u \in Nat /\ u < k /\ B[u] = E[u]
    BY <1>1
  <2>2. (\A q \in DOMAIN B : u <= q) <=> (\A q \in DOMAIN E : u <= q)
    <3>1. ASSUME \A q \in DOMAIN B : u <= q, NEW q \in DOMAIN E
          PROVE  u <= q
      <4>1. CASE q < k
        BY <4>1, <3>1, <1>1
      <4>2. CASE ~(q < k)
        BY <4>2, <2>1
      <4>3. QED BY <4>1, <4>2
    <3>2. QED BY <3>1, <1>1
  <2>3. QED BY <2>1, <2>2 DEF StartsTurn
<1>3. QED BY <1>1, <1>2 DEF TurnStarts

(***************************************************************************)
(* Dropping the events before a turn's start keeps the later turn starts.  *)
(***************************************************************************)
LEMMA StartsFrom ==
    ASSUME NEW E, DOMAIN E \subseteq Nat, NEW t \in TurnStarts(E)
    PROVE  TurnStarts(EventsFrom(E, t)) = {u \in TurnStarts(E) : t <= u}
<1> DEFINE F == EventsFrom(E, t)
<1>1. DOMAIN F = {x \in DOMAIN E : t <= x} /\ \A x \in DOMAIN F : F[x] = E[x]
  BY DEF EventsFrom
<1>2. t \in DOMAIN F /\ t \in Nat /\ StartsTurn(E, t)
  BY <1>1 DEF TurnStarts
<1>3. ASSUME NEW u \in DOMAIN F
      PROVE  StartsTurn(F, u) <=> StartsTurn(E, u)
  <2>1. u \in DOMAIN E /\ u \in Nat /\ t <= u /\ F[u] = E[u]
    BY <1>1
  <2>2. CASE u = t
    BY <2>2, <1>1, <1>2, <2>1 DEF StartsTurn
  <2>3. CASE u # t
    <3>1. ~(\A q \in DOMAIN F : u <= q)
      BY <2>3, <1>2, <2>1
    <3>2. ~(\A q \in DOMAIN E : u <= q)
      BY <3>1, <1>1
    <3>3. QED BY <3>1, <3>2, <2>1 DEF StartsTurn
  <2>4. QED BY <2>2, <2>3
<1>4. QED BY <1>1, <1>3 DEF TurnStarts

(***************************************************************************)
(* A turn that ends before the cut is the same turn of both groupings.     *)
(***************************************************************************)
LEMMA TurnBelow ==
    ASSUME NEW E, DOMAIN E \subseteq Nat, NEW k \in Nat,
           NEW t \in TurnStarts(E), t < k, NEW u \in TurnStarts(E), u < t
    PROVE  Turn(EventsBelow(E, k), u) = Turn(E, u)
<1> DEFINE B == EventsBelow(E, k)
<1>1. DOMAIN B = {x \in DOMAIN E : x < k}
  BY DEF EventsBelow
<1>2. TurnStarts(B) = {v \in TurnStarts(E) : v < k}
  BY StartsBelow
<1>3. TurnStarts(E) \subseteq DOMAIN E
  BY DEF TurnStarts
<1>4. TurnEvents(B, u) = TurnEvents(E, u)
  <2>1. ASSUME NEW o \in TurnEvents(E, u) PROVE o \in TurnEvents(B, u)
    <3>1. o \in DOMAIN E /\ u <= o /\ \A v \in TurnStarts(E) : v <= o => v <= u
      BY DEF TurnEvents
    <3>2. ~(t <= o)
      BY <3>1, <1>3
    <3>3. o < k
      BY <3>1, <3>2, <1>3
    <3>4. QED BY <3>1, <3>3, <1>1, <1>2 DEF TurnEvents
  <2>2. ASSUME NEW o \in TurnEvents(B, u) PROVE o \in TurnEvents(E, u)
    <3>1. o \in DOMAIN B /\ u <= o /\ \A v \in TurnStarts(B) : v <= o => v <= u
      BY DEF TurnEvents
    <3>2. ASSUME NEW v \in TurnStarts(E), v <= o PROVE v <= u
      <4>1. v < k
        BY <3>1, <3>2, <1>1, <1>3
      <4>2. QED BY <4>1, <3>1, <3>2, <1>2
    <3>3. QED BY <3>1, <3>2, <1>1 DEF TurnEvents
  <2>3. QED BY <2>1, <2>2
<1>5. {v \in TurnStarts(B) : v < u} = {v \in TurnStarts(E) : v < u}
  BY <1>2, <1>3
<1>6. QED BY <1>4, <1>5 DEF Turn, TurnOrd

(***************************************************************************)
(* The turns of a suffix that begins at a turn's start are the turns of    *)
(* the whole, numbered from 0: the anchor's number restores turn_ord.      *)
(***************************************************************************)
LEMMA TurnFrom ==
    ASSUME NEW E, DOMAIN E \subseteq Nat, IsFiniteSet(DOMAIN E),
           NEW t \in TurnStarts(E), NEW u \in TurnStarts(E), t <= u
    PROVE  [Turn(EventsFrom(E, t), u) EXCEPT !.ord = TurnOrd(E, t) + @] = Turn(E, u)
<1> DEFINE F == EventsFrom(E, t)
           before == {v \in TurnStarts(E) : v < t}
           between == {v \in TurnStarts(F) : v < u}
<1>1. DOMAIN F = {x \in DOMAIN E : t <= x}
  BY DEF EventsFrom
<1>2. TurnStarts(F) = {v \in TurnStarts(E) : t <= v}
  BY StartsFrom
<1>3. TurnStarts(E) \subseteq DOMAIN E
  BY DEF TurnStarts
<1>4. TurnEvents(F, u) = TurnEvents(E, u)
  <2>1. ASSUME NEW o \in TurnEvents(E, u) PROVE o \in TurnEvents(F, u)
    <3>1. o \in DOMAIN E /\ u <= o /\ \A v \in TurnStarts(E) : v <= o => v <= u
      BY DEF TurnEvents
    <3>2. t <= o
      BY <3>1, <1>3
    <3>3. QED BY <3>1, <3>2, <1>1, <1>2 DEF TurnEvents
  <2>2. ASSUME NEW o \in TurnEvents(F, u) PROVE o \in TurnEvents(E, u)
    <3>1. o \in DOMAIN F /\ u <= o /\ \A v \in TurnStarts(F) : v <= o => v <= u
      BY DEF TurnEvents
    <3>2. ASSUME NEW v \in TurnStarts(E), v <= o PROVE v <= u
      <4>1. CASE t <= v
        BY <4>1, <3>1, <3>2, <1>2
      <4>2. CASE ~(t <= v)
        BY <4>2, <1>3
      <4>3. QED BY <4>1, <4>2
    <3>3. QED BY <3>1, <3>2, <1>1 DEF TurnEvents
  <2>3. QED BY <2>1, <2>2
<1>5. TurnOrd(E, t) + TurnOrd(F, u) = TurnOrd(E, u)
  <2>1. before \cup between = {v \in TurnStarts(E) : v < u}
    BY <1>2, <1>3
  <2>2. before \cap between = {}
    BY <1>2, <1>3
  <2>3. IsFiniteSet(before) /\ IsFiniteSet(between)
    <3>1. before \in SUBSET DOMAIN E /\ between \in SUBSET DOMAIN E
      BY <1>2, <1>3
    <3>2. QED BY <3>1, FS_Subset
  <2>4. Cardinality(before \cup between)
          = Cardinality(before) + Cardinality(between) - Cardinality(before \cap between)
    BY <2>3, FS_Union
  <2>5. Cardinality(before) \in Nat /\ Cardinality(between) \in Nat
    BY <2>3, FS_CardinalityType
  <2>6. Cardinality(before \cap between) = 0
    BY <2>2, FS_EmptySet
  <2>7. Cardinality(before \cup between) = Cardinality(before) + Cardinality(between)
    <3> DEFINE m == Cardinality(before)
               n == Cardinality(between)
               p == Cardinality(before \cap between)
               q == Cardinality(before \cup between)
    <3>1. q = m + n - p /\ p = 0 /\ m \in Nat /\ n \in Nat
      BY <2>4, <2>5, <2>6
    <3> HIDE DEF m, n, p, q
    <3>2. q = m + n
      BY <3>1
    <3>3. QED BY <3>2 DEF m, n, q
  <2>8. TurnOrd(E, t) = Cardinality(before) /\ TurnOrd(F, u) = Cardinality(between)
    BY DEF TurnOrd
  <2>9. TurnOrd(E, u) = Cardinality(before \cup between)
    BY <2>1 DEF TurnOrd
  <2>10. QED BY <2>7, <2>8, <2>9
<1>6. QED BY <1>4, <1>5 DEF Turn

(***************************************************************************)
(* Replacing the turns from t on by the suffix's yields the full grouping, *)
(* when the turns stored before t are those of all events.                 *)
(***************************************************************************)
LEMMA SuffixReplaced ==
    ASSUME NEW E, DOMAIN E \subseteq Nat, IsFiniteSet(DOMAIN E),
           NEW B, TurnStarts(B) \subseteq Nat,
           NEW t \in TurnStarts(E), t \in TurnStarts(B),
           {u \in TurnStarts(B) : u < t} = {u \in TurnStarts(E) : u < t},
           \A u \in TurnStarts(E) : u < t => Turn(B, u) = Turn(E, u)
    PROVE  ApplyPlan(GroupIntoTurns(B), SuffixPlan(E, Turn(B, t))) = GroupIntoTurns(E)
<1> DEFINE F == EventsFrom(E, t)
           turns == GroupIntoTurns(B)
           anchor == Turn(B, t)
<1>1. TurnStarts(E) \subseteq DOMAIN E /\ t \in Nat
  BY DEF TurnStarts
<1>2. anchor.id = t /\ anchor.ord = TurnOrd(E, t)
  BY DEF Turn, TurnOrd
<1>3. TurnStarts(F) = {u \in TurnStarts(E) : t <= u}
  BY StartsFrom
<1>4. {x \in turns : x.id < t} = {Turn(E, u) : u \in {v \in TurnStarts(E) : v < t}}
  <2>1. ASSUME NEW x \in turns, x.id < t
        PROVE  x \in {Turn(E, u) : u \in {v \in TurnStarts(E) : v < t}}
    BY <2>1, TurnIds
  <2>2. ASSUME NEW u \in TurnStarts(E), u < t
        PROVE  Turn(E, u) \in turns /\ Turn(E, u).id < t
    <3>1. u \in TurnStarts(B) /\ Turn(B, u) = Turn(E, u)
      BY <2>2
    <3>2. Turn(B, u) \in turns
      BY <3>1 DEF GroupIntoTurns
    <3>3. Turn(E, u).id = u
      BY DEF Turn
    <3>4. QED BY <3>1, <3>2, <3>3, <2>2
  <2>3. QED BY <2>1, <2>2
<1> HIDE DEF anchor
<1>5. SuffixPlan(E, anchor).turns = {Turn(E, u) : u \in {v \in TurnStarts(E) : t <= v}}
  <2>1. \A u \in TurnStarts(F) :
           [Turn(F, u) EXCEPT !.ord = anchor.ord + @] = Turn(E, u)
    BY <1>2, <1>3, TurnFrom
  <2>2. SuffixPlan(E, anchor).turns
          = {[Turn(F, u) EXCEPT !.ord = anchor.ord + @] : u \in TurnStarts(F)}
    BY <1>2 DEF SuffixPlan, GroupIntoTurns
  <2>3. {[Turn(F, u) EXCEPT !.ord = anchor.ord + @] : u \in TurnStarts(F)}
          = {Turn(E, u) : u \in TurnStarts(F)}
    BY <2>1
  <2>4. QED BY <2>2, <2>3, <1>3
<1>6. ApplyPlan(turns, SuffixPlan(E, anchor))
        = {x \in turns : x.id < t} \cup SuffixPlan(E, anchor).turns
  BY <1>2 DEF ApplyPlan, SuffixPlan
<1>7. GroupIntoTurns(E) = {Turn(E, u) : u \in {v \in TurnStarts(E) : v < t}}
                            \cup {Turn(E, u) : u \in {v \in TurnStarts(E) : t <= v}}
  <2>1. TurnStarts(E) = {v \in TurnStarts(E) : v < t} \cup {v \in TurnStarts(E) : t <= v}
    BY <1>1
  <2>2. QED BY <2>1 DEF GroupIntoTurns
<1>8. QED BY <1>4, <1>5, <1>6, <1>7 DEF anchor

(***************************************************************************)
(* Places number the events in the order of time.                          *)
(***************************************************************************)
LEMMA PlaceOrder ==
    ASSUME NEW E, DOMAIN E \subseteq Nat, IsFiniteSet(DOMAIN E), NEW T, TimesOf(E, T),
           NEW p \in DOMAIN E, NEW q \in DOMAIN E
    PROVE  /\ Place(E, T, p) \in Nat /\ Place(E, T, q) \in Nat
           /\ Earlier(T, p, q) <=> Place(E, T, p) < Place(E, T, q)
<1> DEFINE before(o) == {x \in DOMAIN E : Earlier(T, x, o)}
<1>1. ASSUME NEW o \in DOMAIN E
      PROVE  IsFiniteSet(before(o)) /\ Place(E, T, o) = Cardinality(before(o))
               /\ Place(E, T, o) \in Nat
  <2>1. before(o) \in SUBSET DOMAIN E
    OBVIOUS
  <2>2. IsFiniteSet(before(o))
    BY <2>1, FS_Subset
  <2>3. QED BY <2>2, FS_CardinalityType DEF Place
<1>2. \A x \in DOMAIN E : x \in Nat /\ T[x] \in Nat
  BY DEF TimesOf
<1>3. ASSUME NEW a \in DOMAIN E, NEW b \in DOMAIN E, Earlier(T, a, b)
      PROVE  Place(E, T, a) < Place(E, T, b)
  <2>1. before(a) \in SUBSET before(b)
    BY <1>2, <1>3 DEF Earlier
  <2>2. a \in before(b) /\ a \notin before(a)
    BY <1>2, <1>3 DEF Earlier
  <2> HIDE DEF before
  <2>3. Cardinality(before(a)) <= Cardinality(before(b))
          /\ Cardinality(before(a)) # Cardinality(before(b))
    BY <1>1, <2>1, <2>2, FS_Subset
  <2>4. QED BY <1>1, <2>3
<1>4. Earlier(T, p, q) \/ p = q \/ Earlier(T, q, p)
  BY <1>2 DEF Earlier
<1> HIDE DEF before
<1>5. QED BY <1>1, <1>3, <1>4

(***************************************************************************)
(* Sorting renumbers the events: each keeps its kind, and the offset is    *)
(* found again from the place.                                             *)
(***************************************************************************)
LEMMA SortedEvents ==
    ASSUME NEW E, DOMAIN E \subseteq Nat, IsFiniteSet(DOMAIN E), NEW T, TimesOf(E, T)
    PROVE  LET X == Sorted(E, T) IN
           /\ DOMAIN X \subseteq Nat
           /\ \A o \in DOMAIN E : /\ Place(E, T, o) \in DOMAIN X
                                 /\ OffsetAt(E, T, Place(E, T, o)) = o
                                 /\ X[Place(E, T, o)] = E[o]
           /\ \A i \in DOMAIN X : /\ OffsetAt(E, T, i) \in DOMAIN E
                                 /\ Place(E, T, OffsetAt(E, T, i)) = i
                                 /\ X[i] = E[OffsetAt(E, T, i)]
<1> DEFINE X == Sorted(E, T)
<1>1. DOMAIN X = {Place(E, T, o) : o \in DOMAIN E}
        /\ \A i \in DOMAIN X : X[i] = E[OffsetAt(E, T, i)]
  BY DEF Sorted
<1>2. ASSUME NEW p \in DOMAIN E, NEW q \in DOMAIN E, Place(E, T, p) = Place(E, T, q)
      PROVE  p = q
  <2>1. /\ Place(E, T, p) \in Nat
        /\ Earlier(T, p, q) <=> Place(E, T, p) < Place(E, T, q)
        /\ Earlier(T, q, p) <=> Place(E, T, q) < Place(E, T, p)
    BY PlaceOrder
  <2>2. ~Earlier(T, p, q) /\ ~Earlier(T, q, p)
    BY <1>2, <2>1
  <2>3. p \in Nat /\ q \in Nat /\ T[p] \in Nat /\ T[q] \in Nat
    BY DEF TimesOf
  <2>4. QED BY <2>2, <2>3 DEF Earlier
<1>3. ASSUME NEW o \in DOMAIN E PROVE OffsetAt(E, T, Place(E, T, o)) = o
  <2>1. /\ OffsetAt(E, T, Place(E, T, o)) \in DOMAIN E
        /\ Place(E, T, OffsetAt(E, T, Place(E, T, o))) = Place(E, T, o)
    BY DEF OffsetAt
  <2>2. QED BY <1>2, <2>1
<1>4. \A o \in DOMAIN E : Place(E, T, o) \in Nat
  BY PlaceOrder
<1>5. QED BY <1>1, <1>3, <1>4

(***************************************************************************)
(* Sorting by time is sorting by offset while the times rise with the      *)
(* offsets, and both orders then group the events alike.                   *)
(***************************************************************************)
LEMMA SameOrder ==
    ASSUME NEW E, DOMAIN E \subseteq Nat, IsFiniteSet(DOMAIN E), NEW T, TimesRise(E, T),
           NEW p \in DOMAIN E, NEW q \in DOMAIN E
    PROVE  /\ Place(E, T, p) \in Nat /\ Place(E, T, q) \in Nat
           /\ p < q <=> Place(E, T, p) < Place(E, T, q)
           /\ p <= q <=> Place(E, T, p) <= Place(E, T, q)
<1>1. p \in Nat /\ q \in Nat /\ T[p] \in Nat /\ T[q] \in Nat /\ TimesOf(E, T)
        /\ (p <= q => T[p] <= T[q]) /\ (q <= p => T[q] <= T[p])
  BY DEF TimesRise, TimesOf
<1>2. (Earlier(T, p, q) <=> p < q) /\ (Earlier(T, q, p) <=> q < p)
  BY <1>1 DEF Earlier
<1>3. QED BY <1>1, <1>2, PlaceOrder

LEMMA SortedStarts ==
    ASSUME NEW E, DOMAIN E \subseteq Nat, IsFiniteSet(DOMAIN E), NEW T, TimesRise(E, T)
    PROVE  /\ TurnStarts(Sorted(E, T)) \subseteq DOMAIN Sorted(E, T)
           /\ \A o \in DOMAIN E :
                 Place(E, T, o) \in TurnStarts(Sorted(E, T)) <=> o \in TurnStarts(E)
<1> DEFINE X == Sorted(E, T)
<1>1. TimesOf(E, T)
  BY DEF TimesRise
<1>2. ASSUME NEW o \in DOMAIN E
      PROVE  StartsTurn(X, Place(E, T, o)) <=> StartsTurn(E, o)
  <2>1. Place(E, T, o) \in DOMAIN X /\ X[Place(E, T, o)] = E[o]
    BY <1>1, SortedEvents
  <2>2. ASSUME NEW q \in DOMAIN E
        PROVE  Place(E, T, q) \in DOMAIN X
                 /\ (o <= q <=> Place(E, T, o) <= Place(E, T, q))
    BY <1>1, SortedEvents, SameOrder
  <2>3. ASSUME NEW i \in DOMAIN X
        PROVE  OffsetAt(E, T, i) \in DOMAIN E /\ Place(E, T, OffsetAt(E, T, i)) = i
    BY <1>1, SortedEvents
  <2> HIDE DEF X
  <2>4. (\A i \in DOMAIN X : Place(E, T, o) <= i) <=> (\A q \in DOMAIN E : o <= q)
    BY <2>2, <2>3
  <2>5. QED BY <2>1, <2>4 DEF StartsTurn
<1>3. \A o \in DOMAIN E : Place(E, T, o) \in DOMAIN X
  BY <1>1, SortedEvents
<1> HIDE DEF X
<1>4. TurnStarts(X) \subseteq DOMAIN X
        /\ \A o \in DOMAIN E : Place(E, T, o) \in TurnStarts(X) <=> o \in TurnStarts(E)
  BY <1>2, <1>3 DEF TurnStarts
<1>5. QED BY <1>4 DEF X

LEMMA TimeOrderIsOffsetOrder ==
    ASSUME NEW E, DOMAIN E \subseteq Nat, IsFiniteSet(DOMAIN E), NEW T, TimesRise(E, T)
    PROVE  GroupInTime(E, T) = GroupIntoTurns(E)
<1> DEFINE X == Sorted(E, T)
           at(i) == OffsetAt(E, T, i)
           place(o) == Place(E, T, o)
           back(t) == [id |-> at(t.id), ord |-> t.ord, events |-> {at(i) : i \in t.events}]
<1>1. TimesOf(E, T)
  BY DEF TimesRise
<1>2. \A o \in DOMAIN E : place(o) \in DOMAIN X /\ at(place(o)) = o
  BY <1>1, SortedEvents
<1>3. \A i \in DOMAIN X : at(i) \in DOMAIN E /\ place(at(i)) = i
  BY <1>1, SortedEvents
<1>4. \A p, q \in DOMAIN E :
         (p < q <=> place(p) < place(q)) /\ (p <= q <=> place(p) <= place(q))
  BY SameOrder
<1>5. TurnStarts(X) \subseteq DOMAIN X
        /\ \A o \in DOMAIN E : place(o) \in TurnStarts(X) <=> o \in TurnStarts(E)
  BY SortedStarts
<1>6. TurnStarts(E) \subseteq DOMAIN E
  BY DEF TurnStarts
<1> HIDE DEF X, at, place
<1>7. ASSUME NEW t \in TurnStarts(E)
      PROVE  {at(i) : i \in TurnEvents(X, place(t))} = TurnEvents(E, t)
  <2>1. ASSUME NEW o \in DOMAIN E
        PROVE  place(o) \in TurnEvents(X, place(t)) <=> o \in TurnEvents(E, t)
    <3>1. t <= o <=> place(t) <= place(o)
      BY <1>4, <1>6
    <3>2. (\A u \in TurnStarts(X) : u <= place(o) => u <= place(t))
            <=> (\A u \in TurnStarts(E) : u <= o => u <= t)
      <4>1. ASSUME \A u \in TurnStarts(X) : u <= place(o) => u <= place(t),
                   NEW u \in TurnStarts(E), u <= o
            PROVE  u <= t
        BY <4>1, <1>4, <1>5, <1>6
      <4>2. ASSUME \A u \in TurnStarts(E) : u <= o => u <= t,
                   NEW i \in TurnStarts(X), i <= place(o)
            PROVE  i <= place(t)
        <5>1. at(i) \in TurnStarts(E) /\ place(at(i)) = i
          BY <1>3, <1>5
        <5>2. QED BY <4>2, <5>1, <1>4, <1>6
      <4>3. QED BY <4>1, <4>2
    <3>3. QED BY <3>1, <3>2, <1>2 DEF TurnEvents
  <2>2. TurnEvents(X, place(t)) \subseteq DOMAIN X /\ TurnEvents(E, t) \subseteq DOMAIN E
    BY DEF TurnEvents
  <2>3. QED BY <2>1, <2>2, <1>2, <1>3
<1>8. ASSUME NEW t \in TurnStarts(E)
      PROVE  TurnOrd(X, place(t)) = TurnOrd(E, t)
  <2> DEFINE L == {u \in TurnStarts(E) : u < t}
             R == {u \in TurnStarts(X) : u < place(t)}
             f == [u \in L |-> place(u)]
  <2>1. \A u \in L : place(u) \in R /\ at(place(u)) = u
    BY <1>2, <1>4, <1>5, <1>6
  <2>2. ASSUME NEW i \in R PROVE at(i) \in L /\ place(at(i)) = i
    BY <1>3, <1>4, <1>5, <1>6
  <2>3. f \in Bijection(L, R)
    <3>1. f \in [L -> R] /\ \A u \in L : f[u] = place(u)
      BY <2>1
    <3> HIDE DEF f, L, R
    <3>2. \A u, v \in L : f[u] = f[v] => u = v
      BY <2>1, <3>1
    <3>3. \A i \in R : \E u \in L : f[u] = i
      BY <2>2, <3>1
    <3>4. QED BY <3>1, <3>2, <3>3 DEF Bijection, Injection, Surjection, IsInjective
  <2>4. IsFiniteSet(L)
    <3>1. L \in SUBSET DOMAIN E
      BY <1>6
    <3>2. QED BY <3>1, FS_Subset
  <2> HIDE DEF f, L, R
  <2>5. ExistsBijection(L, R)
    BY <2>3 DEF ExistsBijection
  <2>6. Cardinality(R) = Cardinality(L)
    BY <2>4, <2>5, FS_Bijection
  <2>7. QED BY <2>6 DEF TurnOrd, L, R
<1>9. ASSUME NEW t \in TurnStarts(E)
      PROVE  back(Turn(X, place(t))) = Turn(E, t)
  <2>1. at(place(t)) = t
    BY <1>2, <1>6
  <2>2. QED BY <2>1, <1>7, <1>8 DEF Turn
<1>10. GroupInTime(E, T) = {back(Turn(X, i)) : i \in TurnStarts(X)}
  BY DEF GroupInTime, GroupIntoTurns, X, at
<1> HIDE DEF back
<1>11. {back(Turn(X, i)) : i \in TurnStarts(X)} = {Turn(E, t) : t \in TurnStarts(E)}
  <2>1. \A i \in TurnStarts(X) : at(i) \in TurnStarts(E) /\ place(at(i)) = i
    BY <1>3, <1>5
  <2>2. \A t \in TurnStarts(E) : place(t) \in TurnStarts(X)
    BY <1>5, <1>6
  <2>3. QED BY <2>1, <2>2, <1>9
<1>12. QED BY <1>10, <1>11 DEF GroupIntoTurns

(***************************************************************************)
(* The two outcomes of reading the anchor: everything is grouped again, or *)
(* a stored turn that starts no later than the first inserted event is     *)
(* where the suffix begins.                                                *)
(***************************************************************************)
LEMMA PlanOfRebuild ==
    ASSUME NEW E, NEW T, NEW B, TurnStarts(B) \subseteq Nat, NEW first \in Nat
    PROVE  LET turns == GroupIntoTurns(B)
               p == PlanAfterInsert(turns, E, T, first)
           IN  \/ ApplyPlan(turns, p) = GroupInTime(E, T)
               \/ \E t \in TurnStarts(B) : t <= first /\ p = SuffixPlan(E, Turn(B, t))
<1> DEFINE turns == GroupIntoTurns(B)
           anchors == RebuildAnchor(turns, first)
           anchor == CHOOSE a \in anchors : TRUE
<1>1. CASE PlanAfterInsert(turns, E, T, first) = FullPlan(E, T)
  <2>1. {x \in turns : x.id < 0} = {}
    BY TurnIds
  <2>2. QED BY <1>1, <2>1 DEF ApplyPlan, FullPlan
<1>2. CASE PlanAfterInsert(turns, E, T, first) # FullPlan(E, T)
  <2>1. anchors # {} /\ PlanAfterInsert(turns, E, T, first) = SuffixPlan(E, anchor)
    BY <1>2 DEF PlanAfterInsert
  <2>2. anchor \in turns /\ anchor.id <= first
    BY <2>1 DEF RebuildAnchor
  <2> HIDE DEF anchor, anchors
  <2>3. anchor.id \in TurnStarts(B) /\ anchor = Turn(B, anchor.id)
    BY <2>2, TurnIds
  <2>4. QED BY <2>1, <2>2, <2>3
<1>3. QED BY <1>1, <1>2

(***************************************************************************)
(* rebuild_session_projection_after_insert against                         *)
(* rebuild_session_projection: if the stored timeline groups the events    *)
(* below some offset k, then replacing only the turns from the anchor on   *)
(* yields the grouping of all stored events, whatever was inserted, as     *)
(* long as the times of the events rise with their offsets.                *)
(***************************************************************************)
THEOREM IncrementalRebuildIsFull ==
    ASSUME NEW E, DOMAIN E \subseteq Nat, IsFiniteSet(DOMAIN E), NEW T, TimesRise(E, T),
           NEW k \in Nat, NEW first \in Nat,
           NEW turns, turns = GroupIntoTurns(EventsBelow(E, k))
    PROVE  ApplyPlan(turns, PlanAfterInsert(turns, E, T, first)) = GroupIntoTurns(E)
<1> DEFINE B == EventsBelow(E, k)
<1>1. TurnStarts(E) \subseteq Nat
  BY DEF TurnStarts
<1>2. TurnStarts(B) = {u \in TurnStarts(E) : u < k}
  BY StartsBelow
<1> HIDE DEF B
<1>3. ASSUME NEW t \in TurnStarts(B)
      PROVE  ApplyPlan(turns, SuffixPlan(E, Turn(B, t))) = GroupIntoTurns(E)
  <2>1. t \in TurnStarts(E) /\ t < k /\ t \in Nat
    BY <1>1, <1>2
  <2>2. {u \in TurnStarts(B) : u < t} = {u \in TurnStarts(E) : u < t}
    BY <1>1, <1>2, <2>1
  <2>3. \A u \in TurnStarts(E) : u < t => Turn(B, u) = Turn(E, u)
    BY <2>1, TurnBelow DEF B
  <2>4. TurnStarts(B) \subseteq Nat
    BY <1>1, <1>2
  <2>5. QED BY <2>1, <2>2, <2>3, <2>4, SuffixReplaced DEF B
<1>4. GroupInTime(E, T) = GroupIntoTurns(E)
  BY TimeOrderIsOffsetOrder
<1>5. QED BY <1>1, <1>2, <1>3, <1>4, PlanOfRebuild DEF B

(***************************************************************************)
(* What EventsBelow keeps of a selection of the events, when the others    *)
(* all come later.                                                         *)
(***************************************************************************)
LEMMA BelowOfKnown ==
    ASSUME NEW E, DOMAIN E \subseteq Nat, NEW known \in SUBSET DOMAIN E,
           NEW k \in Nat, \A o \in DOMAIN E \ known : k <= o
    PROVE  EventsBelow(EventsOf(E, known), k) = EventsBelow(E, k)
<1> DEFINE B == EventsOf(E, known)
<1>1. DOMAIN B = known /\ \A q \in known : B[q] = E[q]
  BY DEF EventsOf
<1>2. {x \in DOMAIN B : x < k} = {x \in DOMAIN E : x < k}
  <2>1. ASSUME NEW x \in DOMAIN E, x < k PROVE x \in known
    <3>1. x \in Nat /\ ~(k <= x)
      BY <2>1
    <3>2. QED BY <3>1
  <2>2. QED BY <1>1, <2>1
<1>3. \A x \in {y \in DOMAIN E : y < k} : B[x] = E[x]
  BY <1>1, <1>2
<1>4. QED BY <1>2, <1>3 DEF EventsBelow

(***************************************************************************)
(* A turn of the known events that starts no later than every other event  *)
(* also starts a turn among all of them; so do the turns before it, and    *)
(* those keep their events and their numbers.                              *)
(***************************************************************************)
LEMMA AnchorOfKnown ==
    ASSUME NEW E, DOMAIN E \subseteq Nat, NEW known \in SUBSET DOMAIN E,
           NEW t \in TurnStarts(EventsOf(E, known)),
           \A o \in DOMAIN E \ known : t <= o
    PROVE  /\ t \in TurnStarts(E)
           /\ {u \in TurnStarts(EventsOf(E, known)) : u < t} = {u \in TurnStarts(E) : u < t}
           /\ \A u \in TurnStarts(E) : u < t => Turn(EventsOf(E, known), u) = Turn(E, u)
<1> DEFINE B == EventsOf(E, known)
<1>1. DOMAIN B = known /\ (\A q \in known : B[q] = E[q]) /\ DOMAIN B \subseteq Nat
  BY DEF EventsOf
<1>2. t \in known /\ t \in DOMAIN E /\ t \in Nat /\ StartsTurn(B, t)
  BY <1>1 DEF TurnStarts
<1>3. t \in TurnStarts(E)
  <2>1. CASE E[t] \in Prompts
    BY <2>1, <1>2 DEF TurnStarts, StartsTurn
  <2>2. CASE E[t] \notin Prompts
    <3>1. \A q \in known : t <= q
      BY <2>2, <1>1, <1>2 DEF StartsTurn
    <3>2. \A q \in DOMAIN E : t <= q
      BY <3>1
    <3>3. QED BY <3>2, <1>2 DEF TurnStarts, StartsTurn
  <2>3. QED BY <2>1, <2>2
<1>4. t + 1 \in Nat /\ \A o \in DOMAIN E \ known : t + 1 <= o
  <2>1. ASSUME NEW o \in DOMAIN E \ known PROVE t + 1 <= o
    <3>1. o \in Nat /\ t <= o /\ o # t
      BY <1>2
    <3>2. QED BY <1>2, <3>1
  <2>2. QED BY <2>1, <1>2
<1>5. EventsBelow(B, t) = EventsBelow(E, t) /\ EventsBelow(B, t + 1) = EventsBelow(E, t + 1)
  BY <1>2, <1>4, BelowOfKnown
<1>6. {u \in TurnStarts(B) : u < t} = {u \in TurnStarts(E) : u < t}
  <2>1. TurnStarts(EventsBelow(B, t)) = {u \in TurnStarts(B) : u < t}
    BY <1>1, <1>2, StartsBelow
  <2>2. TurnStarts(EventsBelow(E, t)) = {u \in TurnStarts(E) : u < t}
    BY <1>2, StartsBelow
  <2>3. QED BY <1>5, <2>1, <2>2
<1>7. ASSUME NEW u \in TurnStarts(E), u < t PROVE Turn(B, u) = Turn(E, u)
  <2>1. t < t + 1 /\ u \in TurnStarts(B)
    BY <1>2, <1>6, <1>7
  <2>2. Turn(EventsBelow(B, t + 1), u) = Turn(B, u)
    BY <1>1, <1>4, <1>7, <2>1, TurnBelow
  <2>3. Turn(EventsBelow(E, t + 1), u) = Turn(E, u)
    BY <1>3, <1>4, <1>7, <2>1, TurnBelow
  <2>4. QED BY <1>5, <2>2, <2>3
<1>8. QED BY <1>3, <1>6, <1>7

(***************************************************************************)
(* When the events inserted since lie between older ones and have any      *)
(* times, a rebuild from the first inserted event yields the grouping of   *)
(* all stored events in one of the two orders the code has, by offset or   *)
(* by time, and no mixture of them, if the timeline was grouped by offset  *)
(* before (rebuild_session_projection_after_insert).                       *)
(***************************************************************************)
THEOREM RebuildFromFirstIsFull ==
    ASSUME NEW E, DOMAIN E \subseteq Nat, IsFiniteSet(DOMAIN E), NEW T,
           NEW known \in SUBSET DOMAIN E, NEW first \in Nat,
           \A o \in DOMAIN E \ known : first <= o,
           NEW turns, turns = GroupIntoTurns(EventsOf(E, known))
    PROVE  ApplyPlan(turns, PlanAfterInsert(turns, E, T, first))
             \in {GroupIntoTurns(E), GroupInTime(E, T)}
<1> DEFINE B == EventsOf(E, known)
<1>1. TurnStarts(B) \subseteq Nat
  BY DEF TurnStarts, EventsOf
<1>2. ASSUME NEW t \in TurnStarts(B), t <= first
      PROVE  ApplyPlan(turns, SuffixPlan(E, Turn(B, t))) = GroupIntoTurns(E)
  <2>1. ASSUME NEW o \in DOMAIN E \ known PROVE t <= o
    <3>1. first <= o /\ o \in Nat /\ t \in Nat
      BY <1>1
    <3>2. QED BY <3>1, <1>2
  <2>2. /\ t \in TurnStarts(E)
        /\ {u \in TurnStarts(B) : u < t} = {u \in TurnStarts(E) : u < t}
        /\ \A u \in TurnStarts(E) : u < t => Turn(B, u) = Turn(E, u)
    BY <2>1, AnchorOfKnown
  <2> HIDE DEF B
  <2>3. QED BY <1>1, <2>2, SuffixReplaced DEF B
<1>3. QED BY <1>1, <1>2, PlanOfRebuild
=============================================================================
