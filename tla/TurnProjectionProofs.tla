------------------------ MODULE TurnProjectionProofs ------------------------
(***************************************************************************)
(* What a session is read with and what is made of it: the context carried *)
(* along a Codex transcript is the one read back from its rows, and the    *)
(* two renderings of a turn, the conversation and the document, tell the   *)
(* same.  The turns of more events are those of fewer up to an anchor, and *)
(* what a rebuild makes of the events from there on.                       *)
(*                                                                         *)
(* A sequence is filtered, flattened and folded over by recursion; what    *)
(* that makes of any sequence is found by induction over its prefixes, for *)
(* which a set of sequences stands in the place of a predicate.            *)
(***************************************************************************)
EXTENDS TimelineProperties, FiniteSetTheorems, SequenceTheorems, WellFoundedInduction, TLAPS

-----------------------------------------------------------------------------
(* Induction, over a set in the place of a predicate.                      *)

LEMMA SmallestOf ==
    ASSUME NEW S \in SUBSET Nat, S # {}
    PROVE  \E m \in S : \A q \in S : m <= q
<1>1. PICK m \in S : \A q \in S : ~(<<q, m>> \in OpToRel(<, Nat))
  BY NatLessThanWellFounded, WFMin
<1>2. \A i, j \in Nat : i < j => <<i, j>> \in OpToRel(<, Nat)
  BY DEF OpToRel
<1>3. \A q \in S : ~(q < m)
  BY <1>1, <1>2
<1> QED BY <1>3

LEMMA LargestOf ==
    ASSUME NEW S \in SUBSET Nat, S # {}, NEW b \in Nat, \A q \in S : q <= b
    PROVE  \E m \in S : \A q \in S : q <= m
<1> DEFINE gaps == {n \in Nat : b - n \in S}
<1>1. gaps # {}
  <2>1. PICK q \in S : q <= b
    OBVIOUS
  <2> QED BY <2>1, b - q \in gaps
<1>2. PICK g \in gaps : \A h \in gaps : ~(<<h, g>> \in OpToRel(<, Nat))
  BY <1>1, NatLessThanWellFounded, WFMin
<1>3. \A h \in gaps : h >= g
  <2>1. \A h \in gaps : h \in Nat /\ g \in Nat /\ ~(h < g)
    <3> HIDE DEF gaps
    <3>1. gaps \subseteq Nat
      BY DEF gaps
    <3>2. \A i, j \in Nat : i < j => <<i, j>> \in OpToRel(<, Nat)
      BY DEF OpToRel
    <3> QED BY <1>2, <3>1, <3>2
  <2> QED BY <2>1
<1>4. ASSUME NEW q \in S PROVE q <= b - g
  <2>1. b - q \in gaps
    OBVIOUS
  <2> QED BY <1>3, <2>1
<1> QED BY <1>4

LEMMA NumbersIn ==
    ASSUME NEW G, 0 \in G, \A n \in Nat : n \in G => n + 1 \in G
    PROVE  \A n \in Nat : n \in G
<1> SUFFICES ASSUME NEW n \in Nat, n \notin G PROVE FALSE
  OBVIOUS
<1>1. PICK m \in Nat \ G : \A q \in Nat \ G : m <= q
  <2>1. Nat \ G \in SUBSET Nat /\ Nat \ G # {}
    OBVIOUS
  <2> QED BY <2>1, SmallestOf
<1>2. m - 1 \in Nat /\ m - 1 \in G
  BY <1>1
<1> QED BY <1>1, <1>2

LEMMA SequencesIn ==
    ASSUME NEW S, NEW G, <<>> \in G, \A s \in Seq(S), x \in S : s \in G => Append(s, x) \in G
    PROVE  \A s \in Seq(S) : s \in G
<1> DEFINE H == {n \in Nat : \A s \in Seq(S) : Len(s) = n => s \in G}
<1>1. 0 \in H
  <2>1. \A s \in Seq(S) : Len(s) = 0 => s = <<>>
    BY EmptySeq
  <2> QED BY <2>1
<1>2. ASSUME NEW n \in Nat, n \in H PROVE n + 1 \in H
  <2> SUFFICES ASSUME NEW s \in Seq(S), Len(s) = n + 1 PROVE s \in G
    BY <1>2
  <2>1. s # <<>>
    BY EmptySeq
  <2>2. PICK t \in Seq(S), x \in S : s = Append(t, x)
    BY <2>1, SequenceEmptyOrAppend
  <2>3. Len(t) = n
    BY <2>2, AppendProperties, LenProperties
  <2> QED BY <1>2, <2>2, <2>3
<1>3. \A n \in Nat : n \in H
  <2> HIDE DEF H
  <2> QED BY <1>1, <1>2, NumbersIn
<1> QED BY <1>3, LenProperties

-----------------------------------------------------------------------------
(* The context of a Codex transcript: the one carried along it, and the    *)
(* one read back from the rows stored before, are the same one.            *)
(*                                                                         *)
(* Follows(ctx, E, s, from) says what a pass knows that has come to the    *)
(* offset from, when rows beyond it may be stored already: each part of    *)
(* ctx is that of a row after which no row before from has another.        *)

\* Rows at offsets up to a bound.
Rows(E, bound) ==
    /\ bound \in Nat
    /\ DOMAIN E \subseteq 0..bound
    /\ \A o \in DOMAIN E : KindsAgree(E[o])

-----------------------------------------------------------------------------
(* One part of the context: f maps the offsets where it is given to it.    *)

Loaded(init, f) == IF DOMAIN f = {} THEN init ELSE f[LastIn(DOMAIN f)]

Known(v, init, f, from) ==
    \/ v = init /\ \A q \in DOMAIN f : q >= from
    \/ \E m \in DOMAIN f : v = f[m] /\ \A q \in DOMAIN f : q > m => q >= from

LEMMA LastInIsLast ==
    ASSUME NEW b \in Nat, NEW S \in SUBSET (0..b), S # {}
    PROVE  LastIn(S) \in S /\ \A q \in S : q <= LastIn(S)
<1>1. S \in SUBSET Nat /\ \A q \in S : q <= b
  OBVIOUS
<1>2. \E m \in S : \A q \in S : q <= m
  BY <1>1, LargestOf
<1> QED BY <1>2 DEF LastIn

LEMMA LoadedIsKnown ==
    ASSUME NEW b \in Nat, NEW f, DOMAIN f \subseteq 0..b, NEW init, NEW from \in Nat
    PROVE  Known(Loaded(init, f), init, f, from)
<1>1. CASE DOMAIN f = {}
  BY <1>1 DEF Loaded, Known
<1>2. CASE DOMAIN f # {}
  <2> DEFINE m == LastIn(DOMAIN f)
  <2>1. m \in DOMAIN f /\ \A q \in DOMAIN f : q <= m
    BY <1>2, LastInIsLast
  <2>2. \A q \in DOMAIN f : ~(q > m)
    BY <2>1
  <2> QED BY <1>2, <2>1, <2>2 DEF Loaded, Known
<1> QED BY <1>1, <1>2

LEMMA KnownIsLoaded ==
    ASSUME NEW b \in Nat, NEW f, DOMAIN f \subseteq 0..b, NEW init, NEW v, NEW from \in Nat,
           Known(v, init, f, from), \A q \in DOMAIN f : q < from
    PROVE  v = Loaded(init, f)
<1>1. CASE DOMAIN f = {}
  BY <1>1 DEF Loaded, Known
<1>2. CASE DOMAIN f # {}
  <2>1. PICK m \in DOMAIN f : v = f[m] /\ \A q \in DOMAIN f : q > m => q >= from
    BY <1>2 DEF Known
  <2>2. \A q \in DOMAIN f : q <= m
    BY <2>1
  <2>3. /\ LastIn(DOMAIN f) \in DOMAIN f
        /\ \A q \in DOMAIN f : q <= LastIn(DOMAIN f)
    BY <1>2, LastInIsLast
  <2>4. LastIn(DOMAIN f) = m
    BY <2>2, <2>3
  <2> QED BY <1>2, <2>1, <2>4 DEF Loaded
<1> QED BY <1>1, <1>2

LEMMA KnownNext ==
    ASSUME NEW f, DOMAIN f \subseteq Nat, NEW init, NEW v, NEW o \in Nat, NEW next \in Nat,
           Known(v, init, f, o), \A q \in DOMAIN f : q > o => q >= next
    PROVE  Known(IF o \in DOMAIN f THEN f[o] ELSE v, init, f, next)
<1>1. CASE o \in DOMAIN f
  BY <1>1 DEF Known
<1>2. CASE o \notin DOMAIN f
  <2>1. \A q \in DOMAIN f : q >= o => q >= next
    BY <1>2
  <2> QED BY <1>2, <2>1 DEF Known
<1> QED BY <1>1, <1>2

LEMMA KnownGrow ==
    ASSUME NEW f, NEW g, DOMAIN g \subseteq Nat, NEW init, NEW v, NEW from \in Nat,
           Known(v, init, f, from), DOMAIN f \subseteq DOMAIN g,
           \A q \in DOMAIN f : g[q] = f[q], \A q \in DOMAIN g \ DOMAIN f : q >= from
    PROVE  Known(v, init, g, from)
<1> QED BY DEF Known

-----------------------------------------------------------------------------
(* The context.                                                            *)

Metas == {"session_meta"}
Openers == {"turn_context", "task_started"}

MetaOf(E, s) ==
    [o \in OfKind(E, Metas) |-> <<OrElse(E[o].id, SessionId(s)), ParentSession(E[o])>>]

TurnOf(E) == [o \in OfKind(E, Openers) |-> E[o].turn]

NoMeta(s) == <<SessionId(s), Nil>>

Context(meta, turn) == [session |-> meta[1], parent |-> meta[2], turn |-> turn]

Follows(ctx, E, s, from) ==
    \E meta, turn :
        /\ ctx = Context(meta, turn)
        /\ Known(meta, NoMeta(s), MetaOf(E, s), from)
        /\ Known(turn, Nil, TurnOf(E), from)

LEMMA UpdateIs ==
    ASSUME NEW r, KindsAgree(r), NEW meta, NEW turn, NEW s
    PROVE  UpdateContext(Context(meta, turn), r, s)
           = Context(IF StoredKind(r) \in Metas
                     THEN <<OrElse(r.id, SessionId(s)), ParentSession(r)>> ELSE meta,
                     IF StoredKind(r) \in Openers THEN r.turn ELSE turn)
<1>1. CASE r.type = "session_meta"
  <2>1. ~OpensCodexTurn(r)
    BY <1>1 DEF OpensCodexTurn
  <2> QED BY <1>1, <2>1 DEF UpdateContext, Context, KindsAgree, Metas, Openers
<1>2. CASE r.type # "session_meta" /\ OpensCodexTurn(r)
  BY <1>2 DEF UpdateContext, Context, KindsAgree, Metas, Openers
<1>3. CASE r.type # "session_meta" /\ ~OpensCodexTurn(r)
  BY <1>3 DEF UpdateContext, Context, KindsAgree, Metas, Openers
<1> QED BY <1>1, <1>2, <1>3

LEMMA LoadIs ==
    ASSUME NEW E, NEW b, Rows(E, b), NEW s
    PROVE  LoadContext(E, s)
           = Context(Loaded(NoMeta(s), MetaOf(E, s)), Loaded(Nil, TurnOf(E)))
<1> DEFINE metas == OfKind(E, Metas)
           openers == OfKind(E, Openers)
           mid == UpdateWithLast(NewContext(s), E, metas, s)
<1>0. NewContext(s) = Context(NoMeta(s), Nil)
  BY DEF NewContext, Context, NoMeta
<1>1. metas \subseteq 0..b /\ openers \subseteq 0..b
  BY DEF OfKind, Rows
<1>2. mid = Context(Loaded(NoMeta(s), MetaOf(E, s)), Nil)
  <2>1. CASE metas = {}
    BY <1>0, <2>1 DEF UpdateWithLast, Loaded, MetaOf
  <2>2. CASE metas # {}
    <3> DEFINE m == LastIn(metas)
    <3>1. m \in metas
      BY <1>1, <2>2, LastInIsLast DEF Rows
    <3>2. KindsAgree(E[m]) /\ StoredKind(E[m]) \in Metas /\ StoredKind(E[m]) \notin Openers
      BY <3>1 DEF OfKind, Rows, Metas, Openers
    <3>3. UpdateContext(NewContext(s), E[m], s) = Context(MetaOf(E, s)[m], Nil)
      BY <1>0, <3>1, <3>2, UpdateIs DEF MetaOf
    <3>4. DOMAIN MetaOf(E, s) = metas
      BY DEF MetaOf
    <3> QED BY <2>2, <3>3, <3>4 DEF UpdateWithLast, Loaded
  <2> QED BY <2>1, <2>2
<1>3. LoadContext(E, s) = UpdateWithLast(mid, E, openers, s)
  BY DEF LoadContext, Metas, Openers
<1> DEFINE meta == Loaded(NoMeta(s), MetaOf(E, s))
<1>4. CASE openers = {}
  BY <1>2, <1>3, <1>4 DEF UpdateWithLast, Loaded, TurnOf
<1>5. CASE openers # {}
  <2> DEFINE m == LastIn(openers)
  <2>1. m \in openers
    BY <1>1, <1>5, LastInIsLast DEF Rows
  <2>2. KindsAgree(E[m]) /\ StoredKind(E[m]) \in Openers /\ StoredKind(E[m]) \notin Metas
    BY <2>1 DEF OfKind, Rows, Metas, Openers
  <2>3. UpdateContext(Context(meta, Nil), E[m], s) = Context(meta, TurnOf(E)[m])
    BY <2>1, <2>2, UpdateIs DEF TurnOf
  <2>4. DOMAIN TurnOf(E) = openers
    BY DEF TurnOf
  <2> QED BY <1>2, <1>3, <1>5, <2>3, <2>4 DEF UpdateWithLast, Loaded
<1> QED BY <1>4, <1>5

\* The domains of the parts.
LEMMA Parts ==
    ASSUME NEW E, NEW b, Rows(E, b), NEW s
    PROVE  /\ DOMAIN MetaOf(E, s) \subseteq DOMAIN E /\ DOMAIN TurnOf(E) \subseteq DOMAIN E
           /\ DOMAIN MetaOf(E, s) \subseteq 0..b /\ DOMAIN TurnOf(E) \subseteq 0..b
           /\ b \in Nat
<1> QED BY DEF MetaOf, TurnOf, OfKind, Rows

\* What is read back from the rows follows them, however many are beyond.
LEMMA LoadedFollows ==
    ASSUME NEW E, NEW b, Rows(E, b), NEW s, NEW from \in Nat
    PROVE  Follows(LoadContext(E, s), E, s, from)
<1>1. Known(Loaded(NoMeta(s), MetaOf(E, s)), NoMeta(s), MetaOf(E, s), from)
  BY Parts, LoadedIsKnown
<1>2. Known(Loaded(Nil, TurnOf(E)), Nil, TurnOf(E), from)
  BY Parts, LoadedIsKnown
<1> QED BY <1>1, <1>2, LoadIs DEF Follows

\* A pass that takes a stored row into its context still follows them.
LEMMA FollowsNext ==
    ASSUME NEW E, NEW b, Rows(E, b), NEW s, NEW ctx, NEW o \in DOMAIN E, NEW next \in Nat,
           Follows(ctx, E, s, o), \A q \in DOMAIN E : q > o => q >= next
    PROVE  Follows(UpdateContext(ctx, E[o], s), E, s, next)
<1>0. PICK meta, turn : /\ ctx = Context(meta, turn)
                        /\ Known(meta, NoMeta(s), MetaOf(E, s), o)
                        /\ Known(turn, Nil, TurnOf(E), o)
  BY DEF Follows
<1> DEFINE M == MetaOf(E, s)
           T == TurnOf(E)
           meta2 == IF o \in DOMAIN M THEN M[o] ELSE meta
           turn2 == IF o \in DOMAIN T THEN T[o] ELSE turn
<1>1. o \in Nat /\ KindsAgree(E[o])
  BY DEF Rows
<1>2. DOMAIN M \subseteq DOMAIN E /\ DOMAIN T \subseteq DOMAIN E
      /\ DOMAIN M \subseteq Nat /\ DOMAIN T \subseteq Nat
  <2> HIDE DEF M, T
  <2>1. DOMAIN M \subseteq DOMAIN E /\ DOMAIN T \subseteq DOMAIN E /\ DOMAIN E \subseteq Nat
    BY Parts DEF Rows, M, T
  <2> QED BY <2>1
<1>3. UpdateContext(ctx, E[o], s) = Context(meta2, turn2)
  <2>1. (o \in DOMAIN M <=> StoredKind(E[o]) \in Metas)
        /\ (o \in DOMAIN T <=> StoredKind(E[o]) \in Openers)
    BY DEF MetaOf, TurnOf, OfKind
  <2>2. /\ o \in DOMAIN M => M[o] = <<OrElse(E[o].id, SessionId(s)), ParentSession(E[o])>>
        /\ o \in DOMAIN T => T[o] = E[o].turn
    BY DEF MetaOf, TurnOf
  <2>3. UpdateContext(ctx, E[o], s)
        = Context(IF StoredKind(E[o]) \in Metas
                  THEN <<OrElse(E[o].id, SessionId(s)), ParentSession(E[o])>> ELSE meta,
                  IF StoredKind(E[o]) \in Openers THEN E[o].turn ELSE turn)
    BY <1>0, <1>1, UpdateIs
  <2> HIDE DEF M, T
  <2>4. meta2 = IF StoredKind(E[o]) \in Metas
                THEN <<OrElse(E[o].id, SessionId(s)), ParentSession(E[o])>> ELSE meta
    BY <2>1, <2>2
  <2>5. turn2 = IF StoredKind(E[o]) \in Openers THEN E[o].turn ELSE turn
    BY <2>1, <2>2
  <2> QED BY <2>3, <2>4, <2>5
<1> HIDE DEF M, T
<1>4. Known(meta2, NoMeta(s), M, next)
  BY <1>0, <1>1, <1>2, KnownNext DEF M
<1>5. Known(turn2, Nil, T, next)
  BY <1>0, <1>1, <1>2, KnownNext DEF T
<1> QED BY <1>3, <1>4, <1>5 DEF Follows, M, T

\* Rows stored beyond where a pass is change nothing.
LEMMA FollowsGrow ==
    ASSUME NEW E, NEW F, NEW b, Rows(F, b), NEW s, NEW ctx, NEW from \in Nat,
           Follows(ctx, E, s, from), DOMAIN E \subseteq DOMAIN F,
           \A q \in DOMAIN E : F[q] = E[q], \A q \in DOMAIN F \ DOMAIN E : q >= from
    PROVE  Follows(ctx, F, s, from)
<1>0. PICK meta, turn : /\ ctx = Context(meta, turn)
                        /\ Known(meta, NoMeta(s), MetaOf(E, s), from)
                        /\ Known(turn, Nil, TurnOf(E), from)
  BY DEF Follows
<1>1. DOMAIN MetaOf(F, s) \subseteq Nat /\ DOMAIN TurnOf(F) \subseteq Nat
  BY Parts
<1>2. Known(meta, NoMeta(s), MetaOf(F, s), from)
  <2>1. /\ DOMAIN MetaOf(E, s) \subseteq DOMAIN MetaOf(F, s)
        /\ \A q \in DOMAIN MetaOf(E, s) : MetaOf(F, s)[q] = MetaOf(E, s)[q]
        /\ \A q \in DOMAIN MetaOf(F, s) \ DOMAIN MetaOf(E, s) : q >= from
    BY DEF MetaOf, OfKind
  <2> QED BY <1>0, <1>1, <2>1, KnownGrow
<1>3. Known(turn, Nil, TurnOf(F), from)
  <2>1. /\ DOMAIN TurnOf(E) \subseteq DOMAIN TurnOf(F)
        /\ \A q \in DOMAIN TurnOf(E) : TurnOf(F)[q] = TurnOf(E)[q]
        /\ \A q \in DOMAIN TurnOf(F) \ DOMAIN TurnOf(E) : q >= from
    BY DEF TurnOf, OfKind
  <2> QED BY <1>0, <1>1, <2>1, KnownGrow
<1> QED BY <1>0, <1>2, <1>3 DEF Follows

\* A pass that has come to the end of the rows knows what would be read back: the
\* context carried along a transcript does not depend on where the pass began.
THEOREM ContextIsDetermined ==
    ASSUME NEW E, NEW b, Rows(E, b), NEW s, NEW ctx, NEW from \in Nat,
           Follows(ctx, E, s, from), \A q \in DOMAIN E : q < from
    PROVE  ctx = LoadContext(E, s)
<1>0. PICK meta, turn : /\ ctx = Context(meta, turn)
                        /\ Known(meta, NoMeta(s), MetaOf(E, s), from)
                        /\ Known(turn, Nil, TurnOf(E), from)
  BY DEF Follows
<1>1. meta = Loaded(NoMeta(s), MetaOf(E, s))
  BY <1>0, Parts, KnownIsLoaded
<1>2. turn = Loaded(Nil, TurnOf(E))
  BY <1>0, Parts, KnownIsLoaded
<1> QED BY <1>0, <1>1, <1>2, LoadIs

-----------------------------------------------------------------------------
(* The elements picked from a sequence.                                    *)

Picks(f, s, at, n) ==
    f = [i \in 0..n |-> IF i = 0 THEN <<>>
                        ELSE IF i \in at THEN Append(f[i - 1], s[i]) ELSE f[i - 1]]

LEMMA PicksAt ==
    ASSUME NEW n, NEW f, NEW s, NEW at, Picks(f, s, at, n), NEW i \in 0..n
    PROVE  f[i] = IF i = 0 THEN <<>> ELSE IF i \in at THEN Append(f[i - 1], s[i]) ELSE f[i - 1]
<1> DEFINE g == [k \in 0..n |-> IF k = 0 THEN <<>>
                                ELSE IF k \in at THEN Append(f[k - 1], s[k]) ELSE f[k - 1]]
<1>1. f = g
  BY DEF Picks
<1>2. g[i] = IF i = 0 THEN <<>> ELSE IF i \in at THEN Append(f[i - 1], s[i]) ELSE f[i - 1]
  OBVIOUS
<1> QED BY <1>1, <1>2

LEMMA PicksExist ==
    ASSUME NEW s, NEW at
    PROVE  \A n \in Nat : \E f : Picks(f, s, at, n)
<1> DEFINE G == {n \in Nat : \E f : Picks(f, s, at, n)}
<1>1. 0 \in G
  <2> DEFINE f == [i \in 0..0 |-> <<>>]
  <2>1. Picks(f, s, at, 0)
    BY DEF Picks
  <2> QED BY <2>1
<1>2. ASSUME NEW n \in Nat, n \in G PROVE n + 1 \in G
  <2>1. PICK f : Picks(f, s, at, n)
    BY <1>2
  <2> DEFINE g == [i \in 0..(n + 1) |->
                      IF i <= n THEN f[i]
                      ELSE IF i \in at THEN Append(f[n], s[i]) ELSE f[n]]
  <2>2. \A i \in 0..(n + 1) :
            g[i] = IF i = 0 THEN <<>>
                   ELSE IF i \in at THEN Append(g[i - 1], s[i]) ELSE g[i - 1]
    <3> SUFFICES ASSUME NEW i \in 0..(n + 1)
                 PROVE  g[i] = IF i = 0 THEN <<>>
                               ELSE IF i \in at THEN Append(g[i - 1], s[i]) ELSE g[i - 1]
      OBVIOUS
    <3>1. CASE i <= n
      <4>1. f[i] = IF i = 0 THEN <<>> ELSE IF i \in at THEN Append(f[i - 1], s[i]) ELSE f[i - 1]
        BY <2>1, <3>1, PicksAt
      <4>2. i # 0 => g[i - 1] = f[i - 1]
        BY <3>1
      <4> QED BY <3>1, <4>1, <4>2
    <3>2. CASE i = n + 1
      <4>1. g[i - 1] = f[n]
        BY <3>2
      <4> QED BY <3>2, <4>1
    <3> QED BY <3>1, <3>2
  <2>3. Picks(g, s, at, n + 1)
    <3>1. g = [i \in 0..(n + 1) |-> g[i]]
      OBVIOUS
    <3> HIDE DEF g
    <3> QED BY <2>2, <3>1 DEF Picks
  <2> HIDE DEF g
  <2> QED BY <2>3
<1> HIDE DEF G
<1>3. \A n \in Nat : n \in G
  BY <1>1, <1>2, NumbersIn
<1> QED BY <1>3 DEF G

LEMMA PickedIs ==
    ASSUME NEW s, Len(s) \in Nat, NEW at
    PROVE  \E f : Picks(f, s, at, Len(s)) /\ Picked(s, at) = f[Len(s)]
<1>1. \E f : Picks(f, s, at, Len(s))
  BY PicksExist
<1> QED BY <1>1 DEF Picked, Picks

LEMMA PicksAgree ==
    ASSUME NEW n \in Nat, NEW m \in Nat, n <= m, NEW s, NEW t, NEW at, NEW bt,
           NEW f, Picks(f, s, at, n), NEW g, Picks(g, t, bt, m),
           \A i \in 1..n : s[i] = t[i] /\ (i \in at <=> i \in bt)
    PROVE  f[n] = g[n]
<1> DEFINE G == {i \in Nat : i <= n => f[i] = g[i]}
<1>1. 0 \in G
  BY DEF Picks
<1>2. ASSUME NEW i \in Nat, i \in G PROVE i + 1 \in G
  <2> SUFFICES ASSUME i + 1 <= n PROVE f[i + 1] = g[i + 1]
    OBVIOUS
  <2>1. f[i] = g[i]
    BY <1>2
  <2>2. i + 1 \in 0..n /\ i + 1 \in 0..m /\ (i + 1) - 1 = i /\ i + 1 # 0
    OBVIOUS
  <2>3. f[i + 1] = IF i + 1 \in at THEN Append(f[i], s[i + 1]) ELSE f[i]
    BY <2>2, PicksAt
  <2>4. g[i + 1] = IF i + 1 \in bt THEN Append(g[i], t[i + 1]) ELSE g[i]
    BY <2>2, PicksAt
  <2> QED BY <2>1, <2>2, <2>3, <2>4
<1>3. n \in G
  <2> HIDE DEF G
  <2> QED BY <1>1, <1>2, NumbersIn
<1> QED BY <1>3

LEMMA PickedNone ==
    ASSUME NEW at
    PROVE  Picked(<<>>, at) = <<>>
<1>1. Len(<<>>) = 0
  OBVIOUS
<1>2. PICK f : Picks(f, <<>>, at, 0) /\ Picked(<<>>, at) = f[0]
  BY <1>1, PickedIs
<1> QED BY <1>2 DEF Picks

LEMMA PickedAppend ==
    ASSUME NEW S, NEW s \in Seq(S), NEW x \in S, NEW at, NEW bt,
           \A i \in 1..Len(s) : i \in at <=> i \in bt
    PROVE  Picked(Append(s, x), at)
           = IF Len(s) + 1 \in at THEN Append(Picked(s, bt), x) ELSE Picked(s, bt)
<1> DEFINE n == Len(s)
           t == Append(s, x)
<1>1. /\ n \in Nat /\ Len(t) = n + 1 /\ t[n + 1] = x
      /\ \A i \in 1..n : t[i] = s[i]
  BY AppendProperties, LenProperties
<1> HIDE DEF t, n
<1>2. PICK f : Picks(f, s, bt, n) /\ Picked(s, bt) = f[n]
  BY <1>1, PickedIs DEF n
<1>3. PICK g : Picks(g, t, at, n + 1) /\ Picked(t, at) = g[n + 1]
  BY <1>1, PickedIs
<1>4. f[n] = g[n]
  BY <1>1, <1>2, <1>3, PicksAgree DEF n
<1>5. g[n + 1] = IF n + 1 \in at THEN Append(g[n], t[n + 1]) ELSE g[n]
  <2>1. n + 1 \in 0..(n + 1) /\ (n + 1) - 1 = n /\ n + 1 # 0
    BY <1>1
  <2> QED BY <1>3, <2>1, PicksAt
<1> QED BY <1>1, <1>2, <1>3, <1>4, <1>5 DEF t, n

LEMMA PickedAfter ==
    ASSUME NEW S, NEW s \in Seq(S), NEW x \in S, NEW at
    PROVE  Picked(Append(s, x), at)
           = IF Len(s) + 1 \in at THEN Append(Picked(s, at), x) ELSE Picked(s, at)
<1>1. \A i \in 1..Len(s) : i \in at <=> i \in at
  OBVIOUS
<1> QED BY <1>1, PickedAppend

LEMMA PickedType ==
    ASSUME NEW S, NEW s \in Seq(S), NEW at
    PROVE  Picked(s, at) \in Seq(S)
<1> DEFINE G == {t \in Seq(S) : Picked(t, at) \in Seq(S)}
<1>1. <<>> \in G
  BY PickedNone, EmptySeq
<1>2. ASSUME NEW t \in Seq(S), NEW x \in S, t \in G PROVE Append(t, x) \in G
  <2>1. Picked(t, at) \in Seq(S)
    BY <1>2
  <2>2. Picked(Append(t, x), at) = IF Len(t) + 1 \in at THEN Append(Picked(t, at), x) ELSE Picked(t, at)
    BY PickedAppend
  <2>3. Append(Picked(t, at), x) \in Seq(S) /\ Append(t, x) \in Seq(S)
    BY <2>1, AppendProperties
  <2> QED BY <2>1, <2>2, <2>3
<1>3. s \in G
  <2> HIDE DEF G
  <2> QED BY <1>1, <1>2, SequencesIn
<1> QED BY <1>3

-----------------------------------------------------------------------------
(* Those of a sequence that are in Z, each as f says.                      *)

Sel(s, Z) == Picked(s, {i \in DOMAIN s : s[i] \in Z})

LEMMA SelNone == \A Z : Sel(<<>>, Z) = <<>>
<1> QED BY PickedNone DEF Sel

LEMMA SelAppend ==
    ASSUME NEW S, NEW s \in Seq(S), NEW x \in S, NEW Z
    PROVE  Sel(Append(s, x), Z) = IF x \in Z THEN Append(Sel(s, Z), x) ELSE Sel(s, Z)
<1> DEFINE t == Append(s, x)
           at == {i \in DOMAIN t : t[i] \in Z}
           bt == {i \in DOMAIN s : s[i] \in Z}
<1>1. /\ Len(s) \in Nat /\ DOMAIN s = 1..Len(s) /\ DOMAIN t = 1..(Len(s) + 1)
      /\ t[Len(s) + 1] = x /\ \A i \in 1..Len(s) : t[i] = s[i]
  BY AppendProperties, LenProperties
<1> HIDE DEF t
<1>2. \A i \in 1..Len(s) : i \in at <=> i \in bt
  BY <1>1
<1>3. Len(s) + 1 \in at <=> x \in Z
  BY <1>1
<1> HIDE DEF at, bt
<1>4. Picked(t, at) = IF Len(s) + 1 \in at THEN Append(Picked(s, bt), x) ELSE Picked(s, bt)
  BY <1>2, PickedAppend DEF t
<1> QED BY <1>3, <1>4 DEF Sel, t, at, bt

LEMMA SelType ==
    ASSUME NEW S, NEW s \in Seq(S), NEW Z
    PROVE  Sel(s, Z) \in Seq(S \cap Z)
<1> DEFINE G == {t \in Seq(S) : Sel(t, Z) \in Seq(S \cap Z)}
<1>1. <<>> \in G
  BY SelNone, EmptySeq
<1>2. ASSUME NEW t \in Seq(S), NEW x \in S, t \in G PROVE Append(t, x) \in G
  <2>1. Sel(t, Z) \in Seq(S \cap Z)
    BY <1>2
  <2>2. Sel(Append(t, x), Z) = IF x \in Z THEN Append(Sel(t, Z), x) ELSE Sel(t, Z)
    BY SelAppend
  <2>3. x \in Z => Append(Sel(t, Z), x) \in Seq(S \cap Z)
    BY <2>1, AppendProperties
  <2>4. Append(t, x) \in Seq(S)
    BY AppendProperties
  <2> QED BY <2>1, <2>2, <2>3, <2>4
<1>3. s \in G
  <2> HIDE DEF G
  <2> QED BY <1>1, <1>2, SequencesIn
<1> QED BY <1>3

LEMMA SelIsSeq ==
    ASSUME NEW S, NEW s \in Seq(S), NEW Z
    PROVE  Sel(s, Z) \in Seq(S)
<1> QED BY PickedType DEF Sel

LEMMA SelAll ==
    ASSUME NEW S, NEW s \in Seq(S), NEW Z, S \subseteq Z
    PROVE  Sel(s, Z) = s
<1> DEFINE G == {t \in Seq(S) : Sel(t, Z) = t}
<1>1. <<>> \in G
  BY SelNone, EmptySeq
<1>2. ASSUME NEW t \in Seq(S), NEW x \in S, t \in G PROVE Append(t, x) \in G
  BY <1>2, SelAppend, AppendProperties
<1>3. s \in G
  <2> HIDE DEF G
  <2> QED BY <1>1, <1>2, SequencesIn
<1> QED BY <1>3

LEMMA SelNothing ==
    ASSUME NEW S, NEW s \in Seq(S), NEW Z, S \cap Z = {}
    PROVE  Sel(s, Z) = <<>>
<1>1. Sel(s, Z) \in Seq({})
  BY SelType
<1>2. \A t \in Seq({}) : t = <<>>
  <2> SUFFICES ASSUME NEW t \in Seq({}), t # <<>> PROVE FALSE
    OBVIOUS
  <2>1. Head(t) \in {}
    BY HeadTailProperties
  <2> QED BY <2>1
<1> QED BY <1>1, <1>2

Those(s, Z, f) == [i \in DOMAIN Sel(s, Z) |-> f[Sel(s, Z)[i]]]

LEMMA ThoseNone == \A Z, f : Those(<<>>, Z, f) = <<>>
<1> QED BY SelNone DEF Those

LEMMA ThoseType ==
    ASSUME NEW S, NEW s \in Seq(S), NEW Z, NEW f, NEW T, \A x \in S \cap Z : f[x] \in T
    PROVE  Those(s, Z, f) \in Seq(T)
<1> DEFINE u == Sel(s, Z)
<1>1. u \in Seq(S \cap Z)
  BY SelType
<1>2. Len(u) \in Nat /\ DOMAIN u = 1..Len(u) /\ \A i \in 1..Len(u) : u[i] \in S \cap Z
  BY <1>1, LenProperties, ElementOfSeq
<1> HIDE DEF u
<1>3. [i \in 1..Len(u) |-> f[u[i]]] \in Seq(T)
  <2>1. [i \in 1..Len(u) |-> f[u[i]]] \in [1..Len(u) -> T]
    BY <1>2
  <2> QED BY <1>2, <2>1, SeqDef
<1> QED BY <1>2, <1>3 DEF Those, u

LEMMA ThoseAppend ==
    ASSUME NEW S, NEW s \in Seq(S), NEW x \in S, NEW Z, NEW f
    PROVE  Those(Append(s, x), Z, f)
           = IF x \in Z THEN Append(Those(s, Z, f), f[x]) ELSE Those(s, Z, f)
<1>1. CASE x \notin Z
  BY <1>1, SelAppend DEF Those
<1>2. CASE x \in Z
  <2> DEFINE u == Sel(s, Z)
             n == Len(u)
             T == {f[y] : y \in S}
  <2>1. u \in Seq(S)
    <3>1. u \in Seq(S \cap Z) /\ S \cap Z \subseteq S
      BY SelType
    <3> HIDE DEF u
    <3> QED BY <3>1, SeqMonotonic
  <2>2. /\ n \in Nat /\ DOMAIN u = 1..n /\ DOMAIN Append(u, x) = 1..(n + 1)
        /\ Append(u, x)[n + 1] = x /\ \A i \in 1..n : Append(u, x)[i] = u[i]
    BY <2>1, AppendProperties, LenProperties
  <2> DEFINE v == [i \in 1..n |-> f[u[i]]]
  <2>3. v \in Seq(T) /\ Len(v) = n
    <3>1. \A i \in 1..n : u[i] \in S
      BY <2>1, ElementOfSeq
    <3>2. v \in [1..n -> T]
      BY <3>1
    <3>3. v \in Seq(T)
      BY <2>2, <3>2, SeqDef
    <3> QED BY <2>2, <3>3, LenProperties
  <2>4. /\ DOMAIN Append(v, f[x]) = 1..(n + 1)
        /\ Append(v, f[x])[n + 1] = f[x] /\ \A i \in 1..n : Append(v, f[x])[i] = f[u[i]]
        /\ Append(v, f[x]) = [i \in 1..(n + 1) |-> Append(v, f[x])[i]]
    <3>1. f[x] \in T
      OBVIOUS
    <3> HIDE DEF T
    <3>2. Append(v, f[x]) \in Seq(T)
      BY <2>3, <3>1, AppendProperties
    <3>3. Len(Append(v, f[x])) = n + 1
      BY <2>3, <3>1, AppendProperties
    <3> HIDE DEF v
    <3>4. Append(v, f[x]) \in [1..(n + 1) -> T]
      BY <3>2, <3>3, LenProperties
    <3>5. Append(v, f[x])[n + 1] = f[x] /\ \A i \in 1..n : Append(v, f[x])[i] = v[i]
      BY <2>3, <3>1, AppendProperties
    <3> QED BY <3>4, <3>5 DEF v
  <2>5. [i \in 1..(n + 1) |-> f[Append(u, x)[i]]] = Append(v, f[x])
    <3> HIDE DEF v, T, u
    <3>1. \A i \in 1..(n + 1) : i \in 1..n \/ i = n + 1
      BY <2>2
    <3> QED BY <2>2, <2>4, <3>1
  <2>6. Sel(Append(s, x), Z) = Append(u, x)
    BY <1>2, SelAppend
  <2>7. Those(Append(s, x), Z, f) = [i \in 1..(n + 1) |-> f[Append(u, x)[i]]]
    <3> HIDE DEF u
    <3> QED BY <2>2, <2>6 DEF Those
  <2>8. Those(s, Z, f) = v
    BY <2>2 DEF Those
  <2> HIDE DEF v, n, u
  <2> QED BY <1>2, <2>5, <2>7, <2>8
<1> QED BY <1>1, <1>2

LEMMA ThoseConcat ==
    ASSUME NEW S, NEW s \in Seq(S), NEW t \in Seq(S), NEW Z, NEW f
    PROVE  Those(s \o t, Z, f) = Those(s, Z, f) \o Those(t, Z, f)
<1> DEFINE T == {f[x] : x \in S}
           G == {u \in Seq(S) : Those(s \o u, Z, f) = Those(s, Z, f) \o Those(u, Z, f)}
<1>1. \A u \in Seq(S) : Those(u, Z, f) \in Seq(T)
  BY ThoseType
<1>2. <<>> \in G
  <2> HIDE DEF T
  <2> QED BY <1>1, ThoseNone, ConcatEmptySeq, EmptySeq
<1>3. ASSUME NEW u \in Seq(S), NEW x \in S, u \in G PROVE Append(u, x) \in G
  <2>1. Append(u, x) \in Seq(S) /\ s \o u \in Seq(S) /\ s \o Append(u, x) = Append(s \o u, x)
    OBVIOUS
  <2>2. f[x] \in T
    OBVIOUS
  <2> DEFINE a == Those(s, Z, f)
             b == Those(u, Z, f)
  <2>3. a \in Seq(T) /\ b \in Seq(T) /\ Those(s \o u, Z, f) = a \o b
    BY <1>1, <1>3
  <2>4. a \o Append(b, f[x]) = Append(a \o b, f[x])
    <3> HIDE DEF T, a, b
    <3> QED BY <2>2, <2>3
  <2>5. Those(Append(u, x), Z, f) = IF x \in Z THEN Append(b, f[x]) ELSE b
    BY ThoseAppend
  <2>6. Those(Append(s \o u, x), Z, f)
        = IF x \in Z THEN Append(Those(s \o u, Z, f), f[x]) ELSE Those(s \o u, Z, f)
    <3> DEFINE v == s \o u
    <3>1. v \in Seq(S)
      BY <2>1
    <3> HIDE DEF v
    <3>2. Those(Append(v, x), Z, f) = IF x \in Z THEN Append(Those(v, Z, f), f[x]) ELSE Those(v, Z, f)
      BY <3>1, ThoseAppend
    <3> QED BY <3>2 DEF v
  <2> HIDE DEF a, b
  <2>7. Those(s \o Append(u, x), Z, f) = a \o Those(Append(u, x), Z, f)
    BY <2>1, <2>3, <2>4, <2>5, <2>6
  <2> QED BY <2>1, <2>7 DEF a
<1>4. t \in G
  <2> HIDE DEF G
  <2> QED BY <1>2, <1>3, SequencesIn
<1> QED BY <1>4

-----------------------------------------------------------------------------
(* Sequences put one after another.                                        *)

Join(a, b) == a \o b

Joins(f, ss, n) == f = [i \in 1..n |-> IF i = 1 THEN ss[i] ELSE Join(f[i - 1], ss[i])]

LEMMA JoinsAt ==
    ASSUME NEW n, NEW f, NEW ss, Joins(f, ss, n), NEW i \in 1..n
    PROVE  f[i] = IF i = 1 THEN ss[i] ELSE Join(f[i - 1], ss[i])
<1> DEFINE g == [k \in 1..n |-> IF k = 1 THEN ss[k] ELSE Join(f[k - 1], ss[k])]
<1>1. f = g
  BY DEF Joins
<1>2. g[i] = IF i = 1 THEN ss[i] ELSE Join(f[i - 1], ss[i])
  OBVIOUS
<1> QED BY <1>1, <1>2

LEMMA JoinsExist ==
    ASSUME NEW ss
    PROVE  \A n \in Nat : \E f : Joins(f, ss, n)
<1> DEFINE G == {n \in Nat : \E f : Joins(f, ss, n)}
<1>1. 0 \in G
  <2> DEFINE f == [i \in 1..0 |-> ss]
  <2>1. Joins(f, ss, 0)
    BY DEF Joins
  <2> QED BY <2>1
<1>2. ASSUME NEW n \in Nat, n \in G PROVE n + 1 \in G
  <2>1. PICK f : Joins(f, ss, n)
    BY <1>2
  <2> DEFINE last == IF n = 0 THEN ss[1] ELSE Join(f[n], ss[n + 1])
             g == [i \in 1..(n + 1) |-> IF i <= n THEN f[i] ELSE last]
  <2>2. \A i \in 1..(n + 1) : g[i] = IF i = 1 THEN ss[i] ELSE Join(g[i - 1], ss[i])
    <3> SUFFICES ASSUME NEW i \in 1..(n + 1)
                 PROVE  g[i] = IF i = 1 THEN ss[i] ELSE Join(g[i - 1], ss[i])
      OBVIOUS
    <3>1. CASE i <= n
      <4>1. f[i] = IF i = 1 THEN ss[i] ELSE Join(f[i - 1], ss[i])
        BY <2>1, <3>1, JoinsAt
      <4>2. i # 1 => g[i - 1] = f[i - 1]
        BY <3>1
      <4>3. g[i] = f[i]
        BY <3>1
      <4> HIDE DEF g
      <4> QED BY <4>1, <4>2, <4>3
    <3>2. CASE i = n + 1
      <4>1. i # 1 => g[i - 1] = f[n] /\ n # 0
        BY <3>2
      <4>2. g[i] = last
        BY <3>2
      <4> HIDE DEF g
      <4> QED BY <3>2, <4>1, <4>2
    <3> QED BY <3>1, <3>2
  <2>3. Joins(g, ss, n + 1)
    <3>1. g = [i \in 1..(n + 1) |-> g[i]]
      OBVIOUS
    <3> HIDE DEF g
    <3> QED BY <2>2, <3>1 DEF Joins
  <2> HIDE DEF g
  <2> QED BY <2>3
<1> HIDE DEF G
<1>3. \A n \in Nat : n \in G
  BY <1>1, <1>2, NumbersIn
<1> QED BY <1>3 DEF G

LEMMA FlattenIs ==
    ASSUME NEW ss, Len(ss) \in Nat, Len(ss) # 0
    PROVE  \E f : Joins(f, ss, Len(ss)) /\ FlattenSeq(ss) = f[Len(ss)]
<1>1. \E f : Joins(f, ss, Len(ss))
  BY JoinsExist
<1> QED BY <1>1 DEF FlattenSeq, Joins, Join

LEMMA JoinsAgree ==
    ASSUME NEW n \in Nat, n # 0, NEW m \in Nat, n <= m, NEW ss, NEW tt,
           NEW f, Joins(f, ss, n), NEW g, Joins(g, tt, m), \A i \in 1..n : ss[i] = tt[i]
    PROVE  f[n] = g[n]
<1> DEFINE G == {i \in Nat : i + 1 <= n => f[i + 1] = g[i + 1]}
<1>1. 0 \in G
  <2>1. 1 \in 1..n /\ 1 \in 1..m
    OBVIOUS
  <2>2. f[1] = ss[1] /\ g[1] = tt[1]
    BY <2>1, JoinsAt
  <2> QED BY <2>1, <2>2
<1>2. ASSUME NEW i \in Nat, i \in G PROVE i + 1 \in G
  <2> SUFFICES ASSUME NEW j \in Nat, NEW k \in Nat, j = i + 1, k = i + 2, k <= n
               PROVE  f[k] = g[k]
    OBVIOUS
  <2>1. f[j] = g[j]
    BY <1>2
  <2>2. k \in 1..n /\ k \in 1..m /\ k - 1 = j /\ k # 1
    OBVIOUS
  <2>3. f[k] = Join(f[j], ss[k])
    BY <2>2, JoinsAt
  <2>4. g[k] = Join(g[j], tt[k])
    BY <2>2, JoinsAt
  <2> QED BY <2>1, <2>2, <2>3, <2>4
<1>3. n - 1 \in G
  <2> HIDE DEF G
  <2> QED BY <1>1, <1>2, NumbersIn
<1> QED BY <1>3

LEMMA FlattenNone == FlattenSeq(<<>>) = <<>>
<1> QED BY DEF FlattenSeq

LEMMA FlattenAppend ==
    ASSUME NEW T, NEW ss \in Seq(Seq(T)), NEW x \in Seq(T)
    PROVE  FlattenSeq(Append(ss, x)) = FlattenSeq(ss) \o x
<1> DEFINE n == Len(ss)
           tt == Append(ss, x)
<1>1. /\ n \in Nat /\ Len(tt) = n + 1 /\ tt[n + 1] = x
      /\ \A i \in 1..n : ss[i] = tt[i]
  BY AppendProperties, LenProperties
<1> HIDE DEF tt
<1>2. PICK g : Joins(g, tt, n + 1) /\ FlattenSeq(tt) = g[n + 1]
  <2> HIDE DEF n
  <2> QED BY <1>1, FlattenIs
<1>3. CASE n = 0
  <2>1. ss = <<>>
    BY <1>3, EmptySeq
  <2>2. 1 \in 1..(n + 1)
    BY <1>3
  <2>3. g[1] = tt[1]
    BY <1>2, <2>2, JoinsAt
  <2>4. FlattenSeq(tt) = x
    BY <1>1, <1>2, <1>3, <2>3
  <2>5. <<>> \o x = x
    BY ConcatEmptySeq
  <2> QED BY <2>1, <2>4, <2>5, FlattenNone DEF tt
<1>4. CASE n # 0
  <2>1. PICK f : Joins(f, ss, n) /\ FlattenSeq(ss) = f[n]
    BY <1>1, <1>4, FlattenIs
  <2>2. f[n] = g[n]
    <3> HIDE DEF n
    <3> QED BY <1>1, <1>2, <1>4, <2>1, JoinsAgree
  <2>3. n + 1 \in 1..(n + 1) /\ n + 1 # 1 /\ (n + 1) - 1 = n
    BY <1>1, <1>4
  <2> HIDE DEF n
  <2>4. g[n + 1] = Join(g[n], tt[n + 1])
    BY <1>2, <2>3, JoinsAt
  <2> QED BY <1>1, <1>2, <2>1, <2>2, <2>4 DEF tt, Join
<1> QED BY <1>3, <1>4

Flat(s, f) == FlattenSeq([i \in 1..Len(s) |-> f[s[i]]])

LEMMA FlatNone == \A f : Flat(<<>>, f) = <<>>
<1> TAKE f
<1>1. [i \in 1..Len(<<>>) |-> f[<<>>[i]]] = <<>>
  OBVIOUS
<1> QED BY <1>1, FlattenNone DEF Flat

LEMMA FlatAppend ==
    ASSUME NEW S, NEW s \in Seq(S), NEW x \in S, NEW T, NEW f, \A y \in S : f[y] \in Seq(T)
    PROVE  Flat(Append(s, x), f) = Flat(s, f) \o f[x]
<1> DEFINE n == Len(s)
           t == Append(s, x)
           ss == [i \in 1..n |-> f[s[i]]]
<1>1. /\ n \in Nat /\ Len(t) = n + 1 /\ t[n + 1] = x
      /\ \A i \in 1..n : s[i] = t[i] /\ s[i] \in S
  BY AppendProperties, LenProperties, ElementOfSeq
<1>2. ss \in Seq(Seq(T)) /\ Len(ss) = n
  <2>1. ss \in [1..n -> Seq(T)]
    BY <1>1
  <2>2. ss \in Seq(Seq(T))
    BY <1>1, <2>1, SeqDef
  <2> QED BY <1>1, <2>2, LenProperties
<1> HIDE DEF t
<1>3. [i \in 1..Len(t) |-> f[t[i]]] = Append(ss, f[x])
  <2> HIDE DEF n
  <2>1. \A i \in 1..n : ss[i] = f[t[i]]
    BY <1>1
  <2> HIDE DEF ss
  <2>2. f[x] \in Seq(T)
    OBVIOUS
  <2>3. /\ Append(ss, f[x]) \in Seq(Seq(T)) /\ Len(Append(ss, f[x])) = n + 1
        /\ Append(ss, f[x])[n + 1] = f[x]
        /\ \A i \in 1..n : Append(ss, f[x])[i] = ss[i]
    BY <1>2, <2>2, AppendProperties
  <2>4. Append(ss, f[x]) = [i \in 1..(n + 1) |-> Append(ss, f[x])[i]]
    BY <2>3, LenProperties
  <2>5. \A i \in 1..(n + 1) : i \in 1..n \/ i = n + 1
    BY <1>1
  <2> QED BY <1>1, <2>1, <2>3, <2>4, <2>5
<1>4. FlattenSeq(Append(ss, f[x])) = FlattenSeq(ss) \o f[x]
  <2> HIDE DEF ss
  <2> QED BY <1>2, FlattenAppend
<1> QED BY <1>3, <1>4 DEF Flat, t

LEMMA FlatType ==
    ASSUME NEW S, NEW s \in Seq(S), NEW T, NEW f, \A y \in S : f[y] \in Seq(T)
    PROVE  Flat(s, f) \in Seq(T)
<1> DEFINE G == {t \in Seq(S) : Flat(t, f) \in Seq(T)}
<1>1. <<>> \in G
  BY FlatNone, EmptySeq
<1>2. ASSUME NEW t \in Seq(S), NEW x \in S, t \in G PROVE Append(t, x) \in G
  <2>1. Flat(t, f) \in Seq(T) /\ f[x] \in Seq(T) /\ Append(t, x) \in Seq(S)
    BY <1>2, AppendProperties
  <2>2. Flat(Append(t, x), f) = Flat(t, f) \o f[x]
    BY FlatAppend
  <2> QED BY <2>1, <2>2, ConcatProperties
<1>3. s \in G
  <2> HIDE DEF G
  <2> QED BY <1>1, <1>2, SequencesIn
<1> QED BY <1>3

-----------------------------------------------------------------------------
(* What items, chunks and the parts of a document tell, in that form.      *)

TextOf(S) == [x \in S |-> x.text]
PairOf(S) == [x \in S |-> x.pair]

ItemTools(items) == [i \in DOMAIN ToolsIn(items) |-> ToolsIn(items)[i].pair]

LEMMA IndexIn ==
    ASSUME NEW S, NEW s \in Seq(S)
    PROVE  \A i \in DOMAIN s : s[i] \in S
<1> QED BY LenProperties, ElementOfSeq

LEMMA SelIn ==
    ASSUME NEW S, NEW s \in Seq(S), NEW Z
    PROVE  \A j \in DOMAIN Sel(s, Z) : Sel(s, Z)[j] \in S
<1> DEFINE u == Sel(s, Z)
<1>1. u \in Seq(S \cap Z)
  BY SelType
<1>2. \A j \in DOMAIN u : u[j] \in S \cap Z
  <2> HIDE DEF u
  <2> QED BY <1>1, IndexIn
<1> QED BY <1>2

LEMMA ItemTextsAre ==
    ASSUME NEW J, NEW items \in Seq(J)
    PROVE  ItemTexts(items) = Those(items, {x \in J : ~IsBlank(x.text)}, TextOf(J))
<1> DEFINE Z == {x \in J : ~IsBlank(x.text)}
           at == {i \in DOMAIN items : ~IsBlank(items[i].text)}
<1>1. at = {i \in DOMAIN items : items[i] \in Z}
  BY IndexIn
<1>2. Picked(items, at) = Sel(items, Z)
  BY <1>1 DEF Sel
<1>3. \A j \in DOMAIN Sel(items, Z) : Sel(items, Z)[j] \in J
  BY SelIn
<1>4. ItemTexts(items) = [j \in DOMAIN Sel(items, Z) |-> Sel(items, Z)[j].text]
  BY <1>2 DEF ItemTexts, Where
<1> HIDE DEF Z
<1> QED BY <1>3, <1>4 DEF Those, TextOf, Z

LEMMA ItemToolsAre ==
    ASSUME NEW J, NEW items \in Seq(J)
    PROVE  ItemTools(items) = Those(items, {x \in J : x.pair # Nil}, PairOf(J))
<1> DEFINE Z == {x \in J : x.pair # Nil}
           at == {i \in DOMAIN items : items[i].pair # Nil}
<1>1. at = {i \in DOMAIN items : items[i] \in Z}
  BY IndexIn
<1>2. Picked(items, at) = Sel(items, Z)
  BY <1>1 DEF Sel
<1>3. \A j \in DOMAIN Sel(items, Z) : Sel(items, Z)[j] \in J
  BY SelIn
<1>4. ItemTools(items) = [j \in DOMAIN Sel(items, Z) |-> Sel(items, Z)[j].pair]
  BY <1>2 DEF ItemTools, ToolsIn, Where
<1> HIDE DEF Z
<1> QED BY <1>3, <1>4 DEF Those, PairOf, Z

LEMMA ChunkToolsAre ==
    ASSUME NEW C, NEW chunks \in Seq(C)
    PROVE  ChunkTools(chunks) = Those(chunks, {x \in C : x.kind = "tool"}, PairOf(C))
<1> DEFINE Z == {x \in C : x.kind = "tool"}
           at == {i \in DOMAIN chunks : chunks[i].kind = "tool"}
<1>1. at = {i \in DOMAIN chunks : chunks[i] \in Z}
  BY IndexIn
<1>2. Picked(chunks, at) = Sel(chunks, Z)
  BY <1>1 DEF Sel
<1>3. \A j \in DOMAIN Sel(chunks, Z) : Sel(chunks, Z)[j] \in C
  BY SelIn
<1>4. ChunkTools(chunks) = [j \in DOMAIN Sel(chunks, Z) |-> Sel(chunks, Z)[j].pair]
  BY <1>2 DEF ChunkTools, Where
<1> HIDE DEF Z
<1> QED BY <1>3, <1>4 DEF Those, PairOf, Z

LEMMA MarkdownTextsAre ==
    ASSUME NEW P, NEW parts \in Seq(P)
    PROVE  MarkdownTexts(parts) = Those(parts, {x \in P : x.text # Nil}, TextOf(P))
<1> DEFINE Z == {x \in P : x.text # Nil}
           at == {i \in DOMAIN parts : parts[i].text # Nil}
<1>1. at = {i \in DOMAIN parts : parts[i] \in Z}
  BY IndexIn
<1>2. Picked(parts, at) = Sel(parts, Z)
  BY <1>1 DEF Sel
<1>3. \A j \in DOMAIN Sel(parts, Z) : Sel(parts, Z)[j] \in P
  BY SelIn
<1>4. MarkdownTexts(parts) = [j \in DOMAIN Sel(parts, Z) |-> Sel(parts, Z)[j].text]
  BY <1>2 DEF MarkdownTexts, Where
<1> HIDE DEF Z
<1> QED BY <1>3, <1>4 DEF Those, TextOf, Z

LEMMA MarkdownToolsAre ==
    ASSUME NEW P, NEW parts \in Seq(P)
    PROVE  MarkdownTools(parts) = Those(parts, {x \in P : x.pair # Nil}, PairOf(P))
<1> DEFINE Z == {x \in P : x.pair # Nil}
           at == {i \in DOMAIN parts : parts[i].pair # Nil}
<1>1. at = {i \in DOMAIN parts : parts[i] \in Z}
  BY IndexIn
<1>2. Picked(parts, at) = Sel(parts, Z)
  BY <1>1 DEF Sel
<1>3. \A j \in DOMAIN Sel(parts, Z) : Sel(parts, Z)[j] \in P
  BY SelIn
<1>4. MarkdownTools(parts) = [j \in DOMAIN Sel(parts, Z) |-> Sel(parts, Z)[j].pair]
  BY <1>2 DEF MarkdownTools, Where
<1> HIDE DEF Z
<1> QED BY <1>3, <1>4 DEF Those, PairOf, Z

-----------------------------------------------------------------------------
(* One event of the assistant.                                             *)

\* Looking for a call by its id finds one with that id.
PairsNamed(pairs) == \A id : HasPair(pairs, id) => PairById(pairs, id).id = id

ItemBlocks(B, pairs) ==
    {b \in B : \/ b.kind = "text" /\ b.text \notin {Nil, ""}
               \/ b.kind = "tool_use" /\ b.tool # Nil /\ HasPair(pairs, b.tool)}

AsItem(B) ==
    [b \in B |-> IF b.kind = "text" THEN TextItem(b.text) ELSE ToolItem(b.tool)]

PartBlocks(B, pairs) ==
    {b \in B : \/ b.kind = "text" /\ ~IsBlank(b.text)
               \/ b.kind = "tool_use" /\ b.tool # Nil /\ HasPair(pairs, b.tool)}

AsPart(B, pairs) ==
    [b \in B |-> IF b.kind = "text" THEN [MarkdownPart EXCEPT !.text = b.text]
                 ELSE ToolMarkdown(PairById(pairs, b.tool))]

LEMMA ItemsAre ==
    ASSUME NEW B, NEW e, e.blocks \in Seq(B), NEW pairs
    PROVE  ItemsIn(e, pairs, NoFilters) = Those(e.blocks, ItemBlocks(B, pairs), AsItem(B))
<1> DEFINE Z == ItemBlocks(B, pairs)
           bs == e.blocks
           at == {i \in DOMAIN bs :
                     \/ bs[i].kind = "text" /\ bs[i].text \notin {Nil, ""}
                     \/ /\ bs[i].kind = "tool_use" /\ bs[i].tool # Nil
                        /\ HasPair(pairs, bs[i].tool)
                        /\ PairVisible(PairById(pairs, bs[i].tool), NoFilters)}
           f == AsItem(B)
           u == Sel(bs, Z)
<1>1. \A p : PairVisible(p, NoFilters)
  BY DEF PairVisible, NoFilters
<1>2. at = {i \in DOMAIN bs : bs[i] \in Z}
  BY <1>1, IndexIn DEF ItemBlocks
<1>3. Picked(bs, at) = u
  BY <1>2 DEF Sel
<1>4. \A j \in DOMAIN u : u[j] \in B
  BY SelIn
<1>5. DOMAIN u = 1..Len(u)
  <2>1. u \in Seq(B \cap Z)
    BY SelType
  <2> HIDE DEF u
  <2> QED BY <2>1, LenProperties
<1>6. ItemsIn(e, pairs, NoFilters)
      = [j \in 1..Len(u) |-> IF u[j].kind = "text" THEN TextItem(u[j].text) ELSE ToolItem(u[j].tool)]
  BY <1>3 DEF ItemsIn, Where
<1>7. \A j \in DOMAIN u :
          f[u[j]] = IF u[j].kind = "text" THEN TextItem(u[j].text) ELSE ToolItem(u[j].tool)
  <2> HIDE DEF u
  <2> QED BY <1>4 DEF AsItem
<1>8. Those(bs, Z, f) = [j \in DOMAIN u |-> f[u[j]]]
  BY DEF Those
<1> HIDE DEF u, Z, f
<1> QED BY <1>5, <1>6, <1>7, <1>8 DEF Z, f

LEMMA PartsAre ==
    ASSUME NEW B, NEW e, e.blocks \in Seq(B), NEW pairs
    PROVE  AssistantMarkdown(e, pairs) = Those(e.blocks, PartBlocks(B, pairs), AsPart(B, pairs))
<1> DEFINE Z == PartBlocks(B, pairs)
           bs == e.blocks
           at == {i \in DOMAIN bs :
                     \/ bs[i].kind = "text" /\ ~IsBlank(bs[i].text)
                     \/ bs[i].kind = "tool_use" /\ bs[i].tool # Nil /\ HasPair(pairs, bs[i].tool)}
           f == AsPart(B, pairs)
           u == Sel(bs, Z)
<1>2. at = {i \in DOMAIN bs : bs[i] \in Z}
  BY IndexIn DEF PartBlocks
<1>3. Picked(bs, at) = u
  BY <1>2 DEF Sel
<1>4. \A j \in DOMAIN u : u[j] \in B
  BY SelIn
<1>5. DOMAIN u = 1..Len(u)
  <2>1. u \in Seq(B \cap Z)
    BY SelType
  <2> HIDE DEF u
  <2> QED BY <2>1, LenProperties
<1>6. AssistantMarkdown(e, pairs)
      = [j \in 1..Len(u) |-> IF u[j].kind = "text" THEN [MarkdownPart EXCEPT !.text = u[j].text]
                             ELSE ToolMarkdown(PairById(pairs, u[j].tool))]
  BY <1>3 DEF AssistantMarkdown, Where
<1>7. \A j \in DOMAIN u :
          f[u[j]] = IF u[j].kind = "text" THEN [MarkdownPart EXCEPT !.text = u[j].text]
                    ELSE ToolMarkdown(PairById(pairs, u[j].tool))
  <2> HIDE DEF u
  <2> QED BY <1>4 DEF AsPart
<1>8. Those(bs, Z, f) = [j \in DOMAIN u |-> f[u[j]]]
  BY DEF Those
<1> HIDE DEF u, Z, f
<1> QED BY <1>5, <1>6, <1>7, <1>8 DEF Z, f

\* One block tells the same as an item and as a part of the document.
LEMMA BlockAgrees ==
    ASSUME NEW B, NEW b \in B, NEW pairs, PairsNamed(pairs)
    PROVE  LET shown == b \in ItemBlocks(B, pairs)
               wanted == b \in PartBlocks(B, pairs)
               it == AsItem(B)[b]
               part == AsPart(B, pairs)[b]
           IN  /\ shown /\ ~IsBlank(it.text) <=> wanted /\ part.text # Nil
               /\ shown /\ ~IsBlank(it.text) => it.text = part.text
               /\ shown /\ it.pair # Nil <=> wanted /\ part.pair # Nil
               /\ shown /\ it.pair # Nil => it.pair = part.pair
<1>1. /\ IsBlank(Nil) /\ IsBlank("")
      /\ \A x : ~IsBlank(x) => x # Nil
  BY DEF IsBlank
<1>2. CASE b.kind = "text"
  <2>1. AsItem(B)[b] = TextItem(b.text) /\ AsPart(B, pairs)[b] = [MarkdownPart EXCEPT !.text = b.text]
    BY <1>2 DEF AsItem, AsPart
  <2>2. /\ AsItem(B)[b].text = b.text /\ AsItem(B)[b].pair = Nil
        /\ AsPart(B, pairs)[b].text = b.text /\ AsPart(B, pairs)[b].pair = Nil
    <3>1. AsItem(B)[b].text = b.text /\ AsItem(B)[b].pair = Nil
      BY <2>1 DEF TextItem
    <3>2. /\ [MarkdownPart EXCEPT !.text = b.text].text = b.text
          /\ [MarkdownPart EXCEPT !.text = b.text].pair = Nil
      BY DEF MarkdownPart
    <3> QED BY <2>1, <3>1, <3>2
  <2>3. /\ b \in ItemBlocks(B, pairs) <=> b.text \notin {Nil, ""}
        /\ b \in PartBlocks(B, pairs) <=> ~IsBlank(b.text)
    BY <1>2 DEF ItemBlocks, PartBlocks
  <2> QED BY <1>1, <2>2, <2>3
<1>3. CASE b.kind = "tool_use" /\ b.tool # Nil /\ HasPair(pairs, b.tool)
  <2>1. /\ AsItem(B)[b] = ToolItem(b.tool)
        /\ AsPart(B, pairs)[b] = ToolMarkdown(PairById(pairs, b.tool))
    BY <1>3 DEF AsItem, AsPart
  <2>2. PairById(pairs, b.tool).id = b.tool
    BY <1>3 DEF PairsNamed
  <2>3. /\ AsItem(B)[b].text = Nil /\ AsItem(B)[b].pair = b.tool
        /\ AsPart(B, pairs)[b].text = Nil /\ AsPart(B, pairs)[b].pair = b.tool
    BY <2>1, <2>2 DEF ToolItem, ToolMarkdown, MarkdownPart
  <2>4. b \in ItemBlocks(B, pairs) /\ b \in PartBlocks(B, pairs)
    BY <1>3 DEF ItemBlocks, PartBlocks
  <2> QED BY <1>1, <1>3, <2>3, <2>4
<1>4. CASE b.kind # "text" /\ ~(b.kind = "tool_use" /\ b.tool # Nil /\ HasPair(pairs, b.tool))
  BY <1>4 DEF ItemBlocks, PartBlocks
<1> QED BY <1>2, <1>3, <1>4

\* What an event adds to the conversation and what it adds to the document.
LEMMA EventAgrees ==
    ASSUME NEW B, NEW e, e.blocks \in Seq(B), NEW pairs, PairsNamed(pairs)
    PROVE  /\ ItemTexts(ItemsIn(e, pairs, NoFilters)) = MarkdownTexts(AssistantMarkdown(e, pairs))
           /\ ItemTools(ItemsIn(e, pairs, NoFilters)) = MarkdownTools(AssistantMarkdown(e, pairs))
<1> DEFINE ZI == ItemBlocks(B, pairs)
           fI == AsItem(B)
           ZP == PartBlocks(B, pairs)
           fP == AsPart(B, pairs)
           J == {fI[b] : b \in B}
           P == {fP[b] : b \in B}
           JT == {x \in J : ~IsBlank(x.text)}
           JP == {x \in J : x.pair # Nil}
           PT == {x \in P : x.text # Nil}
           PP == {x \in P : x.pair # Nil}
           Agree(bs) == /\ Those(Those(bs, ZI, fI), JT, TextOf(J)) = Those(Those(bs, ZP, fP), PT, TextOf(P))
                        /\ Those(Those(bs, ZI, fI), JP, PairOf(J)) = Those(Those(bs, ZP, fP), PP, PairOf(P))
           G == {bs \in Seq(B) : Agree(bs)}
<1>1. \A bs \in Seq(B) : Those(bs, ZI, fI) \in Seq(J) /\ Those(bs, ZP, fP) \in Seq(P)
  <2> TAKE bs \in Seq(B)
  <2>1. (\A b \in B \cap ZI : fI[b] \in J) /\ (\A b \in B \cap ZP : fP[b] \in P)
    OBVIOUS
  <2> HIDE DEF J, P, ZI, ZP, fI, fP
  <2> QED BY <2>1, ThoseType
<1>2. <<>> \in G
  <2> HIDE DEF J, P, JT, JP, PT, PP, ZI, ZP, fI, fP
  <2> QED BY ThoseNone, EmptySeq
<1>3. ASSUME NEW bs \in Seq(B), NEW b \in B, bs \in G PROVE Append(bs, b) \in G
  <2> DEFINE u == Those(bs, ZI, fI)
             v == Those(bs, ZP, fP)
             it == fI[b]
             part == fP[b]
  <2>1. /\ Append(bs, b) \in Seq(B) /\ u \in Seq(J) /\ v \in Seq(P) /\ it \in J /\ part \in P
    BY <1>1, AppendProperties
  <2>2. /\ b \in ZI /\ ~IsBlank(it.text) <=> b \in ZP /\ part.text # Nil
        /\ b \in ZI /\ ~IsBlank(it.text) => it.text = part.text
        /\ b \in ZI /\ it.pair # Nil <=> b \in ZP /\ part.pair # Nil
        /\ b \in ZI /\ it.pair # Nil => it.pair = part.pair
    BY BlockAgrees
  <2>3. /\ it \in JT <=> ~IsBlank(it.text)
        /\ it \in JP <=> it.pair # Nil
        /\ part \in PT <=> part.text # Nil
        /\ part \in PP <=> part.pair # Nil
        /\ TextOf(J)[it] = it.text /\ PairOf(J)[it] = it.pair
        /\ TextOf(P)[part] = part.text /\ PairOf(P)[part] = part.pair
    BY <2>1 DEF TextOf, PairOf
  <2>4. Those(Append(bs, b), ZI, fI) = IF b \in ZI THEN Append(u, it) ELSE u
    BY ThoseAppend
  <2>5. Those(Append(bs, b), ZP, fP) = IF b \in ZP THEN Append(v, part) ELSE v
    BY ThoseAppend
  <2>6. Agree(bs)
    BY <1>3
  <2> HIDE DEF u, v, it, part, ZI, ZP, fI, fP, J, P
  <2>7. /\ Those(Append(u, it), JT, TextOf(J))
           = IF it \in JT THEN Append(Those(u, JT, TextOf(J)), it.text) ELSE Those(u, JT, TextOf(J))
        /\ Those(Append(u, it), JP, PairOf(J))
           = IF it \in JP THEN Append(Those(u, JP, PairOf(J)), it.pair) ELSE Those(u, JP, PairOf(J))
    <3> HIDE DEF JT, JP
    <3> QED BY <2>1, <2>3, ThoseAppend
  <2>8. /\ Those(Append(v, part), PT, TextOf(P))
           = IF part \in PT THEN Append(Those(v, PT, TextOf(P)), part.text) ELSE Those(v, PT, TextOf(P))
        /\ Those(Append(v, part), PP, PairOf(P))
           = IF part \in PP THEN Append(Those(v, PP, PairOf(P)), part.pair) ELSE Those(v, PP, PairOf(P))
    <3> HIDE DEF PT, PP
    <3> QED BY <2>1, <2>3, ThoseAppend
  <2> HIDE DEF JT, JP, PT, PP
  <2>9. Those(Those(Append(bs, b), ZI, fI), JT, TextOf(J)) = Those(Those(Append(bs, b), ZP, fP), PT, TextOf(P))
    BY <2>2, <2>3, <2>4, <2>5, <2>6, <2>7, <2>8 DEF u, v
  <2>10. Those(Those(Append(bs, b), ZI, fI), JP, PairOf(J)) = Those(Those(Append(bs, b), ZP, fP), PP, PairOf(P))
    BY <2>2, <2>3, <2>4, <2>5, <2>6, <2>7, <2>8 DEF u, v
  <2> QED BY <2>1, <2>9, <2>10
<1>4. e.blocks \in G
  <2> HIDE DEF G
  <2> QED BY <1>2, <1>3, SequencesIn
<1>5. /\ ItemsIn(e, pairs, NoFilters) = Those(e.blocks, ZI, fI)
      /\ AssistantMarkdown(e, pairs) = Those(e.blocks, ZP, fP)
  BY ItemsAre, PartsAre
<1> HIDE DEF ZI, ZP, fI, fP, J, P
<1> QED BY <1>1, <1>4, <1>5, ItemTextsAre, ItemToolsAre, MarkdownTextsAre, MarkdownToolsAre

-----------------------------------------------------------------------------
(* The chunks, one event after another.                                    *)

Adds(f, es, pairs, filters, n) ==
    f = [i \in 0..n |-> IF i = 0 THEN NothingPending ELSE AddEvent(f[i - 1], es[i], pairs, filters)]

LEMMA AddsAt ==
    ASSUME NEW n, NEW f, NEW es, NEW pairs, NEW filters, Adds(f, es, pairs, filters, n), NEW i \in 0..n
    PROVE  f[i] = IF i = 0 THEN NothingPending ELSE AddEvent(f[i - 1], es[i], pairs, filters)
<1> DEFINE g == [k \in 0..n |-> IF k = 0 THEN NothingPending
                                ELSE AddEvent(f[k - 1], es[k], pairs, filters)]
<1>1. f = g
  BY DEF Adds
<1>2. g[i] = IF i = 0 THEN NothingPending ELSE AddEvent(f[i - 1], es[i], pairs, filters)
  OBVIOUS
<1> QED BY <1>1, <1>2

LEMMA AddsExist ==
    ASSUME NEW es, NEW pairs, NEW filters
    PROVE  \A n \in Nat : \E f : Adds(f, es, pairs, filters, n)
<1> DEFINE G == {n \in Nat : \E f : Adds(f, es, pairs, filters, n)}
<1>1. 0 \in G
  <2> DEFINE f == [i \in 0..0 |-> NothingPending]
  <2>1. Adds(f, es, pairs, filters, 0)
    BY DEF Adds
  <2> QED BY <2>1
<1>2. ASSUME NEW n \in Nat, n \in G PROVE n + 1 \in G
  <2>1. PICK f : Adds(f, es, pairs, filters, n)
    BY <1>2
  <2> DEFINE last == AddEvent(f[n], es[n + 1], pairs, filters)
             g == [i \in 0..(n + 1) |-> IF i <= n THEN f[i] ELSE last]
  <2>2. \A i \in 0..(n + 1) :
            g[i] = IF i = 0 THEN NothingPending ELSE AddEvent(g[i - 1], es[i], pairs, filters)
    <3> SUFFICES ASSUME NEW i \in 0..(n + 1)
                 PROVE  g[i] = IF i = 0 THEN NothingPending
                               ELSE AddEvent(g[i - 1], es[i], pairs, filters)
      OBVIOUS
    <3>1. CASE i <= n
      <4>1. f[i] = IF i = 0 THEN NothingPending ELSE AddEvent(f[i - 1], es[i], pairs, filters)
        BY <2>1, <3>1, AddsAt
      <4>2. i # 0 => g[i - 1] = f[i - 1]
        BY <3>1
      <4>3. g[i] = f[i]
        BY <3>1
      <4> HIDE DEF g
      <4> QED BY <4>1, <4>2, <4>3
    <3>2. CASE i = n + 1
      <4>1. i # 0 /\ g[i - 1] = f[n] /\ g[i] = last
        BY <3>2
      <4> HIDE DEF g
      <4> QED BY <3>2, <4>1
    <3> QED BY <3>1, <3>2
  <2>3. Adds(g, es, pairs, filters, n + 1)
    <3>1. g = [i \in 0..(n + 1) |-> g[i]]
      OBVIOUS
    <3> HIDE DEF g
    <3> QED BY <2>2, <3>1 DEF Adds
  <2> HIDE DEF g
  <2> QED BY <2>3
<1> HIDE DEF G
<1>3. \A n \in Nat : n \in G
  BY <1>1, <1>2, NumbersIn
<1> QED BY <1>3 DEF G

LEMMA AddEventsIs ==
    ASSUME NEW es, Len(es) \in Nat, NEW pairs, NEW filters
    PROVE  \E f : Adds(f, es, pairs, filters, Len(es)) /\ AddEvents(es, pairs, filters) = f[Len(es)]
<1>1. \E f : Adds(f, es, pairs, filters, Len(es))
  BY AddsExist
<1> QED BY <1>1 DEF AddEvents, Adds

LEMMA AddsAgree ==
    ASSUME NEW n \in Nat, NEW m \in Nat, n <= m, NEW es, NEW fs, NEW pairs, NEW filters,
           NEW f, Adds(f, es, pairs, filters, n), NEW g, Adds(g, fs, pairs, filters, m),
           \A i \in 1..n : es[i] = fs[i]
    PROVE  f[n] = g[n]
<1> DEFINE G == {i \in Nat : i <= n => f[i] = g[i]}
<1>1. 0 \in G
  <2>1. 0 \in 0..n /\ 0 \in 0..m
    OBVIOUS
  <2>2. f[0] = NothingPending /\ g[0] = NothingPending
    BY <2>1, AddsAt
  <2> QED BY <2>2
<1>2. ASSUME NEW i \in Nat, i \in G PROVE i + 1 \in G
  <2> SUFFICES ASSUME i + 1 <= n PROVE f[i + 1] = g[i + 1]
    OBVIOUS
  <2>1. f[i] = g[i]
    BY <1>2
  <2>2. i + 1 \in 0..n /\ i + 1 \in 0..m /\ (i + 1) - 1 = i /\ i + 1 # 0 /\ i + 1 \in 1..n
    OBVIOUS
  <2>3. f[i + 1] = AddEvent(f[i], es[i + 1], pairs, filters)
    BY <2>2, AddsAt
  <2>4. g[i + 1] = AddEvent(g[i], fs[i + 1], pairs, filters)
    BY <2>2, AddsAt
  <2> QED BY <2>1, <2>2, <2>3, <2>4
<1>3. n \in G
  <2> HIDE DEF G
  <2> QED BY <1>1, <1>2, NumbersIn
<1> QED BY <1>3

LEMMA AddNone ==
    ASSUME NEW pairs, NEW filters
    PROVE  AddEvents(<<>>, pairs, filters) = NothingPending
<1>1. Len(<<>>) = 0 /\ 0 \in 0..0
  OBVIOUS
<1>2. PICK f : Adds(f, <<>>, pairs, filters, 0) /\ AddEvents(<<>>, pairs, filters) = f[0]
  BY <1>1, AddEventsIs
<1>3. f[0] = NothingPending
  BY <1>1, <1>2, AddsAt
<1> QED BY <1>2, <1>3

LEMMA AddAppend ==
    ASSUME NEW E, NEW es \in Seq(E), NEW e \in E, NEW pairs, NEW filters
    PROVE  AddEvents(Append(es, e), pairs, filters)
           = AddEvent(AddEvents(es, pairs, filters), e, pairs, filters)
<1> DEFINE n == Len(es)
           fs == Append(es, e)
<1>1. /\ n \in Nat /\ Len(fs) = n + 1 /\ fs[n + 1] = e
      /\ \A i \in 1..n : es[i] = fs[i]
  BY AppendProperties, LenProperties
<1> HIDE DEF fs, n
<1>2. PICK f : Adds(f, es, pairs, filters, n) /\ AddEvents(es, pairs, filters) = f[n]
  BY <1>1, AddEventsIs DEF n
<1>3. PICK g : Adds(g, fs, pairs, filters, n + 1) /\ AddEvents(fs, pairs, filters) = g[n + 1]
  BY <1>1, AddEventsIs
<1>4. f[n] = g[n]
  BY <1>1, <1>2, <1>3, AddsAgree
<1>5. g[n + 1] = AddEvent(g[n], fs[n + 1], pairs, filters)
  <2>1. n + 1 \in 0..(n + 1) /\ (n + 1) - 1 = n /\ n + 1 # 0
    BY <1>1
  <2> QED BY <1>3, <2>1, AddsAt
<1> QED BY <1>1, <1>2, <1>3, <1>4, <1>5 DEF fs

-----------------------------------------------------------------------------
(* What chunks tell, one chunk after another.                              *)

TextsOfAll(J) == {x.text : x \in J}

\* The chunks of C have items of J.
Carry(C, J) == \A x \in C : x.items \in Seq(J)

LEMMA ItemTextsType ==
    ASSUME NEW J, NEW items \in Seq(J)
    PROVE  ItemTexts(items) \in Seq(TextsOfAll(J))
<1>1. \A x \in J : TextOf(J)[x] \in TextsOfAll(J)
  BY DEF TextOf, TextsOfAll
<1>2. Those(items, {x \in J : ~IsBlank(x.text)}, TextOf(J)) \in Seq(TextsOfAll(J))
  BY <1>1, ThoseType
<1> QED BY <1>2, ItemTextsAre

LEMMA ChunkTextsAppend ==
    ASSUME NEW J, NEW C, Carry(C, J), NEW chunks \in Seq(C), NEW c \in C
    PROVE  /\ ChunkTexts(Append(chunks, c)) = Join(ChunkTexts(chunks), ItemTexts(c.items))
           /\ ChunkTexts(chunks) \in Seq(TextsOfAll(J))
<1> DEFINE f == [x \in C |-> ItemTexts(x.items)]
           T == TextsOfAll(J)
<1>1. \A x \in C : f[x] \in Seq(T)
  BY ItemTextsType DEF Carry
<1>2. \A cs \in Seq(C) : ChunkTexts(cs) = Flat(cs, f)
  <2> TAKE cs \in Seq(C)
  <2>1. \A i \in 1..Len(cs) : f[cs[i]] = ItemTexts(cs[i].items)
    BY ElementOfSeq
  <2> HIDE DEF f
  <2> QED BY <2>1 DEF ChunkTexts, Flat
<1> HIDE DEF f, T
<1>3. Flat(Append(chunks, c), f) = Flat(chunks, f) \o f[c] /\ Flat(chunks, f) \in Seq(T)
  BY <1>1, FlatAppend, FlatType
<1>4. Append(chunks, c) \in Seq(C)
  BY AppendProperties
<1>5. f[c] = ItemTexts(c.items)
  BY DEF f
<1> QED BY <1>2, <1>3, <1>4, <1>5 DEF T, Join

LEMMA ChunkToolsAppend ==
    ASSUME NEW C, NEW chunks \in Seq(C), NEW c \in C
    PROVE  ChunkTools(Append(chunks, c))
           = IF c.kind = "tool" THEN Append(ChunkTools(chunks), c.pair) ELSE ChunkTools(chunks)
<1> DEFINE Z == {x \in C : x.kind = "tool"}
<1>1. \A cs \in Seq(C) : ChunkTools(cs) = Those(cs, Z, PairOf(C))
  BY ChunkToolsAre
<1>2. Append(chunks, c) \in Seq(C)
  BY AppendProperties
<1>3. c \in Z <=> c.kind = "tool"
  OBVIOUS
<1>4. PairOf(C)[c] = c.pair
  BY DEF PairOf
<1> HIDE DEF Z
<1>5. Those(Append(chunks, c), Z, PairOf(C))
      = IF c \in Z THEN Append(Those(chunks, Z, PairOf(C)), PairOf(C)[c]) ELSE Those(chunks, Z, PairOf(C))
  BY ThoseAppend
<1> QED BY <1>1, <1>2, <1>3, <1>4, <1>5

ToolChunk(pair) == [NoChunk EXCEPT !.kind = "tool", !.pair = pair]

LEMMA ToolChunkIs ==
    \A pair : /\ ToolChunk(pair).kind = "tool" /\ ToolChunk(pair).pair = pair
              /\ ToolChunk(pair).items = <<>>
<1> QED BY DEF ToolChunk, NoChunk

Calls(tools) == [i \in 1..Len(tools) |-> ToolChunk(tools[i].pair)]
Called(tools) == [i \in 1..Len(tools) |-> tools[i].pair]

\* The chunks of C have those of calls that items of K stand for.
HasCalls(C, K) == \A x \in K : ToolChunk(x.pair) \in C

\* The chunks of the calls of an event have no text, and tell those calls.
LEMMA CallsTell ==
    ASSUME NEW J, NEW C, Carry(C, J), NEW chunks \in Seq(C),
           NEW K, NEW tools \in Seq(K), HasCalls(C, K)
    PROVE  /\ Calls(tools) \in Seq(C)
           /\ ChunkTexts(Join(chunks, Calls(tools))) = ChunkTexts(chunks)
           /\ ChunkTools(Join(chunks, Calls(tools))) = Join(ChunkTools(chunks), Called(tools))
<1> DEFINE U == {ToolChunk(x.pair) : x \in K}
           n == Len(tools)
           calls == [i \in 1..n |-> ToolChunk(tools[i].pair)]
           G == {us \in Seq(U) : ChunkTexts(chunks \o us) = ChunkTexts(chunks)}
<1>1. n \in Nat /\ \A i \in 1..n : tools[i] \in K
  BY LenProperties, ElementOfSeq
<1>2. calls \in Seq(U) /\ Len(calls) = n /\ DOMAIN calls = 1..n
  <2>1. calls \in [1..n -> U]
    BY <1>1
  <2>2. calls \in Seq(U)
    BY <1>1, <2>1, SeqDef
  <2> QED BY <1>1, <2>2, LenProperties
<1>3. U \subseteq C /\ \A u \in U : u.kind = "tool" /\ u.items = <<>>
  BY ToolChunkIs DEF HasCalls
<1>4. <<>> \in G
  BY ConcatEmptySeq, EmptySeq
<1>5. ASSUME NEW us \in Seq(U), NEW u \in U, us \in G PROVE Append(us, u) \in G
  <2> HIDE DEF U
  <2>1. us \in Seq(C) /\ u \in C
    BY <1>3, SeqMonotonic
  <2>2. chunks \o us \in Seq(C) /\ chunks \o Append(us, u) = Append(chunks \o us, u)
    BY <2>1
  <2>3. ChunkTexts(Append(chunks \o us, u)) = ChunkTexts(chunks \o us) \o ItemTexts(u.items)
    <3> DEFINE v == chunks \o us
    <3>1. v \in Seq(C)
      BY <2>2
    <3> HIDE DEF v
    <3>2. ChunkTexts(Append(v, u)) = Join(ChunkTexts(v), ItemTexts(u.items))
      BY <2>1, <3>1, ChunkTextsAppend
    <3> QED BY <3>2 DEF v, Join
  <2>4. ItemTexts(u.items) = <<>>
    BY <1>3, ItemTextsAre, ThoseNone, EmptySeq
  <2>5. ChunkTexts(chunks) \in Seq(TextsOfAll(J))
    BY <2>1, ChunkTextsAppend
  <2>6. ChunkTexts(chunks) \o <<>> = ChunkTexts(chunks)
    BY <2>5, ConcatEmptySeq
  <2>7. ChunkTexts(chunks \o us) = ChunkTexts(chunks)
    BY <1>5
  <2>8. ChunkTexts(chunks \o Append(us, u)) = ChunkTexts(chunks)
    BY <2>2, <2>3, <2>4, <2>6, <2>7, Zenon
  <2> QED BY <2>8, AppendProperties
<1>6. calls \in G
  <2> HIDE DEF G, calls, U
  <2> QED BY <1>2, <1>4, <1>5, SequencesIn
<1>7. calls \in Seq(C)
  <2> HIDE DEF calls, U
  <2> QED BY <1>2, <1>3, SeqMonotonic
<1> DEFINE Z == {x \in C : x.kind = "tool"}
<1>8. ChunkTools(chunks \o calls) = ChunkTools(chunks) \o ChunkTools(calls)
  <2> HIDE DEF calls, Z
  <2>1. chunks \o calls \in Seq(C)
    BY <1>7, ConcatProperties
  <2>2. \A cs \in Seq(C) : ChunkTools(cs) = Those(cs, Z, PairOf(C))
    BY ChunkToolsAre DEF Z
  <2>3. Those(chunks \o calls, Z, PairOf(C)) = Those(chunks, Z, PairOf(C)) \o Those(calls, Z, PairOf(C))
    BY <1>7, ThoseConcat
  <2> QED BY <1>7, <2>1, <2>2, <2>3
<1>9. ChunkTools(calls) = [i \in 1..n |-> tools[i].pair]
  <2>1. Sel(calls, Z) = calls
    <3>1. U \subseteq Z
      BY <1>3
    <3> HIDE DEF calls, Z, U
    <3> QED BY <1>2, <3>1, SelAll
  <2>2. ChunkTools(calls) = [i \in 1..n |-> PairOf(C)[calls[i]]]
    <3> HIDE DEF calls, n
    <3> QED BY <1>2, <1>7, <2>1, ChunkToolsAre DEF Those
  <2>3. \A i \in 1..n : PairOf(C)[calls[i]] = tools[i].pair
    BY <1>1, ToolChunkIs DEF PairOf, HasCalls
  <2> HIDE DEF calls, n
  <2> QED BY <2>2, <2>3
<1>10. Calls(tools) = calls /\ Called(tools) = [i \in 1..n |-> tools[i].pair]
  BY DEF Calls, Called
<1> HIDE DEF calls
<1> QED BY <1>6, <1>7, <1>8, <1>9, <1>10 DEF Join

-----------------------------------------------------------------------------
(* One event after another: what is told so far, in the chunks and in what *)
(* is pending.                                                             *)

Pending(acc, J) ==
    /\ DOMAIN acc = {"chunks", "items", "thinking"}
    /\ acc.items \in Seq(J)
    /\ \E C : Carry(C, J) /\ acc.chunks \in Seq(C)

TextsSoFar(acc) == Join(ChunkTexts(acc.chunks), ItemTexts(acc.items))

LEMMA ChunksType ==
    ASSUME NEW J, NEW C, Carry(C, J), NEW chunks \in Seq(C)
    PROVE  ChunkTexts(chunks) \in Seq(TextsOfAll(J))
<1>1. CASE C = {}
  <2>1. Sel(chunks, {}) = chunks /\ Sel(chunks, {}) = <<>>
    BY <1>1, SelAll, SelNothing
  <2>2. ChunkTexts(<<>>) = <<>>
    <3>1. [i \in 1..Len(<<>>) |-> ItemTexts(<<>>[i].items)] = <<>>
      OBVIOUS
    <3> QED BY <3>1, FlattenNone DEF ChunkTexts
  <2> QED BY <2>1, <2>2, EmptySeq
<1>2. CASE C # {}
  BY <1>2, ChunkTextsAppend
<1> QED BY <1>1, <1>2

LEMMA ChunksNone == ChunkTexts(<<>>) = <<>> /\ ChunkTools(<<>>) = <<>>
<1>1. [i \in 1..Len(<<>>) |-> ItemTexts(<<>>[i].items)] = <<>>
  OBVIOUS
<1>2. ChunkTexts(<<>>) = <<>>
  BY <1>1, FlattenNone DEF ChunkTexts
<1>3. ChunkTools(<<>>) = <<>>
  BY EmptySeq, ChunkToolsAre, ThoseNone
<1> QED BY <1>2, <1>3

LEMMA ItemsNone == ItemTexts(<<>>) = <<>> /\ ItemTools(<<>>) = <<>>
<1> QED BY EmptySeq, ItemTextsAre, ItemToolsAre, ThoseNone

LEMMA TextlessItems ==
    ASSUME NEW J, NEW items \in Seq(J), ~HasText(items)
    PROVE  ItemTexts(items) = <<>>
<1> DEFINE R == {items[i] : i \in 1..Len(items)}
           Z == {x \in R : ~IsBlank(x.text)}
<1>1. items \in Seq(R)
  <2>1. Len(items) \in Nat /\ items \in [1..Len(items) -> R]
    BY LenProperties
  <2> QED BY <2>1, SeqDef
<1>2. Z = {}
  BY LenProperties DEF HasText, IsBlank
<1>3. Sel(items, Z) = <<>>
  <2> HIDE DEF R, Z
  <2> QED BY <1>1, <1>2, SelNothing
<1>4. ItemTexts(items) = Those(items, Z, TextOf(R))
  <2> HIDE DEF R
  <2> QED BY <1>1, ItemTextsAre
<1> HIDE DEF Z, R
<1> QED BY <1>3, <1>4 DEF Those

\* Nothing is lost when what is pending becomes a chunk, or does not.
LEMMA FlushTells ==
    ASSUME NEW J, NEW acc, Pending(acc, J)
    PROVE  /\ Pending(Flush(acc), J)
           /\ Flush(acc).items = <<>>
           /\ ChunkTexts(Flush(acc).chunks) = TextsSoFar(acc)
           /\ ChunkTools(Flush(acc).chunks) = ChunkTools(acc.chunks)
<1> DEFINE flushed == HasText(acc.items) \/ acc.thinking # <<>>
           c == [NoChunk EXCEPT !.kind = "assistant", !.items = acc.items, !.thinking = acc.thinking]
<1>1. PICK C : Carry(C, J) /\ acc.chunks \in Seq(C)
  BY DEF Pending
<1>2. acc.items \in Seq(J)
  BY DEF Pending
<1>3. c.kind = "assistant" /\ c.items = acc.items
  BY DEF NoChunk
<1>4. /\ DOMAIN Flush(acc) = {"chunks", "items", "thinking"} /\ Flush(acc).items = <<>>
      /\ Flush(acc).chunks = IF flushed THEN Append(acc.chunks, c) ELSE acc.chunks
  BY DEF Flush, NothingPending
<1> HIDE DEF c, flushed
<1> DEFINE D == C \cup {c}
<1>5. Carry(D, J) /\ c \in D /\ acc.chunks \in Seq(D)
  <2>1. C \subseteq D
    OBVIOUS
  <2>2. Carry(D, J)
    BY <1>1, <1>2, <1>3 DEF Carry
  <2> HIDE DEF D
  <2> QED BY <1>1, <2>1, <2>2, SeqMonotonic DEF D
<1> HIDE DEF D
<1>6. Append(acc.chunks, c) \in Seq(D)
  BY <1>5, AppendProperties
<1>7. Pending(Flush(acc), J)
  <2>1. Flush(acc).chunks \in Seq(D)
    BY <1>4, <1>5, <1>6
  <2>2. Flush(acc).items \in Seq(J)
    BY <1>4, EmptySeq
  <2> QED BY <1>4, <1>5, <2>1, <2>2 DEF Pending
<1>8. ChunkTexts(acc.chunks) \in Seq(TextsOfAll(J))
  BY <1>1, ChunksType
<1>9. CASE flushed
  <2>1. ChunkTexts(Append(acc.chunks, c)) = Join(ChunkTexts(acc.chunks), ItemTexts(c.items))
    BY <1>5, ChunkTextsAppend
  <2>2. ChunkTools(Append(acc.chunks, c)) = ChunkTools(acc.chunks)
    BY <1>3, <1>5, ChunkToolsAppend
  <2> QED BY <1>3, <1>4, <1>7, <1>9, <2>1, <2>2 DEF TextsSoFar
<1>10. CASE ~flushed
  <2>1. ItemTexts(acc.items) = <<>>
    BY <1>2, <1>10, TextlessItems DEF flushed
  <2>2. Join(ChunkTexts(acc.chunks), <<>>) = ChunkTexts(acc.chunks)
    BY <1>8, ConcatEmptySeq DEF Join
  <2> QED BY <1>4, <1>7, <1>10, <2>1, <2>2 DEF TextsSoFar
<1> QED BY <1>9, <1>10

\* What an event of the assistant adds is told after what was told before.
LEMMA AssistantTells ==
    ASSUME NEW J, NEW acc, Pending(acc, J), NEW e, NEW pairs, NEW filters,
           ItemsIn(e, pairs, filters) \in Seq(J)
    PROVE  LET after == AddAssistant(acc, e, pairs, filters)
               items == ItemsIn(e, pairs, filters)
           IN  /\ Pending(after, J)
               /\ TextsSoFar(after) = Join(TextsSoFar(acc), ItemTexts(items))
               /\ ChunkTools(after.chunks) = Join(ChunkTools(acc.chunks), ItemTools(items))
<1> DEFINE items == ItemsIn(e, pairs, filters)
           tools == ToolsIn(items)
           added == [acc EXCEPT !.items = @ \o items, !.thinking = @ \o ThinkingOf(e)]
           calls == Calls(tools)
           after == AddAssistant(acc, e, pairs, filters)
<1>1. /\ DOMAIN acc = {"chunks", "items", "thinking"} /\ acc.items \in Seq(J)
      /\ \E C : Carry(C, J) /\ acc.chunks \in Seq(C)
  BY DEF Pending
<1>2. /\ DOMAIN added = {"chunks", "items", "thinking"} /\ added.chunks = acc.chunks
      /\ added.items = acc.items \o items
  BY <1>1
<1>3. after = IF tools = <<>> THEN added ELSE [Flush(added) EXCEPT !.chunks = @ \o calls]
  BY DEF AddAssistant, ToolChunk, Calls
<1>4. items \in Seq(J)
  OBVIOUS
<1> HIDE DEF added, items, after
<1>5. added.items \in Seq(J)
  BY <1>1, <1>2, <1>4, ConcatProperties
<1>6. Pending(added, J)
  BY <1>1, <1>2, <1>5 DEF Pending
<1>7. ItemTexts(added.items) = Join(ItemTexts(acc.items), ItemTexts(items))
  <2> DEFINE Z == {x \in J : ~IsBlank(x.text)}
  <2>1. \A it \in Seq(J) : ItemTexts(it) = Those(it, Z, TextOf(J))
    BY ItemTextsAre
  <2> HIDE DEF Z
  <2>2. Those(acc.items \o items, Z, TextOf(J)) = Those(acc.items, Z, TextOf(J)) \o Those(items, Z, TextOf(J))
    BY <1>1, <1>4, ThoseConcat
  <2> QED BY <1>1, <1>2, <1>4, <1>5, <2>1, <2>2 DEF Join
<1>8. TextsSoFar(added) = Join(TextsSoFar(acc), ItemTexts(items))
  <2>1. ChunkTexts(acc.chunks) \in Seq(TextsOfAll(J))
    BY <1>1, ChunksType
  <2>2. ItemTexts(acc.items) \in Seq(TextsOfAll(J)) /\ ItemTexts(items) \in Seq(TextsOfAll(J))
    BY <1>1, <1>4, ItemTextsType
  <2>3. \A a, b, d \in Seq(TextsOfAll(J)) : Join(a, Join(b, d)) = Join(Join(a, b), d)
    BY ConcatAssociative DEF Join
  <2> QED BY <1>2, <1>7, <2>1, <2>2, <2>3 DEF TextsSoFar
<1>9. \E K : tools \in Seq(K) /\ K \subseteq J
  <2> DEFINE Z == {x \in J : x.pair # Nil}
  <2>1. {i \in DOMAIN items : items[i].pair # Nil} = {i \in DOMAIN items : items[i] \in Z}
    BY <1>4, IndexIn
  <2>2. tools = Sel(items, Z)
    BY <2>1 DEF ToolsIn, Where, Sel
  <2>3. tools \in Seq(J \cap Z)
    <3> HIDE DEF Z, tools
    <3> QED BY <1>4, <2>2, SelType
  <2> QED BY <2>3
<1> HIDE DEF tools
<1>10. tools \in Seq(J)
  BY <1>9, SeqMonotonic
<1>11. Len(tools) \in Nat /\ DOMAIN tools = 1..Len(tools)
  BY <1>10, LenProperties
<1>12. ItemTools(items) = [i \in 1..Len(tools) |-> tools[i].pair]
  BY <1>11 DEF ItemTools, tools
<1>13. CASE tools = <<>>
  <2>1. ItemTools(items) = <<>>
    BY <1>12, <1>13
  <2>2. \E C : acc.chunks \in Seq(C)
    BY <1>1
  <2>3. Join(ChunkTools(acc.chunks), <<>>) = ChunkTools(acc.chunks)
    <3>1. PICK C : acc.chunks \in Seq(C)
      BY <2>2
    <3> DEFINE Z == {x \in C : x.kind = "tool"}
               K == {PairOf(C)[x] : x \in C}
    <3>2. \A x \in C \cap Z : PairOf(C)[x] \in K
      OBVIOUS
    <3>3. ChunkTools(acc.chunks) = Those(acc.chunks, Z, PairOf(C))
      BY <3>1, ChunkToolsAre
    <3> HIDE DEF Z, K
    <3>4. ChunkTools(acc.chunks) \in Seq(K)
      BY <3>1, <3>2, <3>3, ThoseType
    <3> QED BY <3>4, ConcatEmptySeq DEF Join
  <2> QED BY <1>2, <1>3, <1>6, <1>8, <1>13, <2>1, <2>3 DEF after, items
<1>14. CASE tools # <<>>
  <2> DEFINE f == Flush(added)
  <2>1. /\ Pending(f, J) /\ f.items = <<>>
        /\ ChunkTexts(f.chunks) = TextsSoFar(added) /\ ChunkTools(f.chunks) = ChunkTools(added.chunks)
    BY <1>6, FlushTells
  <2> HIDE DEF f
  <2>2. PICK C : Carry(C, J) /\ f.chunks \in Seq(C)
    BY <2>1 DEF Pending
  <2> DEFINE D == C \cup {ToolChunk(x.pair) : x \in J}
  <2>3. Carry(D, J) /\ HasCalls(D, J) /\ C \subseteq D
    BY <2>2, ToolChunkIs, EmptySeq DEF Carry, HasCalls
  <2> HIDE DEF D
  <2>4. f.chunks \in Seq(D)
    BY <2>2, <2>3, SeqMonotonic
  <2>5. /\ calls \in Seq(D)
        /\ ChunkTexts(Join(f.chunks, calls)) = ChunkTexts(f.chunks)
        /\ ChunkTools(Join(f.chunks, calls)) = Join(ChunkTools(f.chunks), Called(tools))
    <3> DEFINE v == f.chunks
    <3>1. v \in Seq(D)
      BY <2>4
    <3> HIDE DEF v
    <3>2. /\ Calls(tools) \in Seq(D)
          /\ ChunkTexts(Join(v, Calls(tools))) = ChunkTexts(v)
          /\ ChunkTools(Join(v, Calls(tools))) = Join(ChunkTools(v), Called(tools))
      BY <1>10, <2>3, <3>1, CallsTell
    <3> QED BY <3>2 DEF v
  <2> HIDE DEF calls
  <2>6. /\ DOMAIN after = {"chunks", "items", "thinking"} /\ after.items = <<>>
        /\ after.chunks = Join(f.chunks, calls)
    BY <1>3, <1>14, <2>1 DEF f, Pending, Join
  <2>7. after.chunks \in Seq(D) /\ after.items \in Seq(J)
    BY <2>4, <2>5, <2>6, ConcatProperties, EmptySeq DEF Join
  <2>8. Pending(after, J)
    BY <2>3, <2>6, <2>7 DEF Pending
  <2>9. ChunkTexts(after.chunks) \in Seq(TextsOfAll(J))
    BY <2>3, <2>7, ChunksType
  <2>10. TextsSoFar(after) = ChunkTexts(after.chunks)
    BY <2>6, <2>9, ItemsNone, ConcatEmptySeq DEF TextsSoFar, Join
  <2>11. TextsSoFar(after) = Join(TextsSoFar(acc), ItemTexts(items))
    BY <1>8, <2>1, <2>5, <2>6, <2>10
  <2>12. ChunkTools(after.chunks) = Join(ChunkTools(acc.chunks), ItemTools(items))
    BY <1>2, <1>12, <2>1, <2>5, <2>6 DEF Called
  <2> QED BY <2>8, <2>11, <2>12 DEF after, items
<1> QED BY <1>13, <1>14

\* The items that blocks of B become.
ItemsOf(B) == {AsItem(B)[b] : b \in B}

PartsOf(B, pairs) == {AsPart(B, pairs)[b] : b \in B}

LEMMA ItemsInType ==
    ASSUME NEW B, NEW e, e.blocks \in Seq(B), NEW pairs
    PROVE  /\ ItemsIn(e, pairs, NoFilters) \in Seq(ItemsOf(B))
           /\ AssistantMarkdown(e, pairs) \in Seq(PartsOf(B, pairs))
<1> DEFINE J == ItemsOf(B)
           P == PartsOf(B, pairs)
           Z == ItemBlocks(B, pairs)
           W == PartBlocks(B, pairs)
           f == AsItem(B)
           g == AsPart(B, pairs)
<1>1. ItemsIn(e, pairs, NoFilters) = Those(e.blocks, Z, f)
  BY ItemsAre
<1>2. AssistantMarkdown(e, pairs) = Those(e.blocks, W, g)
  BY PartsAre
<1>3. (\A b \in B \cap Z : f[b] \in J) /\ (\A b \in B \cap W : g[b] \in P)
  BY DEF ItemsOf, PartsOf
<1> DEFINE bs == e.blocks
<1>4. bs \in Seq(B)
  OBVIOUS
<1> HIDE DEF J, P, Z, W, f, g, bs
<1>5. Those(bs, Z, f) \in Seq(J)
  BY <1>3, <1>4, ThoseType
<1>6. Those(bs, W, g) \in Seq(P)
  BY <1>3, <1>4, ThoseType
<1> QED BY <1>1, <1>2, <1>5, <1>6 DEF bs, J, P

LEMMA OtherChunkIs ==
    ASSUME NEW e
    PROVE  OtherChunk(e).kind \notin {"tool", "assistant"} /\ OtherChunk(e).items = <<>>
<1> QED BY DEF OtherChunk, NoChunk

\* Whether an event is one the document tells.
Tells(e) == ~IsToolResult(e) /\ IsAssistant(e)

LEMMA AddEventTells ==
    ASSUME NEW B, NEW e, e.blocks \in Seq(B), NEW pairs, PairsNamed(pairs),
           NEW acc, Pending(acc, ItemsOf(B)), Tells(e)
    PROVE  LET after == AddEvent(acc, e, pairs, NoFilters)
               parts == AssistantMarkdown(e, pairs)
           IN  /\ Pending(after, ItemsOf(B))
               /\ TextsSoFar(after) = Join(TextsSoFar(acc), MarkdownTexts(parts))
               /\ ChunkTools(after.chunks) = Join(ChunkTools(acc.chunks), MarkdownTools(parts))
<1> DEFINE J == ItemsOf(B)
           items == ItemsIn(e, pairs, NoFilters)
           parts == AssistantMarkdown(e, pairs)
           after == AddAssistant(acc, e, pairs, NoFilters)
<1>1. AddEvent(acc, e, pairs, NoFilters) = after
  BY DEF AddEvent, Tells, EventVisible, NoFilters
<1>2. items \in Seq(J)
  BY ItemsInType
<1>3. ItemTexts(items) = MarkdownTexts(parts) /\ ItemTools(items) = MarkdownTools(parts)
  BY EventAgrees
<1>4. Pending(acc, J)
  OBVIOUS
<1> HIDE DEF J
<1>5. /\ Pending(after, J)
      /\ TextsSoFar(after) = Join(TextsSoFar(acc), ItemTexts(items))
      /\ ChunkTools(after.chunks) = Join(ChunkTools(acc.chunks), ItemTools(items))
  BY <1>2, <1>4, AssistantTells
<1> HIDE DEF after, items, parts
<1> QED BY <1>1, <1>3, <1>5 DEF J, parts

\* An event that is not told adds neither a text of the assistant nor a call.
LEMMA AddEventKeeps ==
    ASSUME NEW J, NEW e, NEW pairs, NEW acc, Pending(acc, J), ~Tells(e)
    PROVE  LET after == AddEvent(acc, e, pairs, NoFilters)
           IN  /\ Pending(after, J)
               /\ TextsSoFar(after) = TextsSoFar(acc)
               /\ ChunkTools(after.chunks) = ChunkTools(acc.chunks)
<1> DEFINE after == AddEvent(acc, e, pairs, NoFilters)
           c == OtherChunk(e)
           f == Flush(acc)
<1>1. after = acc \/ after = [f EXCEPT !.chunks = Append(@, c)]
  BY DEF AddEvent, Tells, EventVisible, NoFilters
<1>2. CASE after = acc
  BY <1>2
<1>3. CASE after = [f EXCEPT !.chunks = Append(@, c)]
  <2>1. /\ Pending(f, J) /\ f.items = <<>>
        /\ ChunkTexts(f.chunks) = TextsSoFar(acc) /\ ChunkTools(f.chunks) = ChunkTools(acc.chunks)
    BY FlushTells
  <2>2. c.kind # "tool" /\ c.items = <<>>
    BY OtherChunkIs
  <2> HIDE DEF f, c
  <2>3. PICK C : Carry(C, J) /\ f.chunks \in Seq(C)
    BY <2>1 DEF Pending
  <2> DEFINE D == C \cup {c}
             v == f.chunks
  <2>4. Carry(D, J) /\ c \in D /\ C \subseteq D
    BY <2>2, <2>3, EmptySeq DEF Carry
  <2> HIDE DEF D
  <2>5. v \in Seq(D)
    BY <2>3, <2>4, SeqMonotonic
  <2> HIDE DEF v
  <2>6. /\ ChunkTexts(Append(v, c)) = Join(ChunkTexts(v), ItemTexts(c.items))
        /\ ChunkTexts(v) \in Seq(TextsOfAll(J))
    BY <2>4, <2>5, ChunkTextsAppend
  <2>7. ChunkTools(Append(v, c)) = ChunkTools(v)
    BY <2>2, <2>4, <2>5, ChunkToolsAppend
  <2>8. ChunkTexts(Append(v, c)) = ChunkTexts(v)
    BY <2>2, <2>6, ItemsNone, ConcatEmptySeq DEF Join
  <2>9. /\ DOMAIN after = {"chunks", "items", "thinking"} /\ after.items = <<>>
        /\ after.chunks = Append(v, c)
    BY <1>3, <2>1 DEF Pending, v
  <2>10. Append(v, c) \in Seq(D)
    BY <2>4, <2>5, AppendProperties
  <2>11. Pending(after, J)
    BY <2>4, <2>9, <2>10, EmptySeq DEF Pending
  <2>12. TextsSoFar(after) = Join(ChunkTexts(v), <<>>)
    BY <2>8, <2>9, ItemsNone DEF TextsSoFar
  <2>13. TextsSoFar(after) = ChunkTexts(v)
    BY <2>6, <2>12, ConcatEmptySeq DEF Join
  <2> QED BY <2>1, <2>7, <2>9, <2>11, <2>13 DEF v
<1> HIDE DEF after
<1> QED BY <1>1, <1>2, <1>3 DEF after

-----------------------------------------------------------------------------
(* The two renderings of a sequence of events, and of a turn.              *)

\* The events of E carry blocks of B.
Bearing(E, B) == \A e \in E : e.blocks \in Seq(B)

DocumentOf(E, pairs) == [e \in E |-> AssistantMarkdown(e, pairs)]

\* What format_turn_markdown writes of the events es.
Document(es, E, pairs) == Flat(Sel(es, {e \in E : Tells(e)}), DocumentOf(E, pairs))

LEMMA PartsJoin ==
    ASSUME NEW P, NEW u \in Seq(P), NEW v \in Seq(P)
    PROVE  /\ MarkdownTexts(Join(u, v)) = Join(MarkdownTexts(u), MarkdownTexts(v))
           /\ MarkdownTools(Join(u, v)) = Join(MarkdownTools(u), MarkdownTools(v))
<1> DEFINE Z == {x \in P : x.text # Nil}
           Y == {x \in P : x.pair # Nil}
<1>1. \A w \in Seq(P) : /\ MarkdownTexts(w) = Those(w, Z, TextOf(P))
                        /\ MarkdownTools(w) = Those(w, Y, PairOf(P))
  BY MarkdownTextsAre, MarkdownToolsAre
<1> HIDE DEF Z, Y
<1>2. u \o v \in Seq(P)
  BY ConcatProperties
<1>3. Those(u \o v, Z, TextOf(P)) = Those(u, Z, TextOf(P)) \o Those(v, Z, TextOf(P))
  BY ThoseConcat
<1>4. Those(u \o v, Y, PairOf(P)) = Those(u, Y, PairOf(P)) \o Those(v, Y, PairOf(P))
  BY ThoseConcat
<1> QED BY <1>1, <1>2, <1>3, <1>4 DEF Join

LEMMA DocumentNone ==
    ASSUME NEW E, NEW pairs
    PROVE  /\ Document(<<>>, E, pairs) = <<>>
           /\ MarkdownTexts(<<>>) = <<>> /\ MarkdownTools(<<>>) = <<>>
<1>1. Document(<<>>, E, pairs) = <<>>
  BY SelNone, FlatNone DEF Document
<1> QED BY <1>1, EmptySeq, MarkdownTextsAre, MarkdownToolsAre, ThoseNone

LEMMA DocumentAppend ==
    ASSUME NEW B, NEW E, Bearing(E, B), NEW pairs, NEW es \in Seq(E), NEW e \in E
    PROVE  /\ Document(Append(es, e), E, pairs)
              = IF Tells(e) THEN Join(Document(es, E, pairs), AssistantMarkdown(e, pairs))
                ELSE Document(es, E, pairs)
           /\ Document(es, E, pairs) \in Seq(PartsOf(B, pairs))
<1> DEFINE Z == {x \in E : Tells(x)}
           P == PartsOf(B, pairs)
           f == DocumentOf(E, pairs)
           u == Sel(es, Z)
<1>1. \A x \in E : f[x] = AssistantMarkdown(x, pairs) /\ f[x] \in Seq(P)
  BY ItemsInType DEF DocumentOf, Bearing
<1>2. e \in Z <=> Tells(e)
  OBVIOUS
<1>3. Document(es, E, pairs) = Flat(u, f) /\ Document(Append(es, e), E, pairs) = Flat(Sel(Append(es, e), Z), f)
  BY DEF Document
<1> HIDE DEF Z, P, f
<1>4. Sel(Append(es, e), Z) = IF e \in Z THEN Append(u, e) ELSE u
  BY SelAppend
<1>5. u \in Seq(E)
  BY SelIsSeq
<1> HIDE DEF u
<1>6. Flat(Append(u, e), f) = Flat(u, f) \o f[e]
  BY <1>1, <1>5, FlatAppend
<1>7. Flat(u, f) \in Seq(P)
  BY <1>1, <1>5, FlatType
<1> QED BY <1>1, <1>2, <1>3, <1>4, <1>6, <1>7 DEF Join, P

\* What is told so far of the answers of a turn is what its document says.
TellsAsWritten(es, E, B, pairs) ==
    LET acc == AddEvents(es, pairs, NoFilters)
        told == Document(es, E, pairs)
    IN  /\ Pending(acc, ItemsOf(B))
        /\ TextsSoFar(acc) = MarkdownTexts(told)
        /\ ChunkTools(acc.chunks) = MarkdownTools(told)

LEMMA AnswersTell ==
    ASSUME NEW B, NEW E, Bearing(E, B), NEW pairs, PairsNamed(pairs)
    PROVE  \A es \in Seq(E) : TellsAsWritten(es, E, B, pairs)
<1> DEFINE G == {es \in Seq(E) : TellsAsWritten(es, E, B, pairs)}
<1>1. <<>> \in G
  <2> DEFINE acc == AddEvents(<<>>, pairs, NoFilters)
             none == NothingPending
  <2>1. acc = none
    BY AddNone
  <2>2. DOMAIN none = {"chunks", "items", "thinking"} /\ none.items = <<>> /\ none.chunks = <<>>
    BY DEF NothingPending
  <2> HIDE DEF acc, none
  <2>3. Carry({}, ItemsOf(B))
    BY DEF Carry
  <2>4. Pending(acc, ItemsOf(B))
    BY <2>1, <2>2, <2>3, EmptySeq DEF Pending
  <2>5. TextsSoFar(acc) = <<>> /\ ChunkTools(acc.chunks) = <<>>
    BY <2>1, <2>2, ChunksNone, ItemsNone, EmptySeq, ConcatEmptySeq DEF TextsSoFar, Join
  <2> QED BY <2>4, <2>5, DocumentNone, EmptySeq DEF TellsAsWritten, acc
<1>2. ASSUME NEW es \in Seq(E), NEW e \in E, es \in G PROVE Append(es, e) \in G
  <2> DEFINE acc == AddEvents(es, pairs, NoFilters)
             after == AddEvents(Append(es, e), pairs, NoFilters)
             doc == Document(es, E, pairs)
             told == Document(Append(es, e), E, pairs)
             parts == AssistantMarkdown(e, pairs)
             J == ItemsOf(B)
             P == PartsOf(B, pairs)
  <2>1. /\ Pending(acc, J) /\ TextsSoFar(acc) = MarkdownTexts(doc)
        /\ ChunkTools(acc.chunks) = MarkdownTools(doc)
    BY <1>2 DEF TellsAsWritten
  <2>2. after = AddEvent(acc, e, pairs, NoFilters)
    BY AddAppend
  <2>3. e.blocks \in Seq(B)
    BY DEF Bearing
  <2>4. (told = IF Tells(e) THEN Join(doc, parts) ELSE doc) /\ doc \in Seq(P)
    BY DocumentAppend
  <2>5. parts \in Seq(P)
    BY <2>3, ItemsInType
  <2> HIDE DEF acc, after, doc, told, P
  <2>6. CASE Tells(e)
    <3>1. /\ Pending(after, J)
          /\ TextsSoFar(after) = Join(TextsSoFar(acc), MarkdownTexts(parts))
          /\ ChunkTools(after.chunks) = Join(ChunkTools(acc.chunks), MarkdownTools(parts))
      BY <2>1, <2>2, <2>3, <2>6, AddEventTells
    <3> HIDE DEF parts
    <3>2. /\ MarkdownTexts(Join(doc, parts)) = Join(MarkdownTexts(doc), MarkdownTexts(parts))
          /\ MarkdownTools(Join(doc, parts)) = Join(MarkdownTools(doc), MarkdownTools(parts))
      BY <2>4, <2>5, PartsJoin
    <3>3. /\ TextsSoFar(after) = MarkdownTexts(told)
          /\ ChunkTools(after.chunks) = MarkdownTools(told)
      BY <2>1, <2>4, <2>6, <3>1, <3>2
    <3>4. TellsAsWritten(Append(es, e), E, B, pairs)
      BY <3>1, <3>3 DEF TellsAsWritten, after, told, J
    <3> QED BY <3>4, AppendProperties
  <2>7. CASE ~Tells(e)
    <3> HIDE DEF J, parts
    <3>1. /\ Pending(after, J)
          /\ TextsSoFar(after) = TextsSoFar(acc)
          /\ ChunkTools(after.chunks) = ChunkTools(acc.chunks)
      BY <2>1, <2>2, <2>7, AddEventKeeps
    <3>3. /\ TextsSoFar(after) = MarkdownTexts(told)
          /\ ChunkTools(after.chunks) = MarkdownTools(told)
      BY <2>1, <2>4, <2>7, <3>1
    <3>4. TellsAsWritten(Append(es, e), E, B, pairs)
      BY <3>1, <3>3 DEF TellsAsWritten, after, told, J
    <3> QED BY <3>4, AppendProperties
  <2> QED BY <2>6, <2>7
<1>3. \A es \in Seq(E) : es \in G
  <2> HIDE DEF G
  <2> QED BY <1>1, <1>2, SequencesIn
<1> QED BY <1>3

\* The chunks and the document of a turn tell the same.
LEMMA ChunksTellTheDocument ==
    ASSUME NEW B, NEW E, Bearing(E, B), NEW pairs, PairsNamed(pairs),
           NEW seed, Answers(seed) \in Seq(E)
    PROVE  /\ ChunkTexts(Chunks(seed, pairs, NoFilters)) = MarkdownTexts(Markdown(seed, pairs))
           /\ ChunkTools(Chunks(seed, pairs, NoFilters)) = MarkdownTools(Markdown(seed, pairs))
<1> DEFINE es == Answers(seed)
           acc == AddEvents(es, pairs, NoFilters)
           Z == {e \in E : Tells(e)}
           f == DocumentOf(E, pairs)
           u == Sel(es, Z)
<1>1. TellsAsWritten(es, E, B, pairs)
  BY AnswersTell
<1>2. Markdown(seed, pairs) = Document(es, E, pairs)
  <2>1. {i \in DOMAIN es : ~IsToolResult(es[i]) /\ IsAssistant(es[i])} = {i \in DOMAIN es : es[i] \in Z}
    BY IndexIn DEF Tells
  <2>2. Where(es, LAMBDA e : ~IsToolResult(e) /\ IsAssistant(e)) = u
    BY <2>1 DEF Where, Sel
  <2>3. Markdown(seed, pairs) = FlattenSeq([i \in 1..Len(u) |-> AssistantMarkdown(u[i], pairs)])
    <3> HIDE DEF u
    <3> QED BY <2>2 DEF Markdown, Gather
  <2>4. u \in Seq(E)
    <3> HIDE DEF Z
    <3> QED BY SelIsSeq
  <2> HIDE DEF u
  <2>5. Len(u) \in Nat /\ \A i \in 1..Len(u) : u[i] \in E
    BY <2>4, LenProperties, ElementOfSeq
  <2>6. [i \in 1..Len(u) |-> AssistantMarkdown(u[i], pairs)] = [i \in 1..Len(u) |-> f[u[i]]]
    BY <2>5 DEF DocumentOf
  <2> QED BY <2>3, <2>6, Zenon DEF Document, Flat, u
<1>3. Chunks(seed, pairs, NoFilters) = Flush(acc).chunks
  BY DEF Chunks
<1>4. /\ Pending(acc, ItemsOf(B)) /\ TextsSoFar(acc) = MarkdownTexts(Document(es, E, pairs))
      /\ ChunkTools(acc.chunks) = MarkdownTools(Document(es, E, pairs))
  BY <1>1 DEF TellsAsWritten
<1> HIDE DEF acc, es
<1>5. /\ ChunkTexts(Flush(acc).chunks) = TextsSoFar(acc)
      /\ ChunkTools(Flush(acc).chunks) = ChunkTools(acc.chunks)
  BY <1>4, FlushTells
<1> QED BY <1>2, <1>3, <1>4, <1>5

\* Of the calls with one id there is a last one.
LEMMA PairsAreNamed ==
    ASSUME NEW pairs, NEW n \in Nat, DOMAIN pairs = 1..n
    PROVE  PairsNamed(pairs)
<1> SUFFICES ASSUME NEW id, HasPair(pairs, id)
             PROVE  PairById(pairs, id).id = id
  BY DEF PairsNamed
<1> DEFINE S == {i \in DOMAIN pairs : pairs[i].id = id}
<1>1. S \in SUBSET Nat /\ S # {} /\ \A i \in S : i <= n /\ pairs[i].id = id
  BY DEF HasPair
<1> HIDE DEF S
<1>2. \E m \in S : \A q \in S : q <= m
  BY <1>1, LargestOf
<1>3. Max(S) \in S
  <2>1. \E m \in S : \A q \in S : m >= q
    BY <1>1, <1>2
  <2> QED BY <2>1 DEF Max
<1> QED BY <1>1, <1>3 DEF PairById, S

LEMMA UsesType ==
    ASSUME NEW B, NEW e, e.blocks \in Seq(B)
    PROVE  UsesIn(e) \in Seq({[block |-> b, uuid |-> e.uuid] : b \in B})
<1> DEFINE bs == BlocksOf(e, "tool_use")
           U == {[block |-> b, uuid |-> e.uuid] : b \in B}
<1>1. bs \in Seq(B)
  BY PickedType DEF BlocksOf, Where
<1> HIDE DEF bs
<1>2. Len(bs) \in Nat /\ \A i \in 1..Len(bs) : bs[i] \in B
  BY <1>1, LenProperties, ElementOfSeq
<1>3. [i \in 1..Len(bs) |-> [block |-> bs[i], uuid |-> e.uuid]] \in Seq(U)
  <2>1. [i \in 1..Len(bs) |-> [block |-> bs[i], uuid |-> e.uuid]] \in [1..Len(bs) -> U]
    BY <1>2
  <2> QED BY <1>2, <2>1, SeqDef
<1>4. CASE IsAssistant(e)
  BY <1>3, <1>4 DEF UsesIn, bs
<1>5. CASE ~IsAssistant(e)
  BY <1>5, EmptySeq DEF UsesIn
<1> QED BY <1>4, <1>5

LEMMA BarePairsDomain ==
    ASSUME NEW B, NEW E, Bearing(E, B), NEW seed \in Seq(E)
    PROVE  Len(BarePairs(seed)) \in Nat /\ DOMAIN BarePairs(seed) = 1..Len(BarePairs(seed))
<1> DEFINE uses == Gather(seed, UsesIn)
           U == UNION {{[block |-> b, uuid |-> e.uuid] : b \in B} : e \in E}
           f == [e \in E |-> UsesIn(e)]
<1>1. \A e \in E : f[e] \in Seq(U)
  <2> SUFFICES ASSUME NEW e \in E PROVE f[e] \in Seq(U)
    OBVIOUS
  <2> DEFINE V == {[block |-> b, uuid |-> e.uuid] : b \in B}
  <2>1. UsesIn(e) \in Seq(V)
    BY UsesType DEF Bearing
  <2>2. V \subseteq U
    OBVIOUS
  <2> HIDE DEF V, U
  <2>3. UsesIn(e) \in Seq(U)
    BY <2>1, <2>2, SeqMonotonic
  <2> QED BY <2>3
<1>2. Len(seed) \in Nat /\ \A i \in 1..Len(seed) : seed[i] \in E
  BY LenProperties, ElementOfSeq
<1>3. [i \in 1..Len(seed) |-> UsesIn(seed[i])] = [i \in 1..Len(seed) |-> f[seed[i]]]
  BY <1>2
<1>4. uses = Flat(seed, f)
  BY <1>3, Zenon DEF Gather, Flat
<1> HIDE DEF uses, U, f
<1>5. uses \in Seq(U)
  BY <1>1, <1>4, FlatType
<1>6. Len(uses) \in Nat
  BY <1>5, LenProperties
<1> DEFINE results == Results(seed)
<1>7. BarePairs(seed) = [i \in 1..Len(uses) |-> PairFor(uses[i], results)]
  BY DEF BarePairs, uses
<1> HIDE DEF results
<1> QED BY <1>6, <1>7

LEMMA AnswersType ==
    ASSUME NEW E, NEW seed \in Seq(E), seed # <<>>
    PROVE  Answers(seed) \in Seq(E)
<1>1. Tail(seed) \in Seq(E)
  BY HeadTailProperties
<1> QED BY <1>1 DEF Answers

\* A turn projected from events that carry blocks is told alike by its chunks and
\* by its document, whatever subagents its calls started.
THEOREM ProjectedTurnsAgree ==
    ASSUME NEW B, NEW E, Bearing(E, B), NEW seed \in Seq(E), seed # <<>>, NEW events
    PROVE  RenderedAlike(ProjectTurn(seed, events, NoFilters))
<1> DEFINE bare == BarePairs(seed)
           pairs == [i \in 1..Len(bare) |-> [bare[i] EXCEPT !.subagent = SubagentOf(bare[i], events)]]
           turn == ProjectTurn(seed, events, NoFilters)
<1>1. Len(bare) \in Nat
  BY BarePairsDomain
<1>2. turn = TurnFrom(seed, pairs, NoFilters)
  BY DEF ProjectTurn
<1>3. PairsNamed(pairs)
  <2>1. DOMAIN pairs = 1..Len(bare)
    OBVIOUS
  <2> HIDE DEF pairs, bare
  <2> QED BY <1>1, <2>1, PairsAreNamed
<1> HIDE DEF turn, pairs
<1>4. turn.chunks = Chunks(seed, pairs, NoFilters) /\ turn.markdown = Markdown(seed, pairs)
  BY <1>2 DEF TurnFrom
<1>5. Answers(seed) \in Seq(E)
  BY AnswersType
<1>6. /\ ChunkTexts(Chunks(seed, pairs, NoFilters)) = MarkdownTexts(Markdown(seed, pairs))
      /\ ChunkTools(Chunks(seed, pairs, NoFilters)) = MarkdownTools(Markdown(seed, pairs))
  BY <1>3, <1>5, ChunksTellTheDocument
<1> QED BY <1>4, <1>6 DEF RenderedAlike, turn

-----------------------------------------------------------------------------
(* The turns of a session: each has an event, and only events of the       *)
(* session.                                                                *)

Rising(u) == \A k \in 1..Len(u) : k < Len(u) => u[k] < u[k + 1]

Numbers(n) == [i \in 1..n |-> i]

LEMMA NumbersAppend ==
    ASSUME NEW n \in Nat
    PROVE  /\ Numbers(n) \in Seq(Nat) /\ Len(Numbers(n)) = n
           /\ Numbers(n + 1) = Append(Numbers(n), n + 1)
<1>1. Numbers(n) \in [1..n -> Nat]
  BY DEF Numbers
<1>2. Numbers(n) \in Seq(Nat) /\ Len(Numbers(n)) = n
  <2>1. Numbers(n) \in Seq(Nat)
    BY <1>1, SeqDef
  <2> QED BY <1>1, <2>1, LenProperties
<1> DEFINE v == Numbers(n)
<1>3. \A i \in 1..n : v[i] = i
  BY DEF Numbers
<1>4. Append(v, n + 1) = [i \in 1..(n + 1) |-> i]
  <2> HIDE DEF v
  <2>1. v \in Seq(Nat) /\ Len(v) = n
    BY <1>2 DEF v
  <2>2. /\ Append(v, n + 1) \in Seq(Nat) /\ Len(Append(v, n + 1)) = n + 1
        /\ \A i \in 1..n : Append(v, n + 1)[i] = v[i]
        /\ Append(v, n + 1)[n + 1] = n + 1
    BY <2>1, AppendProperties
  <2>3. Append(v, n + 1) \in [1..(n + 1) -> Nat]
    BY <2>2, LenProperties
  <2>4. \A i \in 1..(n + 1) : Append(v, n + 1)[i] = i
    BY <1>3, <2>2
  <2> QED BY <2>3, <2>4
<1> QED BY <1>2, <1>4 DEF Numbers

LEMMA NumbersRise ==
    ASSUME NEW at
    PROVE  \A n \in Nat : Picked(Numbers(n), at) \in Seq(1..n) /\ Rising(Picked(Numbers(n), at))
<1> DEFINE G == {n \in Nat : /\ Picked(Numbers(n), at) \in Seq(1..n)
                             /\ Rising(Picked(Numbers(n), at))}
<1>1. 0 \in G
  <2>1. Numbers(0) = <<>>
    BY DEF Numbers
  <2>2. Picked(Numbers(0), at) = <<>>
    BY <2>1, PickedNone
  <2>3. Rising(<<>>)
    BY DEF Rising
  <2>4. <<>> \in Seq(1..0)
    BY EmptySeq
  <2> QED BY <2>2, <2>3, <2>4
<1>2. ASSUME NEW n \in Nat, n \in G PROVE n + 1 \in G
  <2> DEFINE u == Picked(Numbers(n), at)
             w == Picked(Numbers(n + 1), at)
  <2>1. u \in Seq(1..n) /\ Rising(u)
    BY <1>2
  <2>2. w = IF n + 1 \in at THEN Append(u, n + 1) ELSE u
    <3> DEFINE v == Numbers(n)
    <3>1. v \in Seq(Nat) /\ Len(v) = n /\ Numbers(n + 1) = Append(v, n + 1)
      BY NumbersAppend
    <3> HIDE DEF v
    <3> DEFINE x == n + 1
    <3>2. x \in Nat /\ Len(v) + 1 = x
      BY <3>1
    <3> HIDE DEF x
    <3>3. Picked(Append(v, x), at)
          = IF Len(v) + 1 \in at THEN Append(Picked(v, at), x) ELSE Picked(v, at)
      BY <3>1, <3>2, PickedAfter
    <3> QED BY <3>1, <3>2, <3>3 DEF v, x
  <2> HIDE DEF u, w
  <2>3. 1..n \subseteq 1..(n + 1) /\ n + 1 \in 1..(n + 1)
    OBVIOUS
  <2>4. u \in Seq(1..(n + 1))
    BY <2>1, <2>3, SeqMonotonic
  <2>5. CASE n + 1 \in at
    <3> DEFINE x == n + 1
               S == 1..x
    <3>1. u \in Seq(S) /\ x \in S
      BY <2>3, <2>4
    <3>2. Len(u) \in Nat /\ \A k \in 1..Len(u) : u[k] \in 1..n
      BY <2>1, LenProperties, ElementOfSeq
    <3>3. \A k \in 1..Len(u) : u[k] < x
      BY <3>2
    <3> HIDE DEF x, S
    <3>4. /\ Append(u, x) \in Seq(S) /\ Len(Append(u, x)) = Len(u) + 1
          /\ \A k \in 1..Len(u) : Append(u, x)[k] = u[k]
          /\ Append(u, x)[Len(u) + 1] = x
      BY <3>1, AppendProperties
    <3>5. Rising(Append(u, x))
      <4> DEFINE t == Append(u, x)
      <4> SUFFICES ASSUME NEW k \in 1..Len(t), k < Len(t) PROVE t[k] < t[k + 1]
        BY DEF Rising
      <4> HIDE DEF t
      <4>1. k \in 1..Len(u) /\ t[k] = u[k]
        BY <3>2, <3>4 DEF t
      <4>2. CASE k = Len(u)
        BY <3>3, <3>4, <4>1, <4>2 DEF t
      <4>3. CASE k # Len(u)
        <5>1. k + 1 \in 1..Len(u) /\ k < Len(u)
          BY <3>2, <4>1, <4>3
        <5>2. t[k + 1] = u[k + 1]
          BY <3>4, <5>1 DEF t
        <5> QED BY <2>1, <4>1, <5>1, <5>2 DEF Rising
      <4> QED BY <4>2, <4>3
    <3>6. w = Append(u, x)
      BY <2>2, <2>5 DEF x
    <3>7. w \in Seq(1..(n + 1)) /\ Rising(w)
      BY <3>4, <3>5, <3>6 DEF S, x
    <3> QED BY <3>7 DEF w
  <2>6. CASE n + 1 \notin at
    BY <2>1, <2>2, <2>4, <2>6 DEF w
  <2> QED BY <2>5, <2>6
<1> HIDE DEF G
<1>3. \A n \in Nat : n \in G
  BY <1>1, <1>2, NumbersIn
<1> QED BY <1>3 DEF G

LEMMA SeedsType ==
    ASSUME NEW E, NEW events \in Seq(E), NEW k \in DOMAIN Seeds(events)
    PROVE  Seeds(events)[k] \in Seq(E) /\ Seeds(events)[k] # <<>>
<1> DEFINE n == Len(events)
           starts == Starts(events)
           m == Len(starts)
           until == IF k < m THEN starts[k + 1] - 1 ELSE n
<1>1. n \in Nat
  BY LenProperties
<1>2. starts \in Seq(1..n) /\ Rising(starts)
  <2> DEFINE at == {i \in DOMAIN Numbers(n) : Numbers(n)[i] = 1 \/ IsPrompt(events[Numbers(n)[i]])}
  <2>1. starts = Picked(Numbers(n), at)
    BY DEF Starts, Where, Numbers
  <2> HIDE DEF at, starts
  <2> QED BY <1>1, <2>1, NumbersRise
<1> HIDE DEF starts
<1>3. m \in Nat /\ \A j \in 1..m : starts[j] \in 1..n
  BY <1>2, LenProperties, ElementOfSeq
<1>4. Seeds(events) = [j \in 1..m |->
          SubSeq(events, starts[j], IF j < m THEN starts[j + 1] - 1 ELSE n)]
  BY DEF Seeds, starts
<1>5. k \in 1..m /\ Seeds(events)[k] = SubSeq(events, starts[k], until)
  BY <1>4
<1> DEFINE a == starts[k]
<1>6. a \in 1..n /\ until \in 1..n /\ a <= until
  <2>1. CASE k < m
    <3>1. k + 1 \in 1..m
      BY <1>3, <1>5, <2>1
    <3>2. starts[k] < starts[k + 1]
      BY <1>2, <1>5, <2>1 DEF Rising
    <3>3. starts[k] \in 1..n /\ starts[k + 1] \in 1..n
      BY <1>3, <1>5, <3>1
    <3> QED BY <1>1, <2>1, <3>2, <3>3
  <2>2. CASE ~(k < m)
    BY <1>1, <1>3, <1>5, <2>2
  <2> QED BY <2>1, <2>2
<1> HIDE DEF a, until, m
<1>7. SubSeq(events, a, until) \in Seq(E) /\ Len(SubSeq(events, a, until)) = until - a + 1
  <2>1. a \in 1..(n + 1) /\ until \in (a - 1)..n
    BY <1>1, <1>6
  <2> QED BY <2>1, SubSeqProperties
<1>8. SubSeq(events, a, until) # <<>>
  <2>1. until - a + 1 # 0
    BY <1>1, <1>6
  <2>2. Len(<<>>) = 0
    OBVIOUS
  <2> QED BY <1>7, <2>1, <2>2, Zenon
<1> QED BY <1>5, <1>7, <1>8 DEF a

-----------------------------------------------------------------------------
(* Steps from one element of a set to the next.                            *)

Steps(f, first, step, n) == f = [i \in 0..n |-> IF i = 0 THEN first ELSE step[<<i, f[i - 1]>>]]

LEMMA StepsAt ==
    ASSUME NEW n, NEW f, NEW first, NEW step, Steps(f, first, step, n), NEW i \in 0..n
    PROVE  f[i] = IF i = 0 THEN first ELSE step[<<i, f[i - 1]>>]
<1> DEFINE g == [k \in 0..n |-> IF k = 0 THEN first ELSE step[<<k, f[k - 1]>>]]
<1>1. g[i] = IF i = 0 THEN first ELSE step[<<i, f[i - 1]>>]
  OBVIOUS
<1>2. f = g
  BY DEF Steps
<1> HIDE DEF g
<1> QED BY <1>1, <1>2

LEMMA StepsExist ==
    ASSUME NEW first, NEW step
    PROVE  \A n \in Nat : \E f : Steps(f, first, step, n)
<1> DEFINE G == {n \in Nat : \E f : Steps(f, first, step, n)}
<1>1. 0 \in G
  <2> DEFINE f == [i \in 0..0 |-> first]
  <2>1. Steps(f, first, step, 0)
    BY DEF Steps
  <2> QED BY <2>1
<1>2. ASSUME NEW n \in Nat, n \in G PROVE n + 1 \in G
  <2>1. PICK f : Steps(f, first, step, n)
    BY <1>2
  <2> DEFINE g == [i \in 0..(n + 1) |-> IF i <= n THEN f[i] ELSE step[<<n + 1, f[n]>>]]
  <2>2. \A i \in 0..(n + 1) : g[i] = IF i = 0 THEN first ELSE step[<<i, g[i - 1]>>]
    <3> SUFFICES ASSUME NEW i \in 0..(n + 1)
                 PROVE  g[i] = IF i = 0 THEN first ELSE step[<<i, g[i - 1]>>]
      OBVIOUS
    <3>1. CASE i <= n
      <4>1. f[i] = IF i = 0 THEN first ELSE step[<<i, f[i - 1]>>]
        BY <2>1, <3>1, StepsAt
      <4>2. i # 0 => g[i - 1] = f[i - 1]
        BY <3>1
      <4> QED BY <3>1, <4>1, <4>2
    <3>2. CASE i = n + 1
      <4>1. i # 0 /\ <<i, g[i - 1]>> = <<n + 1, f[n]>>
        BY <3>2
      <4>2. g[i] = step[<<n + 1, f[n]>>]
        BY <3>2
      <4> HIDE DEF g
      <4> QED BY <4>1, <4>2, Zenon
    <3> QED BY <3>1, <3>2
  <2>3. Steps(g, first, step, n + 1)
    <3>1. g = [i \in 0..(n + 1) |-> g[i]]
      OBVIOUS
    <3> HIDE DEF g
    <3> QED BY <2>2, <3>1 DEF Steps
  <2> HIDE DEF g
  <2> QED BY <2>3
<1> HIDE DEF G
<1>3. \A n \in Nat : n \in G
  BY <1>1, <1>2, NumbersIn
<1> QED BY <1>3 DEF G

\* Up to n, what comes after an element of X is one.
Keeping(f, X, n) == \A i \in 1..n : f[i - 1] \in X => f[i] \in X

LEMMA StaysIn ==
    ASSUME NEW X, NEW n \in Nat, NEW f, f[0] \in X, Keeping(f, X, n)
    PROVE  \A i \in 0..n : f[i] \in X
<1> DEFINE G == {i \in Nat : i <= n => f[i] \in X}
<1>1. 0 \in G
  OBVIOUS
<1>2. ASSUME NEW i \in Nat, i \in G PROVE i + 1 \in G
  <2>1. CASE i + 1 <= n
    <3>1. f[i] \in X /\ i + 1 \in 1..n
      BY <1>2, <2>1
    <3> DEFINE k == i + 1
    <3>2. k - 1 = i /\ k \in 1..n
      BY <3>1
    <3> HIDE DEF k
    <3>3. f[k] \in X
      BY <3>1, <3>2 DEF Keeping
    <3> QED BY <3>3 DEF k
  <2> QED BY <2>1
<1> HIDE DEF G
<1>3. \A i \in Nat : i \in G
  BY <1>1, <1>2, NumbersIn
<1> QED BY <1>3 DEF G

\* What step makes of an element of X is one.
Within(X, step, n) == \A i \in 1..n, x \in X : step[<<i, x>>] \in X

LEMMA StepsStay ==
    ASSUME NEW X, NEW n \in Nat, NEW first \in X, NEW step, Within(X, step, n)
    PROVE  \E f : Steps(f, first, step, n) /\ \A i \in 0..n : f[i] \in X
<1>1. PICK f : Steps(f, first, step, n)
  BY StepsExist
<1>2. f[0] \in X
  <2>1. 0 \in 0..n
    OBVIOUS
  <2> QED BY <1>1, <2>1, StepsAt
<1>3. Keeping(f, X, n)
  <2> SUFFICES ASSUME NEW i \in 1..n, f[i - 1] \in X PROVE f[i] \in X
    BY DEF Keeping
  <2>1. i \in 0..n /\ i # 0
    OBVIOUS
  <2>2. f[i] = step[<<i, f[i - 1]>>]
    BY <1>1, <2>1, StepsAt
  <2> QED BY <2>2 DEF Within
<1>4. \A i \in 0..n : f[i] \in X
  BY <1>2, <1>3, StaysIn
<1> QED BY <1>1, <1>4

-----------------------------------------------------------------------------
(* The events a projection reads are those of the rows.                    *)

LEMMA InsertedType ==
    ASSUME NEW E, NEW u \in Seq(E), NEW e \in E
    PROVE  Inserted(u, e) \in Seq(E)
<1> DEFINE X == Seq(E)
           a == Picked(u, {i \in DOMAIN u : ~Before(e, u[i])})
           b == Picked(u, {i \in DOMAIN u : Before(e, u[i])})
<1>1. a \in X /\ b \in X
  BY PickedType
<1>2. Inserted(u, e) = Append(a, e) \o b
  BY DEF Inserted, Where
<1> HIDE DEF a, b
<1>3. Append(a, e) \in X
  BY <1>1, AppendProperties
<1> QED BY <1>1, <1>2, <1>3, ConcatProperties

\* The sort puts in one event after the other.
LEMMA ByTimeSteps ==
    ASSUME NEW E, NEW events \in Seq(E)
    PROVE  \E f : /\ f[0] = <<>> /\ \A i \in 1..Len(events) : f[i] = Inserted(f[i - 1], events[i])
                  /\ ByTime(events) = f[Len(events)]
<1> DEFINE n == Len(events)
           X == Seq(E)
           Sorts(f) == f = [i \in 0..n |-> IF i = 0 THEN <<>> ELSE Inserted(f[i - 1], events[i])]
<1>1. n \in Nat /\ \A i \in 1..n : events[i] \in E
  BY LenProperties, ElementOfSeq
<1>2. <<>> \in X
  BY EmptySeq
<1>3. \E f : Sorts(f)
  <2> DEFINE step == [p \in (1..n) \X X |-> Inserted(p[2], events[p[1]])]
  <2>1. \A i \in 1..n, u \in X : step[<<i, u>>] = Inserted(u, events[i])
    OBVIOUS
  <2>2. Within(X, step, n)
    <3>1. \A u \in X, e \in E : Inserted(u, e) \in X
      BY InsertedType
    <3> HIDE DEF step, X
    <3> QED BY <1>1, <2>1, <3>1 DEF Within
  <2> HIDE DEF X, step
  <2>3. PICK f : Steps(f, <<>>, step, n) /\ \A i \in 0..n : f[i] \in X
    BY <1>1, <1>2, <2>2, StepsStay
  <2>4. \A i \in 0..n : i # 0 => i \in 1..n /\ f[i - 1] \in X
    BY <1>1, <2>3
  <2>5. \A i \in 0..n : i # 0 => step[<<i, f[i - 1]>>] = Inserted(f[i - 1], events[i])
    BY <2>1, <2>4
  <2>6. [i \in 0..n |-> IF i = 0 THEN <<>> ELSE step[<<i, f[i - 1]>>]]
        = [i \in 0..n |-> IF i = 0 THEN <<>> ELSE Inserted(f[i - 1], events[i])]
    BY <2>5
  <2> QED BY <2>3, <2>6 DEF Steps
<1>4. PICK f : Sorts(f) /\ ByTime(events) = f[n]
  BY <1>3 DEF ByTime
<1> DEFINE g == [i \in 0..n |-> IF i = 0 THEN <<>> ELSE Inserted(f[i - 1], events[i])]
<1>5. f = g /\ g[0] = <<>> /\ \A i \in 1..n : g[i] = Inserted(f[i - 1], events[i])
  <2>1. f = g
    BY <1>4
  <2>2. 0 \in 0..n /\ \A i \in 1..n : i \in 0..n /\ i # 0
    BY <1>1
  <2> QED BY <2>1, <2>2
<1> HIDE DEF g
<1> QED BY <1>4, <1>5

LEMMA ByTimeType ==
    ASSUME NEW E, NEW events \in Seq(E)
    PROVE  ByTime(events) \in Seq(E)
<1> DEFINE n == Len(events)
           X == Seq(E)
<1>1. n \in Nat /\ \A i \in 1..n : events[i] \in E
  BY LenProperties, ElementOfSeq
<1>2. PICK f : /\ f[0] = <<>> /\ \A i \in 1..n : f[i] = Inserted(f[i - 1], events[i])
               /\ ByTime(events) = f[n]
  BY ByTimeSteps
<1>3. f[0] \in X
  BY <1>2, EmptySeq
<1>4. Keeping(f, X, n)
  <2>1. \A u \in X, e \in E : Inserted(u, e) \in X
    BY InsertedType
  <2> HIDE DEF X
  <2> QED BY <1>1, <1>2, <2>1 DEF Keeping
<1> HIDE DEF X
<1>5. \A i \in 0..n : f[i] \in X
  BY <1>1, <1>3, <1>4, StaysIn
<1> QED BY <1>1, <1>2, <1>5 DEF X

\* The rows of all sessions, as a projection sees them.
AllEvents == UNION {{StoredEvent(o, rows[s][o]) : o \in DOMAIN rows[s]} : s \in Sessions}

LEMMA EventsFromType ==
    ASSUME NEW s \in Sessions, written[s] \in Nat, NEW first
    PROVE  EventsFrom(s, first) \in Seq(AllEvents)
<1> DEFINE all == [i \in 1..written[s] |-> At(s, i)]
           A == {At(s, i) : i \in 1..written[s]}
           Z == {o \in A : o >= first /\ o \in DOMAIN rows[s]}
           offsets == Sel(all, Z)
           E == AllEvents
<1>1. all \in Seq(A) /\ DOMAIN all = 1..written[s]
  <2>1. all \in [1..written[s] -> A]
    OBVIOUS
  <2> QED BY <2>1, SeqDef
<1>2. {i \in DOMAIN all : all[i] >= first /\ all[i] \in DOMAIN rows[s]} = {i \in DOMAIN all : all[i] \in Z}
  OBVIOUS
<1>3. EventsFrom(s, first) = [i \in 1..Len(offsets) |-> StoredEvent(offsets[i], rows[s][offsets[i]])]
  BY <1>2 DEF EventsFrom, Where, Sel
<1>4. \A o \in Z : StoredEvent(o, rows[s][o]) \in E
  BY DEF AllEvents
<1> HIDE DEF all, Z, E
<1>5. offsets \in Seq(A \cap Z)
  BY <1>1, SelType
<1> HIDE DEF offsets
<1>6. Len(offsets) \in Nat /\ \A i \in 1..Len(offsets) : offsets[i] \in Z
  <2> DEFINE Y == A \cap Z
  <2>1. offsets \in Seq(Y) /\ \A o \in Y : o \in Z
    BY <1>5
  <2> HIDE DEF Y
  <2> QED BY <2>1, LenProperties, ElementOfSeq
<1>7. EventsFrom(s, first) \in [1..Len(offsets) -> E]
  BY <1>3, <1>4, <1>6
<1> QED BY <1>6, <1>7, SeqDef DEF E

LEMMA DescendantEventsType ==
    ASSUME NEW E, NEW events \in Seq(E), NEW seen, NEW d
    PROVE  DescendantEvents(events, seen, d) \in Seq(E)
<1>1. \A at : Picked(events, at) \in Seq(E)
  BY PickedType
<1> QED BY <1>1 DEF DescendantEvents, Where

LEMMA SetToSeqType ==
    ASSUME NEW S, IsFiniteSet(S)
    PROVE  SetToSeq(S) \in Seq(S)
<1>1. Cardinality(S) \in Nat /\ ExistsBijection(1..Cardinality(S), S)
  BY FS_CardinalityType
<1>2. \E f \in [1..Cardinality(S) -> S] : IsInjective(f)
  BY <1>1 DEF ExistsBijection, Bijection, Injection
<1>3. SetToSeq(S) \in [1..Cardinality(S) -> S]
  BY <1>2 DEF SetToSeq
<1> QED BY <1>1, <1>3, SeqDef

\* The descendants of a session are found level by level.
LEMMA LevelSteps ==
    ASSUME NEW s, known \subseteq Sessions
    PROVE  \E f : /\ f[0] = Children(s)
                  /\ \A i \in 1..Cardinality(Sessions) : f[i] = UNION {Children(c) : c \in f[i - 1]}
                  /\ \A i \in 0..Cardinality(Sessions) : f[i] \in SUBSET Sessions
                  /\ Descendants(s)
                     = IF s \in known
                       THEN FlattenSeq([i \in 1..Cardinality(Sessions) |-> SetToSeq(f[i - 1])]) ELSE <<>>
<1> DEFINE n == Cardinality(Sessions)
           X == SUBSET Sessions
           first == Children(s)
           Levels(f) == f = [i \in 0..n |-> IF i = 0 THEN first ELSE UNION {Children(c) : c \in f[i - 1]}]
<1>1. n \in Nat
  BY SessionsAssumption, FS_CardinalityType
<1>2. \A c : Children(c) \in X
  BY DEF Children
<1>3. first \in X /\ \A u : UNION {Children(c) : c \in u} \in X
  BY <1>2
<1>4. \E f : Levels(f)
  <2> DEFINE step == [p \in (1..n) \X X |-> UNION {Children(c) : c \in p[2]}]
  <2>1. \A i \in 1..n, u \in X : step[<<i, u>>] = UNION {Children(c) : c \in u}
    OBVIOUS
  <2>2. Within(X, step, n)
    BY <1>3, <2>1 DEF Within
  <2> HIDE DEF X, step, first
  <2>3. PICK f : Steps(f, first, step, n) /\ \A i \in 0..n : f[i] \in X
    BY <1>1, <1>3, <2>2, StepsStay
  <2>4. \A i \in 0..n : i # 0 => i \in 1..n /\ f[i - 1] \in X
    BY <1>1, <2>3
  <2>5. \A i \in 0..n : i # 0 => step[<<i, f[i - 1]>>] = UNION {Children(c) : c \in f[i - 1]}
    BY <2>1, <2>4
  <2>6. [i \in 0..n |-> IF i = 0 THEN first ELSE step[<<i, f[i - 1]>>]]
        = [i \in 0..n |-> IF i = 0 THEN first ELSE UNION {Children(c) : c \in f[i - 1]}]
    BY <2>5
  <2> QED BY <2>3, <2>6 DEF Steps
<1>5. PICK f : /\ Levels(f)
               /\ Descendants(s) = IF s \in known
                                   THEN FlattenSeq([i \in 1..n |-> SetToSeq(f[i - 1])]) ELSE <<>>
  BY <1>4 DEF Descendants
<1> DEFINE g == [i \in 0..n |-> IF i = 0 THEN first ELSE UNION {Children(c) : c \in f[i - 1]}]
<1>6. f = g /\ g[0] = first /\ \A i \in 0..n : g[i] \in X
  BY <1>1, <1>3, <1>5
<1>7. \A i \in 1..n : g[i] = UNION {Children(c) : c \in f[i - 1]}
  <2>1. \A i \in 1..n : i \in 0..n /\ i # 0
    BY <1>1
  <2> QED BY <2>1
<1> HIDE DEF g
<1>8. f[0] = first /\ (\A i \in 1..n : f[i] = UNION {Children(c) : c \in f[i - 1]})
      /\ \A i \in 0..n : f[i] \in X
  BY <1>6, <1>7
<1>9. Descendants(s) = IF s \in known
                       THEN FlattenSeq([i \in 1..n |-> SetToSeq(f[i - 1])]) ELSE <<>>
  BY <1>5
<1> QED BY <1>8, <1>9, Zenon

LEMMA DescendantsType ==
    ASSUME NEW s, known \subseteq Sessions
    PROVE  Descendants(s) \in Seq(Sessions)
<1> DEFINE n == Cardinality(Sessions)
           X == SUBSET Sessions
<1>1. n \in Nat
  BY SessionsAssumption, FS_CardinalityType
<1>5. PICK f : /\ \A i \in 0..n : f[i] \in X
               /\ Descendants(s) = IF s \in known
                                   THEN FlattenSeq([i \in 1..n |-> SetToSeq(f[i - 1])]) ELSE <<>>
  BY LevelSteps
<1> HIDE DEF X
<1> DEFINE h == [i \in 1..n |-> SetToSeq(f[i - 1])]
<1>7. \A i \in 1..n : h[i] \in Seq(Sessions)
  <2> SUFFICES ASSUME NEW i \in 1..n PROVE SetToSeq(f[i - 1]) \in Seq(Sessions)
    OBVIOUS
  <2> DEFINE S == f[i - 1]
  <2>1. i - 1 \in 0..n
    BY <1>1
  <2>2. S \in SUBSET Sessions
    BY <1>5, <2>1 DEF X
  <2> HIDE DEF S
  <2>3. IsFiniteSet(S)
    BY <2>2, SessionsAssumption, FS_Subset
  <2>4. SetToSeq(S) \in Seq(S)
    BY <2>3, SetToSeqType
  <2>5. SetToSeq(S) \in Seq(Sessions)
    BY <2>2, <2>4, SeqMonotonic
  <2> QED BY <2>5 DEF S
<1>8. FlattenSeq(h) \in Seq(Sessions)
  <2> DEFINE v == Numbers(n)
             I == 1..n
  <2>1. v \in Seq(I) /\ Len(v) = n /\ \A i \in 1..n : v[i] = i
    <3>1. v \in [1..n -> I]
      BY DEF Numbers
    <3>2. v \in Seq(I)
      BY <1>1, <3>1, SeqDef
    <3> QED BY <1>1, <3>1, <3>2, LenProperties DEF Numbers
  <2>2. h = [i \in 1..Len(v) |-> h[v[i]]]
    <3> HIDE DEF v
    <3> QED BY <2>1
  <2> HIDE DEF v, h, I
  <2>3. \A i \in I : h[i] \in Seq(Sessions)
    BY <1>7 DEF I
  <2>4. Flat(v, h) \in Seq(Sessions)
    BY <2>1, <2>3, FlatType
  <2> QED BY <2>2, <2>4, Zenon DEF Flat
<1> QED BY <1>5, <1>8, EmptySeq

LEMMA SourceEventsType ==
    ASSUME NEW s \in Sessions, known \subseteq Sessions, written \in [Sessions -> Nat]
    PROVE  SourceEvents(s) \in Seq(AllEvents)
<1> DEFINE below == Descendants(s)
           n == Len(below)
           X == Seq(AllEvents)
           first == EventsFrom(s, 0)
           Loads(f) == f = [i \in 0..n |-> IF i = 0 THEN first ELSE WithDescendant(f[i - 1], below[i])]
<1>1. n \in Nat /\ \A i \in 1..n : below[i] \in Sessions
  <2>1. below \in Seq(Sessions)
    BY DescendantsType
  <2> HIDE DEF below
  <2> QED BY <2>1, LenProperties, ElementOfSeq
<1>2. first \in X
  BY EventsFromType
<1>3. ASSUME NEW u \in X, NEW d \in Sessions PROVE WithDescendant(u, d) \in X
  <2>1. EventsFrom(d, 0) \in X
    BY EventsFromType
  <2>2. DescendantEvents(EventsFrom(d, 0), Uuids(u), d) \in X
    BY <2>1, DescendantEventsType
  <2> QED BY <2>2, ConcatProperties DEF WithDescendant
<1>4. \E f : Loads(f)
  <2> DEFINE step == [p \in (1..n) \X X |-> WithDescendant(p[2], below[p[1]])]
  <2>1. \A i \in 1..n, u \in X : step[<<i, u>>] = WithDescendant(u, below[i])
    OBVIOUS
  <2>2. Within(X, step, n)
    BY <1>1, <1>3, <2>1 DEF Within
  <2> HIDE DEF X, step, first, below
  <2>3. PICK f : Steps(f, first, step, n) /\ \A i \in 0..n : f[i] \in X
    BY <1>1, <1>2, <2>2, StepsStay
  <2>4. \A i \in 0..n : i # 0 => i \in 1..n /\ f[i - 1] \in X
    BY <1>1, <2>3
  <2>5. \A i \in 0..n : i # 0 => step[<<i, f[i - 1]>>] = WithDescendant(f[i - 1], below[i])
    BY <2>1, <2>4
  <2>6. [i \in 0..n |-> IF i = 0 THEN first ELSE step[<<i, f[i - 1]>>]]
        = [i \in 0..n |-> IF i = 0 THEN first ELSE WithDescendant(f[i - 1], below[i])]
    BY <2>5
  <2> QED BY <2>3, <2>6 DEF Steps
<1>5. PICK f : Loads(f) /\ SourceEvents(s) = ByTime(f[n])
  BY <1>4 DEF SourceEvents
<1> DEFINE g == [i \in 0..n |-> IF i = 0 THEN first ELSE WithDescendant(f[i - 1], below[i])]
<1>6. f = g /\ g[0] = first /\ \A i \in 1..n : g[i] = WithDescendant(f[i - 1], below[i])
  <2>1. f = g
    BY <1>5
  <2>2. 0 \in 0..n /\ \A i \in 1..n : i \in 0..n /\ i # 0
    BY <1>1
  <2> QED BY <2>1, <2>2
<1> HIDE DEF g, X, first, below
<1>7. f[0] \in X
  BY <1>2, <1>6
<1>8. Keeping(f, X, n)
  BY <1>1, <1>3, <1>6 DEF Keeping
<1>9. f[n] \in X
  <2>1. \A i \in 0..n : f[i] \in X
    BY <1>1, <1>7, <1>8, StaysIn
  <2> QED BY <1>1, <2>1
<1> DEFINE v == f[n]
<1>10. v \in Seq(AllEvents)
  BY <1>9 DEF X
<1> HIDE DEF v
<1>11. ByTime(v) \in Seq(AllEvents)
  BY <1>10, ByTimeType
<1> QED BY <1>5, <1>11 DEF v

-----------------------------------------------------------------------------
(* The blocks of an event are a sequence, whichever agent it is from.      *)

IsList(q) == \E B : q \in Seq(B)

Borne(e) == "blocks" \in DOMAIN e /\ IsList(e.blocks)

LEMMA ListOf ==
    ASSUME NEW n \in Nat, NEW q, q = [i \in 1..n |-> q[i]]
    PROVE  IsList(q)
<1> DEFINE B == {q[i] : i \in 1..n}
<1>1. q \in [1..n -> B]
  <2>1. \A i \in 1..n : q[i] \in B
    OBVIOUS
  <2> HIDE DEF B
  <2> QED BY <2>1, Zenon
<1>2. q \in Seq(B)
  BY <1>1, SeqDef
<1> QED BY <1>2 DEF IsList

LEMMA ShortLists == IsList(<<>>) /\ \A x : IsList(<<x>>)
<1>1. IsList(<<>>)
  BY EmptySeq DEF IsList
<1>2. ASSUME NEW x PROVE IsList(<<x>>)
  <2>1. <<x>> \in Seq({x})
    OBVIOUS
  <2> QED BY <2>1 DEF IsList
<1> QED BY <1>1, <1>2

LEMMA BlocksListed ==
    ASSUME NEW r, Listed(r)
    PROVE  IsList(ClaudeBlocks(r)) /\ IsList(MessageBlocks(r))
<1>1. r.parts # Nil => IsList(ParseBlocks(r.parts, r.payload))
  <2> DEFINE q == ParseBlocks(r.parts, r.payload)
  <2>1. q = [i \in 1..Len(r.parts) |-> q[i]]
    BY DEF ParseBlocks
  <2> HIDE DEF q
  <2>2. r.parts # Nil => IsList(q)
    BY <2>1, ListOf DEF Listed
  <2> QED BY <2>2 DEF q
<1>2. r.parts # Nil => IsList([i \in 1..Len(r.parts) |-> MessageBlock(r.parts[i])])
  <2> DEFINE q == [i \in 1..Len(r.parts) |-> MessageBlock(r.parts[i])]
  <2>1. q = [i \in 1..Len(r.parts) |-> q[i]]
    OBVIOUS
  <2> HIDE DEF q
  <2>2. r.parts # Nil => IsList(q)
    BY <2>1, ListOf DEF Listed
  <2> QED BY <2>2 DEF q
<1>3. IsList(ClaudeBlocks(r))
  BY <1>1, ShortLists DEF ClaudeBlocks
<1>4. IsList(MessageBlocks(r))
  BY <1>2, ShortLists DEF MessageBlocks
<1> QED BY <1>3, <1>4

LEMMA WithBlocksBorne ==
    ASSUME NEW e, DOMAIN e = DOMAIN NoEvent, NEW blocks, IsList(blocks)
    PROVE  LET f == WithBlocks(e, blocks)
           IN  DOMAIN f = DOMAIN NoEvent /\ f.blocks = blocks /\ Borne(f)
<1>1. "blocks" \in DOMAIN NoEvent /\ "content" \in DOMAIN NoEvent
  BY DEF NoEvent
<1> DEFINE f == WithBlocks(e, blocks)
<1>2. DOMAIN f = DOMAIN NoEvent /\ f.blocks = blocks
  BY <1>1 DEF WithBlocks
<1> HIDE DEF f
<1>3. Borne(f)
  BY <1>1, <1>2 DEF Borne
<1> QED BY <1>2, <1>3 DEF f

LEMMA ParseBorne ==
    ASSUME NEW r, Listed(r)
    PROVE  Borne(Parse(r)) /\ DOMAIN Parse(r) = DOMAIN NoEvent
<1> DEFINE Good(e) == Borne(e) /\ DOMAIN e = DOMAIN NoEvent
<1>1. Good(ParseClaude(r))
  <2> DEFINE e == [NoEvent EXCEPT
            !.agent = "claude-code",
            !.speaker = IF r.type \in {"user", "assistant", "system", "summary"}
                        THEN r.type ELSE "other",
            !.uuid = r.id, !.parent = r.parent, !.related = r.call,
            !.side = r.side, !.meta = r.meta, !.subtype = r.sub]
  <2>1. DOMAIN e = DOMAIN NoEvent
    OBVIOUS
  <2>2. ParseClaude(r) = WithBlocks(e, ClaudeBlocks(r))
    BY DEF ParseClaude
  <2> HIDE DEF e
  <2> QED BY <2>1, <2>2, BlocksListed, WithBlocksBorne
<1>2. Good(ParseResponseItem(r))
  <2> DEFINE sub == OrElse(r.sub, "response_item")
             e == [NoEvent EXCEPT !.agent = "codex", !.subtype = sub]
             e1 == [e EXCEPT !.speaker = MessageSpeaker(r.role), !.meta = r.role \in {"developer", "system"}]
             e2 == [e EXCEPT !.speaker = "assistant"]
             call == OrElse(r.call, EmptyId)
             e3 == [e EXCEPT !.speaker = "system", !.related = call]
             e4 == [e EXCEPT !.speaker = "system", !.meta = TRUE]
             thought == ThinkingBlock(OrElse(r.text, ""))
             use == ToolUseBlock(call, OrElse(r.name, sub), r.input)
             result == ToolResultBlock(call, r.text, r.err, Nil)
  <2>1. /\ DOMAIN e1 = DOMAIN NoEvent /\ DOMAIN e2 = DOMAIN NoEvent
        /\ DOMAIN e3 = DOMAIN NoEvent /\ DOMAIN e4 = DOMAIN NoEvent /\ e4.blocks = <<>>
    BY DEF NoEvent
  <2>2. \/ ParseResponseItem(r) = WithBlocks(e1, MessageBlocks(r))
        \/ ParseResponseItem(r) = WithBlocks(e2, <<thought>>)
        \/ ParseResponseItem(r) = WithBlocks(e2, <<use>>)
        \/ ParseResponseItem(r) = WithBlocks(e3, <<result>>)
        \/ ParseResponseItem(r) = e4
    <3>1. ParseResponseItem(r) =
            CASE sub = "message" -> WithBlocks(e1, MessageBlocks(r))
              [] sub = "reasoning" -> WithBlocks(e2, <<thought>>)
              [] sub \in CodexCalls -> WithBlocks(e2, <<use>>)
              [] sub \in CodexOutputs -> WithBlocks(e3, <<result>>)
              [] OTHER -> e4
      BY Zenon DEF ParseResponseItem
    <3> HIDE DEF e1, e2, e3, e4, thought, use, result, sub
    <3> QED BY <3>1
  <2> HIDE DEF e1, e2, e3, e4, thought, use, result
  <2>3. Good(WithBlocks(e1, MessageBlocks(r)))
    BY <2>1, BlocksListed, WithBlocksBorne
  <2>4. \A x : IsList(<<x>>)
    BY ShortLists
  <2>5. Good(WithBlocks(e2, <<thought>>)) /\ Good(WithBlocks(e2, <<use>>)) /\ Good(WithBlocks(e3, <<result>>))
    BY <2>1, <2>4, WithBlocksBorne
  <2>6. Good(e4)
    BY <2>1, ShortLists DEF Borne, NoEvent
  <2> QED BY <2>2, <2>3, <2>5, <2>6
<1>3. Good(ParseCodex(r))
  <2> DEFINE e == [NoEvent EXCEPT !.agent = "codex", !.speaker = "system", !.meta = TRUE]
             e1 == [e EXCEPT !.subtype = OrElse(r.sub, "event_msg"), !.related = r.call]
             e2 == [e EXCEPT !.subtype = r.type]
             e3 == [e EXCEPT !.speaker = "other", !.subtype = OrElse(r.type, ""), !.blocks = <<NoBlock>>]
  <2>1. /\ DOMAIN e1 = DOMAIN NoEvent /\ DOMAIN e2 = DOMAIN NoEvent /\ DOMAIN e3 = DOMAIN NoEvent
        /\ e1.blocks = <<>> /\ e2.blocks = <<>> /\ e3.blocks = <<NoBlock>>
    BY DEF NoEvent
  <2>2. \/ ParseCodex(r) = ParseResponseItem(r)
        \/ ParseCodex(r) \in {e1, e2, e3}
    BY DEF ParseCodex
  <2> HIDE DEF e1, e2, e3
  <2>3. Good(e1) /\ Good(e2) /\ Good(e3)
    BY <2>1, ShortLists DEF Borne, NoEvent
  <2> QED BY <1>2, <2>2, <2>3
<1> QED BY <1>1, <1>3 DEF Parse

LEMMA ParseEventBorne ==
    ASSUME NEW r, Listed(r), NEW o, NEW s, NEW ctx
    PROVE  Borne(ParseEvent(r, o, s, ctx))
<1> DEFINE e == Parse(r)
<1>1. Borne(e)
  BY ParseBorne
<1> HIDE DEF e
<1>2. \A u, p, d : Borne([e EXCEPT !.uuid = u, !.parent = p, !.side = d])
  BY <1>1 DEF Borne
<1>3. \A u, p, d : Borne([e EXCEPT !.parent = p, !.side = d, !.uuid = u])
  BY <1>1 DEF Borne
<1>4. Borne(EnrichResponse(e, o, s, ctx))
  BY <1>3 DEF EnrichResponse
<1>5. Borne(EnrichEventMsg(e, r, o, s, ctx))
  BY <1>2 DEF EnrichEventMsg
<1>6. Borne(Enrich(e, r, o, s, ctx))
  BY <1>1, <1>2, <1>4, <1>5 DEF Enrich
<1> QED BY <1>1, <1>6 DEF ParseEvent, e

-----------------------------------------------------------------------------
(* The turns that are projected.                                           *)

\* The rows that were parsed have blocks.
RowsBear ==
    \A s \in Sessions : \A o \in DOMAIN rows[s] : ~IsBare(rows[s][o]) => Borne(rows[s][o].event)

LEMMA JoinedIs ==
    ASSUME NEW f, NEW g, NEW x \in DOMAIN f, x \notin DOMAIN g
    PROVE  Joined(f, g)[x] = f[x]
<1> QED BY DEF Joined

LEMMA EventsBear ==
    ASSUME RowsBear
    PROVE  \E B : Bearing(AllEvents, B)
<1>1. ASSUME NEW e \in AllEvents PROVE IsList(e.blocks)
  <2>1. PICK s \in Sessions : \E o \in DOMAIN rows[s] : e = StoredEvent(o, rows[s][o])
    BY DEF AllEvents
  <2>2. PICK o \in DOMAIN rows[s] : e = StoredEvent(o, rows[s][o])
    BY <2>1
  <2> DEFINE row == rows[s][o]
             bare == [NoEvent EXCEPT !.agent = row.payload.agent, !.speaker = Nil, !.content = Nil]
             seen == IF IsBare(row) THEN bare ELSE row.event
             columns == [offset |-> o, ts |-> row.ts, kind |-> StoredKind(row.payload)]
  <2>3. e = Joined(seen, columns)
    BY <2>2 DEF StoredEvent
  <2>4. Borne(bare)
    BY ShortLists DEF Borne, NoEvent
  <2>5. Borne(seen)
    BY <2>4 DEF RowsBear
  <2> HIDE DEF seen, columns
  <2>6. e.blocks = seen.blocks
    <3>1. "blocks" \notin DOMAIN columns
      BY DEF columns
    <3> QED BY <2>3, <2>5, <3>1, JoinedIs DEF Borne
  <2> QED BY <2>5, <2>6 DEF Borne
<1> DEFINE At1(e) == CHOOSE B : e.blocks \in Seq(B)
           B == UNION {At1(e) : e \in AllEvents}
<1>2. ASSUME NEW e \in AllEvents PROVE e.blocks \in Seq(B)
  <2> DEFINE C == At1(e)
  <2>1. e.blocks \in Seq(C)
    BY <1>1 DEF IsList
  <2>2. C \subseteq B
    OBVIOUS
  <2> HIDE DEF C, B
  <2> QED BY <2>1, <2>2, SeqMonotonic
<1> HIDE DEF B
<1>3. Bearing(AllEvents, B)
  BY <1>2 DEF Bearing
<1> QED BY <1>3

\* What is stored besides a turn does not touch what it tells.
LEMMA StoredTurnAgrees ==
    ASSUME NEW B, NEW E, Bearing(E, B), NEW seed \in Seq(E), seed # <<>>, NEW events, NEW context
    PROVE  RenderedAlike(StoredTurn(seed, events, context).turn)
<1> DEFINE turn == ProjectTurn(seed, events, NoFilters)
           bare == BarePairs(seed)
           pairs == [i \in 1..Len(bare) |-> [bare[i] EXCEPT !.subagent = SubagentOf(bare[i], events)]]
           kept == [turn EXCEPT !.pairs = WithTouches(turn.pairs, context)]
<1>1. RenderedAlike(turn)
  BY ProjectedTurnsAgree
<1>2. turn = TurnFrom(seed, pairs, NoFilters)
  BY DEF ProjectTurn
<1>3. StoredTurn(seed, events, context).turn = kept
  BY DEF StoredTurn, WithDerived
<1> HIDE DEF turn, pairs
<1>4. {"chunks", "markdown"} \subseteq DOMAIN turn
  BY <1>2 DEF TurnFrom
<1>5. kept.chunks = turn.chunks /\ kept.markdown = turn.markdown
  BY <1>4
<1> HIDE DEF kept
<1> QED BY <1>1, <1>3, <1>5 DEF RenderedAlike

\* The turns of a plan.
Agreeing(plan) == \A k \in DOMAIN plan.turns : RenderedAlike(plan.turns[k].turn)

LEMMA PlanAgrees ==
    ASSUME NEW E, NEW B, Bearing(E, B), NEW events \in Seq(E), NEW s, NEW from, NEW ord
    PROVE  /\ Plan(s, from, ord, events).session = s
           /\ Agreeing(Plan(s, from, ord, events))
<1> DEFINE context == TouchContext(s)
           seeds == Seeds(events)
           projected == SessionProjection(events, context)
           plan == Plan(s, from, ord, events)
<1>1. ASSUME NEW k \in DOMAIN projected PROVE RenderedAlike(projected[k].turn) /\ "turn" \in DOMAIN projected[k]
  <2>1. projected = [j \in 1..Len(seeds) |-> StoredTurn(seeds[j], events, context)]
    BY DEF SessionProjection
  <2>2. DOMAIN seeds = 1..Len(seeds)
    <3> DEFINE starts == Starts(events)
               n == Len(starts)
    <3>1. seeds = [j \in 1..n |-> seeds[j]]
      BY DEF Seeds
    <3>2. n \in Nat
      <4>1. starts \in Seq(1..Len(events))
        <5> DEFINE at == {i \in DOMAIN Numbers(Len(events)) :
                             \/ Numbers(Len(events))[i] = 1
                             \/ IsPrompt(events[Numbers(Len(events))[i]])}
        <5>1. starts = Picked(Numbers(Len(events)), at)
          BY DEF Starts, Where, Numbers
        <5> HIDE DEF at, starts
        <5> QED BY <5>1, NumbersRise, LenProperties
      <4> HIDE DEF starts
      <4> QED BY <4>1, LenProperties
    <3> HIDE DEF seeds, n
    <3>3. Len(seeds) = n
      BY <3>1, <3>2
    <3> QED BY <3>1, <3>3
  <2>3. k \in DOMAIN seeds /\ projected[k] = StoredTurn(seeds[k], events, context)
    <3> HIDE DEF seeds, projected
    <3> QED BY <2>1, <2>2
  <2> DEFINE seed == seeds[k]
  <2>4. seed \in Seq(E) /\ seed # <<>>
    BY <2>3, SeedsType
  <2> HIDE DEF seed, context
  <2>5. RenderedAlike(StoredTurn(seed, events, context).turn)
    BY <2>4, StoredTurnAgrees
  <2>6. "turn" \in DOMAIN StoredTurn(seed, events, context)
    BY DEF StoredTurn, WithDerived
  <2> QED BY <2>3, <2>5, <2>6 DEF seed
<1>2. plan.session = s /\ plan.turns = Numbered(projected, ord)
  BY DEF Plan
<1> HIDE DEF plan, projected
<1>3. ASSUME NEW k \in DOMAIN plan.turns PROVE RenderedAlike(plan.turns[k].turn)
  <2>1. k \in DOMAIN projected /\ plan.turns[k] = Joined(projected[k], [ord |-> ord + k - 1])
    BY <1>2 DEF Numbered
  <2>2. plan.turns[k].turn = projected[k].turn
    <3> DEFINE g == [ord |-> ord + k - 1]
    <3>1. "turn" \notin DOMAIN g
      OBVIOUS
    <3> HIDE DEF g
    <3>2. Joined(projected[k], g).turn = projected[k].turn
      BY <1>1, <2>1, <3>1, JoinedIs
    <3> QED BY <2>1, <3>2 DEF g
  <2> QED BY <1>1, <2>1, <2>2
<1> QED BY <1>2, <1>3 DEF Agreeing, plan

-----------------------------------------------------------------------------
(* How events that come later change the turns.                            *)

\* An event starts a turn when it is a prompt, and when it is the first.
Opens(w, e) == w = <<>> \/ IsPrompt(e)

LEMMA StartsType ==
    ASSUME NEW E, NEW w \in Seq(E)
    PROVE  Starts(w) \in Seq(1..Len(w)) /\ Rising(Starts(w))
<1> DEFINE n == Len(w)
           at == {i \in DOMAIN Numbers(n) : Numbers(n)[i] = 1 \/ IsPrompt(w[Numbers(n)[i]])}
<1>1. n \in Nat
  BY LenProperties
<1>2. Starts(w) = Picked(Numbers(n), at)
  BY DEF Starts, Where, Numbers
<1> HIDE DEF at
<1> QED BY <1>1, <1>2, NumbersRise

LEMMA StartsAppend ==
    ASSUME NEW E, NEW w \in Seq(E), NEW e \in E
    PROVE  Starts(Append(w, e)) = IF Opens(w, e) THEN Append(Starts(w), Len(w) + 1) ELSE Starts(w)
<1> DEFINE n == Len(w)
           x == n + 1
           t == Append(w, e)
           v == Numbers(n)
           at == {i \in 1..n : i = 1 \/ IsPrompt(w[i])}
           bt == {i \in 1..x : i = 1 \/ IsPrompt(t[i])}
<1>1. /\ n \in Nat /\ Len(t) = x /\ x \in Nat
      /\ t[x] = e /\ \A i \in 1..n : t[i] = w[i]
  BY AppendProperties, LenProperties
<1>2. v \in Seq(Nat) /\ Len(v) = n /\ Numbers(x) = Append(v, x)
  BY <1>1, NumbersAppend
<1>3. Starts(w) = Picked(v, at)
  <2>1. {i \in DOMAIN Numbers(n) : Numbers(n)[i] = 1 \/ IsPrompt(w[Numbers(n)[i]])} = at
    BY DEF Numbers
  <2> QED BY <2>1 DEF Starts, Where, Numbers
<1>4. Starts(t) = Picked(Numbers(x), bt)
  <2> HIDE DEF t, x
  <2>1. {i \in DOMAIN Numbers(x) : Numbers(x)[i] = 1 \/ IsPrompt(t[Numbers(x)[i]])} = bt
    BY DEF Numbers
  <2> QED BY <1>1, <2>1 DEF Starts, Where, Numbers
<1>5. \A i \in 1..n : i \in at <=> i \in bt
  BY <1>1
<1>6. x \in bt <=> Opens(w, e)
  <2>1. n = 0 <=> w = <<>>
    BY EmptySeq
  <2>2. x \in 1..x /\ (x = 1 <=> n = 0)
    BY <1>1
  <2> QED BY <1>1, <2>1, <2>2 DEF Opens
<1> HIDE DEF at, bt, v, x, t
<1>7. Picked(Append(v, x), bt) = IF x \in bt THEN Append(Picked(v, at), x) ELSE Picked(v, at)
  <2>1. Len(v) + 1 = x
    BY <1>2 DEF x
  <2> QED BY <1>1, <1>2, <1>5, <2>1, PickedAppend
<1> QED BY <1>2, <1>3, <1>4, <1>6, <1>7 DEF t, x

\* Where the k-th turn of w ends.
Until(w, k) == IF k < Len(Starts(w)) THEN Starts(w)[k + 1] - 1 ELSE Len(w)

LEMMA SeedAt ==
    ASSUME NEW E, NEW w \in Seq(E)
    PROVE  /\ Len(Starts(w)) \in Nat /\ Len(w) \in Nat
           /\ Seeds(w) \in Seq(Seq(E)) /\ Len(Seeds(w)) = Len(Starts(w))
           /\ DOMAIN Seeds(w) = 1..Len(Starts(w))
           /\ \A k \in 1..Len(Starts(w)) :
                 /\ Starts(w)[k] \in 1..Len(w) /\ Until(w, k) \in Starts(w)[k]..Len(w)
                 /\ Seeds(w)[k] = SubSeq(w, Starts(w)[k], Until(w, k))
                 /\ Seeds(w)[k] \in Seq(E)
                 /\ Len(Seeds(w)[k]) = Until(w, k) - Starts(w)[k] + 1
                 /\ \A i \in 1..Len(Seeds(w)[k]) : Seeds(w)[k][i] = w[Starts(w)[k] + i - 1]
<1> DEFINE n == Len(w)
           starts == Starts(w)
           m == Len(starts)
<1>1. n \in Nat /\ w \in [1..n -> E]
  BY LenProperties
<1>2. starts \in Seq(1..n) /\ Rising(starts)
  BY StartsType
<1>3. Seeds(w) = [k \in 1..m |-> SubSeq(w, starts[k], Until(w, k))]
  BY DEF Seeds, Until
<1> HIDE DEF starts
<1>4. m \in Nat /\ \A k \in 1..m : starts[k] \in 1..n
  BY <1>2, LenProperties, ElementOfSeq
<1>5. ASSUME NEW k \in 1..m
      PROVE  LET seed == SubSeq(w, starts[k], Until(w, k))
             IN  /\ Until(w, k) \in starts[k]..n
                 /\ seed \in Seq(E) /\ Len(seed) = Until(w, k) - starts[k] + 1
                 /\ \A i \in 1..Len(seed) : seed[i] = w[starts[k] + i - 1]
  <2> DEFINE a == starts[k]
             b == Until(w, k)
  <2>1. a \in 1..n /\ b \in a..n
    <3>1. CASE k < m
      <4>1. k + 1 \in 1..m
        BY <1>4, <3>1
      <4>2. starts[k] < starts[k + 1] /\ starts[k + 1] \in 1..n /\ starts[k] \in 1..n
        BY <1>2, <1>4, <3>1, <4>1 DEF Rising
      <4>3. b = starts[k + 1] - 1
        BY <3>1 DEF Until, starts
      <4> QED BY <1>1, <4>2, <4>3
    <3>2. CASE ~(k < m)
      <4>1. b = n
        BY <3>2 DEF Until, starts
      <4> QED BY <1>1, <1>4, <4>1
    <3> QED BY <3>1, <3>2
  <2> HIDE DEF a, b
  <2>2. a \in Int /\ b \in Int /\ a <= b /\ \A i \in a..b : w[i] \in E
    BY <1>1, <2>1
  <2>3. /\ SubSeq(w, a, b) \in Seq(E) /\ Len(SubSeq(w, a, b)) = b - a + 1
        /\ \A i \in 1..(b - a + 1) : SubSeq(w, a, b)[i] = w[a + i - 1]
    BY <2>2, SubSeqProperties
  <2> QED BY <2>1, <2>3 DEF a, b
<1>6. Seeds(w) \in [1..m -> Seq(E)]
  BY <1>3, <1>5
<1>7. Seeds(w) \in Seq(Seq(E))
  BY <1>4, <1>6, SeqDef
<1>8. Len(Seeds(w)) = m
  BY <1>4, <1>6, <1>7, LenProperties
<1> QED BY <1>1, <1>3, <1>4, <1>5, <1>6, <1>7, <1>8 DEF starts

LEMMA SingleSeq ==
    ASSUME NEW E, NEW e \in E
    PROVE  <<e>> \in Seq(E) /\ <<e>> = Append(<<>>, e) /\ Len(<<e>>) = 1 /\ <<e>>[1] = e
           /\ <<e>> # <<>>
<1>1. <<>> \in Seq(E) /\ Len(<<>>) = 0
  BY EmptySeq
<1>2. /\ Append(<<>>, e) \in Seq(E) /\ Len(Append(<<>>, e)) = 1 /\ Append(<<>>, e)[1] = e
      /\ Append(<<>>, e) # <<>>
  BY <1>1, AppendProperties
<1>3. <<e>> = Append(<<>>, e)
  OBVIOUS
<1> QED BY <1>2, <1>3

\* A sequence of sequences with the last one longer by e.
Extended(ss, e) == [ss EXCEPT ![Len(ss)] = Append(ss[Len(ss)], e)]

LEMMA StartsSome ==
    ASSUME NEW E, NEW w \in Seq(E), w # <<>>
    PROVE  Len(Starts(w)) # 0
<1> DEFINE G == {u \in Seq(E) : u # <<>> => Len(Starts(u)) # 0}
<1>1. <<>> \in G
  BY EmptySeq
<1>2. ASSUME NEW u \in Seq(E), NEW e \in E, u \in G PROVE Append(u, e) \in G
  <2>1. Append(u, e) \in Seq(E) /\ Len(u) + 1 \in Nat
    BY AppendProperties, LenProperties
  <2>2. Starts(u) \in Seq(Nat)
    <3>1. Starts(u) \in Seq(1..Len(u)) /\ 1..Len(u) \subseteq Nat
      BY StartsType
    <3> QED BY <3>1, SeqMonotonic
  <2>3. Len(Append(Starts(u), Len(u) + 1)) = Len(Starts(u)) + 1 /\ Len(Starts(u)) \in Nat
    BY <2>1, <2>2, AppendProperties, LenProperties
  <2>4. Starts(Append(u, e)) = IF Opens(u, e) THEN Append(Starts(u), Len(u) + 1) ELSE Starts(u)
    BY StartsAppend
  <2> QED BY <1>2, <2>1, <2>3, <2>4 DEF Opens
<1> HIDE DEF G
<1>3. \A u \in Seq(E) : u \in G
  BY <1>1, <1>2, SequencesIn
<1> QED BY <1>3 DEF G

LEMMA SeedsNone == Seeds(<<>>) = <<>>
<1>1. <<>> \in Seq({}) /\ Len(<<>>) = 0
  BY EmptySeq
<1>2. Starts(<<>>) \in Seq(1..Len(<<>>))
  BY <1>1, StartsType
<1>3. Len(Starts(<<>>)) = 0
  <2>1. Len(Starts(<<>>)) \in Nat
    BY <1>2, LenProperties
  <2>2. ASSUME 1 \in 1..Len(Starts(<<>>)) PROVE FALSE
    BY <1>1, <1>2, <2>2, ElementOfSeq
  <2> QED BY <2>1, <2>2
<1>4. Seeds(<<>>) \in Seq(Seq({})) /\ Len(Seeds(<<>>)) = 0
  BY <1>1, <1>3, SeedAt
<1> QED BY <1>4, EmptySeq

\* An event is a turn of its own, or belongs to the last one.
LEMMA SeedsAppend ==
    ASSUME NEW E, NEW w \in Seq(E), NEW e \in E
    PROVE  /\ w # <<>> => Len(Seeds(w)) \in Nat \ {0}
           /\ Seeds(Append(w, e)) = IF Opens(w, e) THEN Append(Seeds(w), <<e>>)
                                    ELSE Extended(Seeds(w), e)
<1> DEFINE n == Len(w)
           t == Append(w, e)
           S == Seeds(w)
           R == Seeds(t)
           m == Len(Starts(w))
<1>1. /\ n \in Nat /\ t \in Seq(E) /\ Len(t) = n + 1 /\ t[n + 1] = e
      /\ \A i \in 1..n : t[i] = w[i] /\ w[i] \in E
  BY AppendProperties, LenProperties, ElementOfSeq
<1>2. /\ m \in Nat /\ S \in Seq(Seq(E)) /\ Len(S) = m /\ DOMAIN S = 1..m
      /\ \A k \in 1..m : /\ Starts(w)[k] \in 1..n /\ Until(w, k) \in Starts(w)[k]..n
                         /\ S[k] = SubSeq(w, Starts(w)[k], Until(w, k))
                         /\ S[k] \in Seq(E)
                         /\ Len(S[k]) = Until(w, k) - Starts(w)[k] + 1
                         /\ \A i \in 1..Len(S[k]) : S[k][i] = w[Starts(w)[k] + i - 1]
  BY SeedAt
<1>3. /\ R \in Seq(Seq(E)) /\ Len(R) = Len(Starts(t)) /\ Len(R) \in Nat /\ DOMAIN R = 1..Len(R)
      /\ \A k \in 1..Len(R) :
            /\ R[k] \in Seq(E) /\ Len(R[k]) = Until(t, k) - Starts(t)[k] + 1
            /\ \A i \in 1..Len(R[k]) : R[k][i] = t[Starts(t)[k] + i - 1]
  <2>1. t \in Seq(E)
    BY <1>1
  <2> HIDE DEF t
  <2>2. /\ Len(Starts(t)) \in Nat
        /\ Seeds(t) \in Seq(Seq(E)) /\ Len(Seeds(t)) = Len(Starts(t))
        /\ DOMAIN Seeds(t) = 1..Len(Starts(t))
        /\ \A k \in 1..Len(Starts(t)) :
              /\ Seeds(t)[k] \in Seq(E)
              /\ Len(Seeds(t)[k]) = Until(t, k) - Starts(t)[k] + 1
              /\ \A i \in 1..Len(Seeds(t)[k]) : Seeds(t)[k][i] = t[Starts(t)[k] + i - 1]
    BY <2>1, SeedAt
  <2> QED BY <2>2
<1>4. Starts(t) = IF Opens(w, e) THEN Append(Starts(w), n + 1) ELSE Starts(w)
  BY StartsAppend
<1>5. m \in Nat /\ Starts(w) \in Seq(Nat)
  <2>1. Starts(w) \in Seq(1..n) /\ 1..n \subseteq Nat
    BY StartsType
  <2> QED BY <1>2, <2>1, SeqMonotonic
<1>6. Len(Append(Starts(w), n + 1)) = m + 1
      /\ (\A k \in 1..m : Append(Starts(w), n + 1)[k] = Starts(w)[k])
      /\ Append(Starts(w), n + 1)[m + 1] = n + 1
  BY <1>1, <1>5, AppendProperties
<1>9. w # <<>> => m # 0
  BY StartsSome
<1> HIDE DEF t, S, R, m
<1>7. CASE Opens(w, e)
  <2>1. Len(R) = m + 1 /\ Len(Starts(t)) = m + 1
    BY <1>3, <1>4, <1>6, <1>7
  <2>2. \A k \in 1..m : Starts(t)[k] = Starts(w)[k] /\ Until(t, k) = Until(w, k)
    <3> SUFFICES ASSUME NEW k \in 1..m
                 PROVE  Starts(t)[k] = Starts(w)[k] /\ Until(t, k) = Until(w, k)
      OBVIOUS
    <3>1. Starts(t)[k] = Starts(w)[k]
      BY <1>4, <1>6, <1>7
    <3>2. k < m + 1 /\ k + 1 \in 1..(m + 1)
      BY <1>5
    <3>3. CASE k < m
      <4>1. k + 1 \in 1..m
        BY <1>5, <3>3
      <4>2. Starts(t)[k + 1] = Starts(w)[k + 1]
        BY <1>4, <1>6, <1>7, <4>1
      <4> QED BY <2>1, <3>1, <3>2, <3>3, <4>2 DEF Until, m
    <3>4. CASE k = m
      <4>1. Starts(t)[k + 1] = n + 1
        BY <1>4, <1>6, <1>7, <3>4
      <4>2. Until(t, k) = n
        BY <1>1, <2>1, <3>2, <4>1 DEF Until
      <4>3. Until(w, k) = n
        BY <1>5, <3>4 DEF Until, m
      <4> QED BY <3>1, <4>2, <4>3
    <3> QED BY <1>5, <3>3, <3>4
  <2>3. \A k \in 1..m : R[k] = S[k]
    <3> SUFFICES ASSUME NEW k \in 1..m PROVE R[k] = S[k]
      OBVIOUS
    <3>1. k \in 1..Len(R)
      BY <1>5, <2>1
    <3>2. Len(R[k]) = Len(S[k])
      BY <1>2, <1>3, <2>2, <3>1
    <3>3. ASSUME NEW i \in 1..Len(R[k]) PROVE R[k][i] = S[k][i]
      <4> DEFINE a == Starts(w)[k]
                 b == Until(w, k)
      <4>1. a \in 1..n /\ b \in a..n /\ Len(S[k]) = b - a + 1
        BY <1>2
      <4>2. i \in 1..Len(S[k]) /\ a + i - 1 \in 1..n
        <5> HIDE DEF a, b
        <5> QED BY <1>1, <3>2, <3>3, <4>1
      <4>3. R[k][i] = t[a + i - 1] /\ S[k][i] = w[a + i - 1]
        <5>1. Starts(t)[k] = a
          BY <2>2
        <5> QED BY <1>2, <1>3, <3>1, <3>3, <4>2, <5>1
      <4> QED BY <1>1, <4>2, <4>3
    <3> QED BY <1>2, <1>3, <3>1, <3>2, <3>3, SeqEqual
  <2>4. R[m + 1] = <<e>>
    <3>1. m + 1 \in 1..Len(R)
      BY <1>5, <2>1
    <3>2. Starts(t)[m + 1] = n + 1
      BY <1>4, <1>6, <1>7
    <3>3. Until(t, m + 1) = n + 1
      BY <1>1, <1>5, <2>1 DEF Until
    <3>4. Len(R[m + 1]) = 1
      <4> DEFINE k == m + 1
      <4>1. Len(R[k]) = Until(t, k) - Starts(t)[k] + 1
        BY <1>3, <3>1
      <4> QED BY <1>1, <3>2, <3>3, <4>1
    <3>5. R[m + 1][1] = e
      <4>1. n + 1 + 1 - 1 = n + 1 /\ 1 \in 1..1
        BY <1>1
      <4> QED BY <1>1, <1>3, <3>1, <3>2, <3>4, <4>1
    <3> QED BY <1>3, <3>1, <3>4, <3>5, SingleSeq, SeqEqual
  <2>5. R = Append(S, <<e>>)
    <3> DEFINE x == <<e>>
    <3>1. x \in Seq(E)
      BY SingleSeq
    <3> HIDE DEF x
    <3>2. /\ Append(S, x) \in Seq(Seq(E)) /\ Len(Append(S, x)) = m + 1
          /\ \A k \in 1..m : Append(S, x)[k] = S[k]
          /\ Append(S, x)[m + 1] = x
      BY <1>2, <3>1, AppendProperties
    <3>3. \A k \in 1..(m + 1) : R[k] = Append(S, x)[k]
      <4> SUFFICES ASSUME NEW k \in 1..(m + 1) PROVE R[k] = Append(S, x)[k]
        OBVIOUS
      <4>1. k \in 1..m \/ k = m + 1
        BY <1>5
      <4>2. R[m + 1] = x
        BY <2>4 DEF x
      <4> QED BY <2>3, <3>2, <4>1, <4>2
    <3>4. R = Append(S, x)
      BY <1>3, <2>1, <3>2, <3>3, SeqEqual
    <3> QED BY <3>4 DEF x
  <2> QED BY <1>2, <1>5, <1>7, <1>9, <2>5 DEF S, R, t
<1>8. CASE ~Opens(w, e)
  <2>1. w # <<>> /\ m # 0
    BY <1>8, <1>9 DEF Opens
  <2>2. Len(R) = m /\ Starts(t) = Starts(w)
    BY <1>3, <1>4, <1>8 DEF m
  <2>3. \A k \in 1..m : Until(t, k) = IF k = m THEN n + 1 ELSE Until(w, k)
    BY <1>1, <1>5, <2>2 DEF Until, m
  <2>4. \A k \in 1..m : k # m => R[k] = S[k]
    <3> SUFFICES ASSUME NEW k \in 1..m, k # m PROVE R[k] = S[k]
      OBVIOUS
    <3> DEFINE a == Starts(w)[k]
               b == Until(w, k)
    <3>1. k \in 1..Len(R) /\ Starts(t)[k] = a /\ Until(t, k) = b
      BY <2>2, <2>3
    <3>2. a \in 1..n /\ b \in a..n /\ Len(S[k]) = b - a + 1 /\ Len(R[k]) = b - a + 1
      BY <1>2, <1>3, <3>1
    <3>3. ASSUME NEW i \in 1..Len(R[k]) PROVE R[k][i] = S[k][i]
      <4>1. i \in 1..Len(S[k]) /\ a + i - 1 \in 1..n
        <5> HIDE DEF a, b
        <5> QED BY <1>1, <3>2, <3>3
      <4>2. R[k][i] = t[a + i - 1] /\ S[k][i] = w[a + i - 1]
        BY <1>2, <1>3, <3>1, <3>3, <4>1
      <4> QED BY <1>1, <4>1, <4>2
    <3>4. R[k] \in Seq(E) /\ S[k] \in Seq(E) /\ Len(R[k]) = Len(S[k])
      BY <1>2, <1>3, <3>1, <3>2
    <3> QED BY <3>3, <3>4, SeqEqual
  <2>5. R[m] = Append(S[m], e)
    <3> DEFINE a == Starts(w)[m]
    <3>1. m \in 1..m /\ m \in 1..Len(R) /\ Starts(t)[m] = a /\ Until(t, m) = n + 1 /\ Until(w, m) = n
      <4>1. m \in 1..m /\ ~(m < m)
        BY <1>5, <2>1
      <4>2. Until(w, m) = n
        BY <4>1 DEF Until, m
      <4> QED BY <2>2, <2>3, <4>1, <4>2
    <3>2. /\ a \in 1..n /\ Len(S[m]) = n - a + 1 /\ Len(R[m]) = n + 1 - a + 1
          /\ S[m] \in Seq(E) /\ R[m] \in Seq(E)
      <4>1. a \in 1..n /\ Len(S[m]) = n - a + 1 /\ S[m] \in Seq(E)
        BY <1>2, <3>1
      <4>2. Len(R[m]) = n + 1 - a + 1 /\ R[m] \in Seq(E)
        <5>1. Len(R[m]) = Until(t, m) - Starts(t)[m] + 1 /\ R[m] \in Seq(E)
          BY <1>3, <3>1
        <5> DEFINE p == Until(t, m)
                   q == Starts(t)[m]
        <5>2. p = n + 1 /\ q = a
          BY <3>1
        <5>3. Len(R[m]) = p - q + 1 /\ R[m] \in Seq(E)
          BY <5>1
        <5> HIDE DEF p, q, a
        <5> QED BY <1>1, <4>1, <5>2, <5>3
      <4> QED BY <4>1, <4>2
    <3> DEFINE u == Append(S[m], e)
    <3>3. /\ u \in Seq(E) /\ Len(u) = Len(S[m]) + 1 /\ u[Len(S[m]) + 1] = e
          /\ \A i \in 1..Len(S[m]) : u[i] = S[m][i]
      BY <3>2, AppendProperties
    <3> HIDE DEF u
    <3>4. ASSUME NEW i \in 1..Len(R[m]) PROVE R[m][i] = u[i]
      <4>1. R[m][i] = t[a + i - 1]
        BY <1>3, <3>1, <3>4
      <4>2. CASE i \in 1..Len(S[m])
        <5>1. S[m][i] = w[a + i - 1]
          BY <1>2, <3>1, <4>2
        <5>2. a + i - 1 \in 1..n
          <6> HIDE DEF a
          <6> QED BY <1>1, <3>2, <4>2
        <5> QED BY <1>1, <3>3, <4>1, <4>2, <5>1, <5>2
      <4>3. CASE i \notin 1..Len(S[m])
        <5>1. i = Len(S[m]) + 1 /\ a + i - 1 = n + 1
          <6> DEFINE l == Len(S[m])
          <6>1. l \in Nat /\ l = n - a + 1 /\ i \in 1..(n + 1 - a + 1) /\ a \in 1..n
            BY <3>2, <3>4, LenProperties
          <6>2. i \notin 1..l
            BY <4>3
          <6> HIDE DEF a, l
          <6>3. i = l + 1 /\ a + i - 1 = n + 1
            BY <1>1, <6>1, <6>2
          <6> QED BY <6>3 DEF l
        <5> QED BY <1>1, <3>3, <4>1, <5>1
      <4> QED BY <4>2, <4>3
    <3>5. Len(R[m]) = Len(u)
      <4> HIDE DEF a
      <4> QED BY <1>1, <3>2, <3>3
    <3>6. R[m] = u
      BY <3>2, <3>3, <3>4, <3>5, SeqEqual
    <3> QED BY <3>6 DEF u
  <2>6. R = Extended(S, e)
    <3> DEFINE x == Append(S[m], e)
    <3>1. x \in Seq(E) /\ m \in 1..Len(S)
      BY <1>2, <1>5, <2>1, AppendProperties
    <3> HIDE DEF x
    <3>2. /\ [S EXCEPT ![m] = x] \in Seq(Seq(E)) /\ Len([S EXCEPT ![m] = x]) = m
          /\ \A k \in 1..m : [S EXCEPT ![m] = x][k] = IF k = m THEN x ELSE S[k]
      BY <1>2, <3>1, ExceptSeq
    <3>3. \A k \in 1..m : R[k] = [S EXCEPT ![m] = x][k]
      BY <2>4, <2>5, <3>2 DEF x
    <3>4. R = [S EXCEPT ![m] = x]
      BY <1>3, <2>2, <3>2, <3>3, SeqEqual
    <3> QED BY <1>2, <3>4 DEF x, Extended
  <2> QED BY <1>2, <1>5, <1>8, <1>9, <2>6 DEF S, R, t
<1> QED BY <1>2, <1>7, <1>8, <1>9 DEF S

LEMMA ConcatAppend ==
    ASSUME NEW S, NEW u \in Seq(S), NEW v \in Seq(S), NEW x \in S
    PROVE  u \o Append(v, x) = Append(u \o v, x)
<1>1. /\ u \o v \in Seq(S) /\ <<x>> \in Seq(S)
      /\ Append(v, x) = v \o <<x>> /\ Append(u \o v, x) = (u \o v) \o <<x>>
  BY ConcatProperties, AppendIsConcat, SingleSeq
<1>2. u \o (v \o <<x>>) = (u \o v) \o <<x>>
  BY <1>1, ConcatAssociative
<1> QED BY <1>1, <1>2

LEMMA ConcatExtended ==
    ASSUME NEW E, NEW T, T = Seq(E), NEW ss \in Seq(T), NEW tt \in Seq(T), tt # <<>>, NEW e \in E
    PROVE  /\ Extended(tt, e) \in Seq(T) /\ Len(Extended(tt, e)) = Len(tt)
           /\ Join(ss, Extended(tt, e)) = Extended(Join(ss, tt), e)
<1> DEFINE m == Len(ss)
           n == Len(tt)
           x == Append(tt[n], e)
           ut == [tt EXCEPT ![n] = x]
           j == ss \o tt
<1>1. m \in Nat /\ n \in Nat /\ n # 0 /\ n \in 1..n
  BY EmptySeq, LenProperties
<1>2. tt[n] \in Seq(E) /\ x \in Seq(E)
  BY <1>1, ElementOfSeq, AppendProperties
<1>3. /\ j \in Seq(T) /\ Len(j) = m + n
      /\ \A i \in 1..(m + n) : j[i] = IF i <= m THEN ss[i] ELSE tt[i - m]
  BY ConcatProperties
<1>4. Extended(tt, e) = ut
  BY DEF Extended
<1>5. j[m + n] = tt[n]
  BY <1>1, <1>3
<1>6. Extended(j, e) = [j EXCEPT ![m + n] = x]
  BY <1>3, <1>5 DEF Extended
<1> HIDE DEF x, j
<1>7. ut \in Seq(T) /\ Len(ut) = n /\ \A i \in 1..n : ut[i] = IF i = n THEN x ELSE tt[i]
  BY <1>1, <1>2, ExceptSeq
<1>8. /\ [j EXCEPT ![m + n] = x] \in Seq(T) /\ Len([j EXCEPT ![m + n] = x]) = m + n
      /\ \A i \in 1..(m + n) : [j EXCEPT ![m + n] = x][i] = IF i = m + n THEN x ELSE j[i]
  <2>1. m + n \in 1..Len(j)
    BY <1>1, <1>3
  <2> QED BY <1>2, <1>3, <2>1, ExceptSeq
<1> HIDE DEF ut
<1>9. /\ ss \o ut \in Seq(T) /\ Len(ss \o ut) = m + n
      /\ \A i \in 1..(m + n) : (ss \o ut)[i] = IF i <= m THEN ss[i] ELSE ut[i - m]
  <2>1. ss \in Seq(T) /\ ut \in Seq(T)
    BY <1>7
  <2> HIDE DEF m, n
  <2>2. /\ ss \o ut \in Seq(T) /\ Len(ss \o ut) = Len(ss) + Len(ut)
        /\ \A i \in 1..(Len(ss) + Len(ut)) :
              (ss \o ut)[i] = IF i <= Len(ss) THEN ss[i] ELSE ut[i - Len(ss)]
    BY <2>1, ConcatProperties
  <2>3. Len(ss) = m /\ Len(ut) = n
    BY <1>7 DEF m
  <2> QED BY <2>2, <2>3
<1>10. ASSUME NEW i \in 1..(m + n) PROVE (ss \o ut)[i] = [j EXCEPT ![m + n] = x][i]
  <2>1. CASE i <= m
    BY <1>1, <1>3, <1>8, <1>9, <2>1
  <2>2. CASE ~(i <= m)
    <3>1. i - m \in 1..n /\ (i - m = n <=> i = m + n)
      BY <1>1, <2>2
    <3> QED BY <1>3, <1>7, <1>8, <1>9, <2>2, <3>1
  <2> QED BY <2>1, <2>2
<1>11. ss \o ut = [j EXCEPT ![m + n] = x]
  BY <1>8, <1>9, <1>10, SeqEqual
<1> QED BY <1>4, <1>6, <1>7, <1>11 DEF j, Join

\* A list of events may be cut where v starts a turn.
Cuts(u, v) == u = <<>> \/ v = <<>> \/ IsPrompt(v[1])

\* The turns of a list of events that is cut there are those of its two parts.
LEMMA SeedsConcat ==
    ASSUME NEW E, NEW u \in Seq(E), NEW v \in Seq(E), Cuts(u, v)
    PROVE  Seeds(u \o v) = Seeds(u) \o Seeds(v)
<1> DEFINE G == {x \in Seq(E) : Cuts(u, x) => Seeds(u \o x) = Seeds(u) \o Seeds(x)}
<1>0. Seeds(u) \in Seq(Seq(E))
  BY SeedAt
<1>1. <<>> \in G
  BY <1>0, SeedsNone, EmptySeq, ConcatEmptySeq
<1>2. ASSUME NEW x \in Seq(E), NEW e \in E, x \in G PROVE Append(x, e) \in G
  <2>1. Append(x, e) \in Seq(E) /\ Len(x) \in Nat
    BY AppendProperties, LenProperties
  <2> SUFFICES ASSUME Cuts(u, Append(x, e))
               PROVE  Seeds(u \o Append(x, e)) = Seeds(u) \o Seeds(Append(x, e))
    BY <2>1
  <2>2. u \o Append(x, e) = Append(u \o x, e) /\ u \o x \in Seq(E)
    BY ConcatAppend, ConcatProperties
  <2>3. /\ Seeds(Append(x, e)) = IF Opens(x, e) THEN Append(Seeds(x), <<e>>) ELSE Extended(Seeds(x), e)
        /\ Seeds(Append(u \o x, e)) = IF Opens(u \o x, e) THEN Append(Seeds(u \o x), <<e>>)
                                      ELSE Extended(Seeds(u \o x), e)
    BY <2>2, SeedsAppend
  <2>4. Append(x, e) # <<>> /\ Append(x, e)[1] = IF x = <<>> THEN e ELSE x[1]
    <3>1. x = <<>> => Len(x) = 0
      OBVIOUS
    <3>2. x # <<>> => Len(x) # 0
      BY EmptySeq
    <3> QED BY <2>1, <3>1, <3>2, AppendProperties
  <2>5. u \o x = <<>> <=> u = <<>> /\ x = <<>>
    BY ConcatEqualIffEmpty
  <2>6. Opens(u \o x, e) <=> Opens(x, e)
    BY <2>4, <2>5 DEF Opens, Cuts
  <2>7. Seeds(u \o x) = Seeds(u) \o Seeds(x)
    BY <1>2, <2>4 DEF Cuts
  <2>8. Seeds(x) \in Seq(Seq(E)) /\ <<e>> \in Seq(E)
    BY SeedAt, SingleSeq
  <2>9. CASE Opens(x, e)
    <3> DEFINE d == <<e>>
    <3>1. Seeds(u) \o Append(Seeds(x), d) = Append(Seeds(u) \o Seeds(x), d)
      <4> HIDE DEF d
      <4> DEFINE T == Seq(E)
                 a == Seeds(u)
                 b == Seeds(x)
      <4>1. d \in T /\ a \in Seq(T) /\ b \in Seq(T)
        BY <1>0, <2>8 DEF d
      <4> HIDE DEF T, a, b
      <4>2. a \o Append(b, d) = Append(a \o b, d)
        BY <4>1, ConcatAppend
      <4> QED BY <4>2 DEF a, b
    <3> QED BY <2>2, <2>3, <2>6, <2>7, <2>9, <3>1
  <2>10. CASE ~Opens(x, e)
    <3>1. Seeds(x) # <<>>
      <4>1. Len(Seeds(x)) # 0
        BY <2>10, SeedsAppend DEF Opens
      <4> QED BY <4>1
    <3>2. Join(Seeds(u), Extended(Seeds(x), e)) = Extended(Join(Seeds(u), Seeds(x)), e)
      <4> DEFINE T == Seq(E)
      <4>1. Seeds(u) \in Seq(T) /\ Seeds(x) \in Seq(T) /\ Seeds(x) # <<>> /\ T = Seq(E)
        BY <1>0, <2>8, <3>1
      <4> HIDE DEF T, G
      <4> QED BY <4>1, ConcatExtended
    <3>3. Seeds(u) \o Extended(Seeds(x), e) = Extended(Seeds(u) \o Seeds(x), e)
      BY <3>2 DEF Join
    <3> QED BY <3>3, <2>2, <2>3, <2>6, <2>7, <2>10, <3>2
  <2> QED BY <2>9, <2>10
<1> HIDE DEF G
<1>3. \A x \in Seq(E) : x \in G
  BY <1>1, <1>2, SequencesIn
<1> QED BY <1>3 DEF G

\* The last turn of a list of events.
LEMMA LastTurn ==
    ASSUME NEW E, NEW w \in Seq(E), w # <<>>
    PROVE  \E u, v \in Seq(E) : w = u \o v /\ v # <<>> /\ Cuts(u, v) /\ Seeds(v) = <<v>>
<1> DEFINE Split(x) == \E u, v \in Seq(E) : x = u \o v /\ v # <<>> /\ Cuts(u, v) /\ Seeds(v) = <<v>>
           G == {x \in Seq(E) : x # <<>> => Split(x)}
<1>1. <<>> \in G
  BY EmptySeq
<1>2. ASSUME NEW x \in Seq(E), NEW e \in E, x \in G PROVE Append(x, e) \in G
  <2>1. Append(x, e) \in Seq(E)
    BY AppendProperties
  <2>2. CASE Opens(x, e)
    <3>1. <<e>> \in Seq(E) /\ <<e>> # <<>> /\ <<e>>[1] = e /\ <<>> \in Seq(E)
      BY SingleSeq, EmptySeq
    <3>2. Append(x, e) = x \o <<e>>
      BY AppendIsConcat
    <3>3. Seeds(<<e>>) = <<<<e>>>>
      <4>1. Seeds(Append(<<>>, e)) = Append(Seeds(<<>>), <<e>>)
        BY <3>1, SeedsAppend DEF Opens
      <4> QED BY <4>1, SeedsNone, SingleSeq
    <3>4. Cuts(x, <<e>>)
      BY <2>2, <3>1 DEF Cuts, Opens
    <3> QED BY <2>1, <3>1, <3>2, <3>3, <3>4
  <2>3. CASE ~Opens(x, e)
    <3>1. PICK u \in Seq(E), v \in Seq(E) : x = u \o v /\ v # <<>> /\ Cuts(u, v) /\ Seeds(v) = <<v>>
      BY <1>2, <2>3 DEF Opens
    <3> DEFINE vt == Append(v, e)
    <3>2. Append(x, e) = u \o vt /\ vt \in Seq(E) /\ vt # <<>>
      <4>1. u \o Append(v, e) = Append(u \o v, e)
        BY ConcatAppend
      <4>2. Append(v, e) \in Seq(E) /\ Append(v, e) # <<>>
        BY AppendProperties
      <4> QED BY <3>1, <4>1, <4>2
    <3>3. vt[1] = v[1]
      <4>1. Len(v) \in Nat /\ Len(v) # 0
        BY <3>1, EmptySeq, LenProperties
      <4> QED BY <4>1, AppendProperties
    <3>4. Cuts(u, vt)
      BY <3>1, <3>3 DEF Cuts
    <3>5. Seeds(vt) = <<vt>>
      <4>1. Seeds(vt) = Extended(Seeds(v), e)
        BY <2>3, <3>1, SeedsAppend DEF Opens
      <4>2. Extended(<<v>>, e) = <<Append(v, e)>>
        BY DEF Extended
      <4> QED BY <3>1, <4>1, <4>2
    <3> QED BY <2>1, <3>2, <3>4, <3>5
  <2> QED BY <2>2, <2>3
<1> HIDE DEF G
<1>3. \A x \in Seq(E) : x \in G
  BY <1>1, <1>2, SequencesIn
<1> QED BY <1>3 DEF G

LEMMA RisingAll ==
    ASSUME NEW n, NEW u \in Seq(1..n), n \in Nat, Rising(u)
    PROVE  \A l \in 1..Len(u) : \A k \in 1..Len(u) : k < l => u[k] < u[l]
<1>1. Len(u) \in Nat /\ \A k \in 1..Len(u) : u[k] \in 1..n
  BY LenProperties, ElementOfSeq
<1> DEFINE G == {l \in Nat : l \in 1..Len(u) => \A k \in 1..Len(u) : k < l => u[k] < u[l]}
<1>2. 0 \in G
  OBVIOUS
<1>3. ASSUME NEW l \in Nat, l \in G PROVE l + 1 \in G
  <2> SUFFICES ASSUME l + 1 \in 1..Len(u), NEW k \in 1..Len(u), k < l + 1 PROVE u[k] < u[l + 1]
    OBVIOUS
  <2>1. l \in 1..Len(u) /\ u[l] < u[l + 1]
    BY <1>1 DEF Rising
  <2>2. u[k] <= u[l]
    <3>1. CASE k = l
      BY <1>1, <3>1
    <3>2. CASE k # l
      <4>1. k < l
        BY <1>1, <3>2
      <4>2. u[k] < u[l] /\ u[k] \in 1..n /\ u[l] \in 1..n
        BY <1>1, <1>3, <2>1, <4>1
      <4> QED BY <4>2
    <3> QED BY <3>1, <3>2
  <2>3. u[k] \in 1..n /\ u[l] \in 1..n /\ u[l + 1] \in 1..n
    BY <1>1, <2>1
  <2> QED BY <2>1, <2>2, <2>3
<1> HIDE DEF G
<1>4. \A l \in Nat : l \in G
  BY <1>2, <1>3, NumbersIn
<1> QED BY <1>1, <1>4 DEF G

\* The first events of the turns.
LEMMA SeedFirsts ==
    ASSUME NEW E, NEW w \in Seq(E)
    PROVE  /\ Len(Seeds(w)) \in Nat /\ DOMAIN Seeds(w) = 1..Len(Seeds(w))
           /\ \A k \in 1..Len(Seeds(w)) :
                 Starts(w)[k] \in 1..Len(w) /\ Seeds(w)[k][1] = w[Starts(w)[k]]
           /\ \A k, l \in 1..Len(Seeds(w)) : k < l => Starts(w)[k] < Starts(w)[l]
<1> DEFINE m == Len(Starts(w))
<1>1. /\ m \in Nat /\ Len(w) \in Nat /\ Len(Seeds(w)) = m /\ DOMAIN Seeds(w) = 1..m
      /\ \A k \in 1..m :
            /\ Starts(w)[k] \in 1..Len(w) /\ Until(w, k) \in Starts(w)[k]..Len(w)
            /\ Len(Seeds(w)[k]) = Until(w, k) - Starts(w)[k] + 1
            /\ \A i \in 1..Len(Seeds(w)[k]) : Seeds(w)[k][i] = w[Starts(w)[k] + i - 1]
  BY SeedAt
<1> HIDE DEF m
<1>2. ASSUME NEW k \in 1..m PROVE Seeds(w)[k][1] = w[Starts(w)[k]]
  <2> DEFINE a == Starts(w)[k]
             b == Until(w, k)
  <2>1. a \in 1..Len(w) /\ b \in a..Len(w) /\ Len(Seeds(w)[k]) = b - a + 1
    BY <1>1
  <2>2. 1 \in 1..Len(Seeds(w)[k]) /\ a + 1 - 1 = a
    <3> HIDE DEF a, b
    <3> QED BY <1>1, <2>1
  <2>3. Seeds(w)[k][1] = w[a + 1 - 1]
    BY <1>1, <2>2
  <2> QED BY <2>2, <2>3
<1>3. \A l \in 1..m : \A k \in 1..m : k < l => Starts(w)[k] < Starts(w)[l]
  <2>1. Starts(w) \in Seq(1..Len(w)) /\ Rising(Starts(w))
    BY StartsType
  <2> QED BY <1>1, <2>1, RisingAll DEF m
<1> QED BY <1>1, <1>2, <1>3

-----------------------------------------------------------------------------
(* Where a projection panics, one of more events does.                     *)

LEMMA PreviewGrows ==
    ASSUME NEW E, NEW seed \in Seq(E), seed # <<>>, NEW e \in E, PreviewPanics(seed)
    PROVE  PreviewPanics(Append(seed, e))
<1> DEFINE t == Append(seed, e)
           at == {i \in DOMAIN seed : IsAssistant(seed[i])}
           bt == {i \in DOMAIN t : IsAssistant(t[i])}
           said == Picked(seed, at)
           told == Picked(t, bt)
           prompt == IF PromptOf(seed) = Nil THEN <<>> ELSE TextsOf(PromptOf(seed), "text")
           answer == IF said = <<>> THEN <<>> ELSE TextsOf(said[1], "text")
           reply == IF told = <<>> THEN <<>> ELSE TextsOf(told[1], "text")
           Of(p, a) == CASE ~EmptyText(p) -> [by |-> "user", text |-> p]
                         [] EmptyText(p) /\ ~EmptyText(a) -> [by |-> "assistant", text |-> a]
                         [] OTHER -> [by |-> Nil, text |-> <<>>]
<1>1. /\ Len(seed) \in Nat /\ Len(seed) # 0 /\ DOMAIN seed = 1..Len(seed)
      /\ t \in Seq(E) /\ DOMAIN t = 1..(Len(seed) + 1)
      /\ \A i \in 1..Len(seed) : t[i] = seed[i]
  BY EmptySeq, AppendProperties, LenProperties
<1>2. t[1] = seed[1]
  BY <1>1
<1>3. PromptOf(t) = PromptOf(seed)
  BY <1>2 DEF PromptOf
<1>4. Preview(seed) = Of(prompt, answer) /\ Preview(t) = Of(prompt, reply)
  BY <1>3 DEF Preview, Where
<1>5. \A i \in 1..Len(seed) : i \in bt <=> i \in at
  BY <1>1
<1>6. told = IF Len(seed) + 1 \in bt THEN Append(said, e) ELSE said
  <2> HIDE DEF at, bt
  <2> QED BY <1>5, PickedAppend
<1>7. said \in Seq(E)
  BY PickedType
<1> HIDE DEF said, told
<1>8. said # <<>> => reply = answer
  <2> SUFFICES ASSUME said # <<>> PROVE reply = answer
    OBVIOUS
  <2>1. Len(said) \in Nat /\ Len(said) # 0
    BY <1>7, EmptySeq, LenProperties
  <2>2. Append(said, e) # <<>> /\ Append(said, e)[1] = said[1]
    BY <1>7, <2>1, AppendProperties
  <2> QED BY <1>6, <2>2
<1>9. said = <<>> /\ EmptyText(prompt) => Of(prompt, answer).text = <<>>
  BY DEF EmptyText
<1>10. Of(prompt, answer).text # <<>>
  BY <1>4 DEF PreviewPanics
<1>11. Of(prompt, reply) = Of(prompt, answer)
  <2>1. CASE said # <<>>
    BY <1>8, <2>1
  <2>2. CASE said = <<>>
    <3>1. ~EmptyText(prompt)
      BY <1>9, <1>10, <2>2
    <3> QED BY <3>1
  <2> QED BY <2>1, <2>2
<1> QED BY <1>4, <1>11 DEF PreviewPanics

LEMMA PanicsOfParts ==
    ASSUME NEW E, NEW u \in Seq(E), NEW v \in Seq(E), Cuts(u, v)
    PROVE  ProjectionPanics(u \o v) <=> ProjectionPanics(u) \/ ProjectionPanics(v)
<1> DEFINE a == Seeds(u)
           b == Seeds(v)
           T == Seq(E)
<1>1. a \in Seq(T) /\ b \in Seq(T)
  BY SeedAt
<1>2. Seeds(u \o v) = a \o b
  BY SeedsConcat
<1> HIDE DEF a, b, T
<1> DEFINE c == a \o b
<1>3. /\ c \in Seq(T) /\ Len(c) = Len(a) + Len(b)
      /\ \A i \in 1..(Len(a) + Len(b)) : c[i] = IF i <= Len(a) THEN a[i] ELSE b[i - Len(a)]
  BY <1>1, ConcatProperties
<1> HIDE DEF c
<1>4. /\ Len(a) \in Nat /\ Len(b) \in Nat /\ DOMAIN a = 1..Len(a) /\ DOMAIN b = 1..Len(b)
      /\ DOMAIN c = 1..(Len(a) + Len(b))
  BY <1>1, <1>3, LenProperties
<1>5. ProjectionPanics(u \o v) <=> \E k \in DOMAIN c : PreviewPanics(c[k])
  BY <1>2 DEF ProjectionPanics, c
<1>6. /\ ProjectionPanics(u) <=> \E k \in DOMAIN a : PreviewPanics(a[k])
      /\ ProjectionPanics(v) <=> \E k \in DOMAIN b : PreviewPanics(b[k])
  BY DEF ProjectionPanics, a, b
<1>7. ASSUME NEW k \in DOMAIN a PROVE k \in DOMAIN c /\ c[k] = a[k]
  BY <1>3, <1>4
<1>8. ASSUME NEW k \in DOMAIN b PROVE Len(a) + k \in DOMAIN c /\ c[Len(a) + k] = b[k]
  BY <1>3, <1>4
<1>9. ASSUME NEW k \in DOMAIN c, k \notin DOMAIN a PROVE k - Len(a) \in DOMAIN b /\ c[k] = b[k - Len(a)]
  <2> DEFINE m == Len(a)
             n == Len(b)
  <2>1. m \in Nat /\ n \in Nat /\ k \in 1..(m + n) /\ k \notin 1..m
    BY <1>4, <1>9
  <2>2. c[k] = IF k <= m THEN a[k] ELSE b[k - m]
    BY <1>3, <2>1
  <2>3. DOMAIN b = 1..n
    BY <1>4
  <2> HIDE DEF m, n
  <2>4. ~(k <= m) /\ k - m \in 1..n
    BY <2>1
  <2> QED BY <2>2, <2>3, <2>4 DEF m
<1> QED BY <1>5, <1>6, <1>7, <1>8, <1>9

LEMMA PanicsGrow ==
    ASSUME NEW E, NEW u \in Seq(E), ProjectionPanics(u)
    PROVE  \A v \in Seq(E) : ProjectionPanics(u \o v)
<1> DEFINE G == {v \in Seq(E) : ProjectionPanics(u \o v)}
<1>1. <<>> \in G
  BY EmptySeq, ConcatEmptySeq
<1>2. ASSUME NEW v \in Seq(E), NEW e \in E, v \in G PROVE Append(v, e) \in G
  <2> DEFINE w == u \o v
             S == Seeds(w)
             T == Seq(E)
             R == Seeds(Append(w, e))
  <2>1. w \in Seq(E) /\ u \o Append(v, e) = Append(w, e) /\ Append(v, e) \in Seq(E)
    BY ConcatProperties, ConcatAppend, AppendProperties
  <2>2. PICK k \in DOMAIN S : PreviewPanics(S[k])
    BY <1>2 DEF ProjectionPanics
  <2>3. S \in Seq(T) /\ R = IF Opens(w, e) THEN Append(S, <<e>>) ELSE Extended(S, e)
    <3> HIDE DEF w
    <3>1. Seeds(w) \in Seq(Seq(E))
      BY <2>1, SeedAt
    <3>2. Seeds(Append(w, e)) = IF Opens(w, e) THEN Append(Seeds(w), <<e>>) ELSE Extended(Seeds(w), e)
      BY <2>1, SeedsAppend
    <3> QED BY <3>1, <3>2
  <2>4. <<e>> \in T /\ T = Seq(E)
    BY SingleSeq
  <2> HIDE DEF w, S, T, R
  <2>5. Len(S) \in Nat /\ DOMAIN S = 1..Len(S) /\ S[k] \in T
    BY <2>3, LenProperties, ElementOfSeq
  <2>6. CASE Opens(w, e)
    <3> DEFINE d == <<e>>
    <3>1. d \in T /\ R = Append(S, d)
      BY <2>3, <2>4, <2>6
    <3> HIDE DEF d
    <3>2. k \in DOMAIN R /\ R[k] = S[k]
      BY <2>3, <2>5, <3>1, AppendProperties, LenProperties
    <3>3. ProjectionPanics(Append(w, e))
      BY <2>2, <3>2 DEF ProjectionPanics, R
    <3> QED BY <2>1, <3>3 DEF w
  <2>7. CASE ~Opens(w, e)
    <3> DEFINE m == Len(S)
               x == Append(S[m], e)
    <3>1. R = [S EXCEPT ![m] = x] /\ m \in 1..m
      BY <2>3, <2>5, <2>7 DEF Extended
    <3>2. S[k] # <<>>
      BY <2>1, SeedsType DEF S
    <3>3. PreviewPanics(R[k])
      <4>1. CASE k = m
        <5>1. R[k] = Append(S[k], e)
          BY <2>5, <3>1, <4>1
        <5> QED BY <2>2, <2>4, <2>5, <3>2, <5>1, PreviewGrows
      <4>2. CASE k # m
        BY <2>2, <2>5, <3>1, <4>2
      <4> QED BY <4>1, <4>2
    <3>4. k \in DOMAIN R
      BY <2>5, <3>1
    <3>5. ProjectionPanics(Append(w, e))
      BY <3>3, <3>4 DEF ProjectionPanics, R
    <3> QED BY <2>1, <3>5 DEF w
  <2> QED BY <2>6, <2>7
<1> HIDE DEF G
<1>3. \A v \in Seq(E) : v \in G
  BY <1>1, <1>2, SequencesIn
<1> QED BY <1>3 DEF G

-----------------------------------------------------------------------------
(* What of a turn does not depend on the logs of subagents.                *)

CallOf(x) ==
    [id |-> x.id, type |-> x.type, category |-> x.category, input |-> x.input,
     result |-> x.result, err |-> x.err, pending |-> x.pending]

\* Two lists of the same calls, whatever logs and files go with them.
SameCalls(p, q, n) ==
    /\ n \in Nat /\ DOMAIN p = 1..n /\ DOMAIN q = 1..n
    /\ \A i \in 1..n : CallOf(p[i]) = CallOf(q[i])

LEMMA CallIs ==
    ASSUME NEW x, NEW y, CallOf(x) = CallOf(y)
    PROVE  /\ x.id = y.id /\ x.type = y.type /\ x.category = y.category /\ x.input = y.input
           /\ x.result = y.result /\ x.err = y.err /\ x.pending = y.pending
<1> DEFINE a == CallOf(x)
           b == CallOf(y)
<1>1. /\ a.id = x.id /\ a.type = x.type /\ a.category = x.category /\ a.input = x.input
      /\ a.result = x.result /\ a.err = x.err /\ a.pending = x.pending
  BY DEF CallOf
<1>2. /\ b.id = y.id /\ b.type = y.type /\ b.category = y.category /\ b.input = y.input
      /\ b.result = y.result /\ b.err = y.err /\ b.pending = y.pending
  BY DEF CallOf
<1>3. a = b
  OBVIOUS
<1> HIDE DEF a, b
<1> QED BY <1>1, <1>2, <1>3

LEMMA SameById ==
    ASSUME NEW p, NEW q, NEW n, SameCalls(p, q, n), NEW id
    PROVE  /\ HasPair(p, id) <=> HasPair(q, id)
           /\ HasPair(p, id) => CallOf(PairById(p, id)) = CallOf(PairById(q, id))
<1>1. \A i \in 1..n : p[i].id = q[i].id
  BY CallIs DEF SameCalls
<1>2. HasPair(p, id) <=> HasPair(q, id)
  BY <1>1 DEF HasPair, SameCalls
<1>3. ASSUME HasPair(p, id) PROVE CallOf(PairById(p, id)) = CallOf(PairById(q, id))
  <2> DEFINE S == {i \in DOMAIN p : p[i].id = id}
  <2>1. S = {i \in DOMAIN q : q[i].id = id}
    BY <1>1 DEF SameCalls
  <2>2. S \in SUBSET Nat /\ S # {} /\ n \in Nat /\ \A i \in S : i <= n /\ i \in 1..n
    BY <1>3 DEF HasPair, SameCalls
  <2>3. PairById(p, id) = p[Max(S)] /\ PairById(q, id) = q[Max(S)]
    BY <2>1 DEF PairById
  <2> HIDE DEF S
  <2>4. \E m \in S : \A k \in S : k <= m
    BY <2>2, LargestOf
  <2>5. Max(S) \in S
    <3>1. \E m \in S : \A k \in S : m >= k
      BY <2>2, <2>4
    <3> QED BY <3>1 DEF Max
  <2> QED BY <2>2, <2>3, <2>5 DEF SameCalls
<1> QED BY <1>2, <1>3

LEMMA ItemsSame ==
    ASSUME NEW p, NEW q, NEW n, SameCalls(p, q, n), NEW e, NEW filters
    PROVE  ItemsIn(e, p, filters) = ItemsIn(e, q, filters)
<1> DEFINE Shown(b, r) ==
               \/ b.kind = "text" /\ b.text \notin {Nil, ""}
               \/ /\ b.kind = "tool_use" /\ b.tool # Nil
                  /\ HasPair(r, b.tool) /\ PairVisible(PairById(r, b.tool), filters)
           at(r) == {i \in DOMAIN e.blocks : Shown(e.blocks[i], r)}
           Items(bs) == [i \in 1..Len(bs) |->
                           IF bs[i].kind = "text" THEN TextItem(bs[i].text) ELSE ToolItem(bs[i].tool)]
<1>1. \A id : HasPair(p, id) => (PairVisible(PairById(p, id), filters)
                                 <=> PairVisible(PairById(q, id), filters))
  <2> SUFFICES ASSUME NEW id, HasPair(p, id)
               PROVE  PairVisible(PairById(p, id), filters) <=> PairVisible(PairById(q, id), filters)
    OBVIOUS
  <2>1. PairById(p, id).category = PairById(q, id).category
    BY SameById, CallIs
  <2> QED BY <2>1 DEF PairVisible
<1>2. \A id : HasPair(p, id) <=> HasPair(q, id)
  BY SameById
<1>3. \A b : Shown(b, p) <=> Shown(b, q)
  BY <1>1, <1>2
<1>4. at(p) = at(q)
  BY <1>3
<1>5. ItemsIn(e, p, filters) = Items(Picked(e.blocks, at(p)))
  BY DEF ItemsIn, Where
<1>6. ItemsIn(e, q, filters) = Items(Picked(e.blocks, at(q)))
  BY DEF ItemsIn, Where
<1> HIDE DEF at, Items
<1> QED BY <1>4, <1>5, <1>6

LEMMA ChunksSame ==
    ASSUME NEW p, NEW q, NEW n, SameCalls(p, q, n), NEW E, NEW seed \in Seq(E), seed # <<>>, NEW filters
    PROVE  Chunks(seed, p, filters) = Chunks(seed, q, filters)
<1>1. ASSUME NEW acc, NEW e PROVE AddAssistant(acc, e, p, filters) = AddAssistant(acc, e, q, filters)
  <2>1. ItemsIn(e, p, filters) = ItemsIn(e, q, filters)
    BY ItemsSame
  <2> QED BY <2>1, Zenon DEF AddAssistant
<1>2. ASSUME NEW acc, NEW e PROVE AddEvent(acc, e, p, filters) = AddEvent(acc, e, q, filters)
  BY <1>1 DEF AddEvent
<1> DEFINE es == Answers(seed)
           G == {w \in Seq(E) : AddEvents(w, p, filters) = AddEvents(w, q, filters)}
<1>3. <<>> \in G
  BY AddNone, EmptySeq
<1>4. ASSUME NEW w \in Seq(E), NEW e \in E, w \in G PROVE Append(w, e) \in G
  <2>1. Append(w, e) \in Seq(E)
    BY AppendProperties
  <2>2. AddEvents(Append(w, e), p, filters) = AddEvent(AddEvents(w, p, filters), e, p, filters)
    BY AddAppend
  <2>3. AddEvents(Append(w, e), q, filters) = AddEvent(AddEvents(w, q, filters), e, q, filters)
    BY AddAppend
  <2>4. AddEvents(w, p, filters) = AddEvents(w, q, filters)
    BY <1>4
  <2> QED BY <1>2, <2>1, <2>2, <2>3, <2>4
<1>5. es \in Seq(E)
  BY AnswersType
<1> HIDE DEF G, es
<1>6. \A w \in Seq(E) : w \in G
  BY <1>3, <1>4, SequencesIn
<1>7. AddEvents(es, p, filters) = AddEvents(es, q, filters)
  BY <1>5, <1>6 DEF G
<1> QED BY <1>7 DEF Chunks, es

LEMMA MarkdownSame ==
    ASSUME NEW p, NEW q, NEW n, SameCalls(p, q, n), NEW B, NEW E, Bearing(E, B),
           NEW seed \in Seq(E), seed # <<>>
    PROVE  Markdown(seed, p) = Markdown(seed, q)
<1>1. ASSUME NEW x, NEW y, CallOf(x) = CallOf(y) PROVE ToolMarkdown(x) = ToolMarkdown(y)
  <2>1. /\ x.id = y.id /\ x.type = y.type /\ x.category = y.category /\ x.input = y.input
        /\ x.result = y.result /\ x.err = y.err /\ x.pending = y.pending
    BY <1>1, CallIs
  <2>2. ToolStatus(x) = ToolStatus(y)
    BY <2>1 DEF ToolStatus
  <2>3. ToolBody(x) = ToolBody(y)
    BY <2>1 DEF ToolBody
  <2> QED BY <2>1, <2>2, <2>3 DEF ToolMarkdown
<1>2. ASSUME NEW e \in E PROVE AssistantMarkdown(e, p) = AssistantMarkdown(e, q)
  <2> DEFINE Wanted(b, r) == \/ b.kind = "text" /\ ~IsBlank(b.text)
                             \/ b.kind = "tool_use" /\ b.tool # Nil /\ HasPair(r, b.tool)
             Z(r) == {b \in B : Wanted(b, r)}
             bs == Sel(e.blocks, Z(p))
             As(b, r) == IF b.kind = "text" THEN [MarkdownPart EXCEPT !.text = b.text]
                         ELSE ToolMarkdown(PairById(r, b.tool))
  <2>0. e.blocks \in Seq(B)
    BY DEF Bearing
  <2>1. \A id : /\ HasPair(p, id) <=> HasPair(q, id)
                /\ HasPair(p, id) => ToolMarkdown(PairById(p, id)) = ToolMarkdown(PairById(q, id))
    BY <1>1, SameById
  <2>2. Z(p) = Z(q)
    BY <2>1
  <2>3. \A i \in DOMAIN e.blocks : e.blocks[i] \in B
    BY <2>0, LenProperties, ElementOfSeq
  <2>4. \A r : {i \in DOMAIN e.blocks : Wanted(e.blocks[i], r)}
               = {i \in DOMAIN e.blocks : e.blocks[i] \in Z(r)}
    BY <2>3
  <2>6. /\ AssistantMarkdown(e, p) = [i \in 1..Len(bs) |-> As(bs[i], p)]
        /\ AssistantMarkdown(e, q) = [i \in 1..Len(bs) |-> As(bs[i], q)]
    <3>1. \A r : AssistantMarkdown(e, r)
                 = [i \in 1..Len(Sel(e.blocks, Z(r))) |-> As(Sel(e.blocks, Z(r))[i], r)]
      BY <2>4 DEF AssistantMarkdown, Where, Sel
    <3> HIDE DEF Z, As
    <3> QED BY <2>2, <3>1
  <2>7. bs \in Seq(B \cap Z(p))
    BY <2>0, SelType
  <2>8. Len(bs) \in Nat /\ \A i \in 1..Len(bs) : bs[i] \in Z(p)
    <3> DEFINE Y == B \cap Z(p)
    <3>1. bs \in Seq(Y) /\ \A b \in Y : b \in Z(p)
      BY <2>7
    <3> HIDE DEF Y, Z
    <3> QED BY <3>1, LenProperties, ElementOfSeq
  <2>9. \A b \in Z(p) : As(b, p) = As(b, q)
    BY <2>1
  <2> HIDE DEF Z, As, bs
  <2> QED BY <2>6, <2>8, <2>9
<1> DEFINE X == {e \in E : Tells(e)}
           es == Sel(Answers(seed), X)
<1>3. Answers(seed) \in Seq(E)
  BY AnswersType
<1>4. \A i \in DOMAIN Answers(seed) : Answers(seed)[i] \in E
  BY <1>3, LenProperties, ElementOfSeq
<1>5. {i \in DOMAIN Answers(seed) : ~IsToolResult(Answers(seed)[i]) /\ IsAssistant(Answers(seed)[i])}
      = {i \in DOMAIN Answers(seed) : Answers(seed)[i] \in X}
  BY <1>4 DEF Tells
<1>6. \A r : Markdown(seed, r) = FlattenSeq([i \in 1..Len(es) |-> AssistantMarkdown(es[i], r)])
  BY <1>5 DEF Markdown, Gather, Where, Sel
<1>7. Len(es) \in Nat /\ \A i \in 1..Len(es) : es[i] \in E
  <2>1. es \in Seq(E)
    BY <1>3, PickedType DEF Sel
  <2> HIDE DEF es
  <2> QED BY <2>1, LenProperties, ElementOfSeq
<1> HIDE DEF es
<1>8. [i \in 1..Len(es) |-> AssistantMarkdown(es[i], p)] = [i \in 1..Len(es) |-> AssistantMarkdown(es[i], q)]
  BY <1>2, <1>7
<1> QED BY <1>6, <1>8

CallFields ==
    {"id", "uuid", "name", "type", "category", "input", "result", "err", "pending", "touches",
     "subagent"}

LEMMA BareCalls ==
    ASSUME NEW seed, NEW i \in DOMAIN BarePairs(seed)
    PROVE  DOMAIN BarePairs(seed)[i] = CallFields
<1> DEFINE uses == Gather(seed, UsesIn)
           results == Results(seed)
<1>1. BarePairs(seed) = [j \in 1..Len(uses) |-> PairFor(uses[j], results)]
  BY DEF BarePairs
<1> HIDE DEF uses, results
<1>2. BarePairs(seed)[i] = PairFor(uses[i], results)
  BY <1>1
<1> QED BY <1>2 DEF PairFor, CallFields

WithPairs(turn, pairs) == [turn EXCEPT !.pairs = pairs]

\* What a turn shows of a list of calls that does not depend on logs and files.
LEMMA TurnSame ==
    ASSUME NEW p, NEW q, NEW n, SameCalls(p, q, n), NEW B, NEW E, Bearing(E, B),
           NEW seed \in Seq(E), seed # <<>>, Len(p) = Len(q)
    PROVE  \A x : WithPairs(TurnFrom(seed, p, NoFilters), x) = WithPairs(TurnFrom(seed, q, NoFilters), x)
<1>1. Markdown(seed, p) = Markdown(seed, q)
  BY MarkdownSame
<1>2. Chunks(seed, p, NoFilters) = Chunks(seed, q, NoFilters)
  BY ChunksSame
<1> DEFINE A == [id |-> seed[1].offset,
                prompt |-> IF PromptOf(seed) = Nil THEN Nil ELSE TextsOf(PromptOf(seed), "text"),
                preview |-> Preview(seed), start |-> seed[1].ts, end |-> Last(seed).ts,
                duration |-> Max({0, Last(seed).ts - seed[1].ts}), events |-> Len(seed),
                thinking |-> Len(SelectSeq(seed, LAMBDA e : IsAssistant(e) /\ ThinkingOf(e) # <<>>)),
                errors |-> \E i \in DOMAIN Results(seed) : Results(seed)[i].err = TRUE]
           Made(r, l, m, c, x) ==
               [id |-> r.id, prompt |-> r.prompt, preview |-> r.preview, start |-> r.start,
                end |-> r.end, duration |-> r.duration, events |-> r.events, operations |-> l,
                pairs |-> x, thinking |-> r.thinking, errors |-> r.errors, markdown |-> m, chunks |-> c]
<1>3. \A r : TurnFrom(seed, r, NoFilters)
             = Made(A, Len(r), Markdown(seed, r), Chunks(seed, r, NoFilters), r)
  BY Zenon DEF TurnFrom
<1> HIDE DEF A
<1>4. \A r, l, m, c, x, y : [Made(r, l, m, c, y) EXCEPT !.pairs = x] = Made(r, l, m, c, x)
  OBVIOUS
<1> HIDE DEF Made
<1> QED BY <1>1, <1>2, <1>3, <1>4 DEF WithPairs

LEMMA SignalsSame ==
    ASSUME NEW t, NEW u, NEW n, SameCalls(t.pairs, u.pairs, n),
           t.prompt = u.prompt, t.chunks = u.chunks, t.thinking = u.thinking, t.errors = u.errors,
           NEW side
    PROVE  Signals(t, side) = Signals(u, side)
<1>1. \A i \in 1..n : /\ t.pairs[i].category = u.pairs[i].category
                      /\ t.pairs[i].result = u.pairs[i].result
                      /\ t.pairs[i].err = u.pairs[i].err
  BY CallIs DEF SameCalls
<1>2. \A c : {i \in DOMAIN t.pairs : t.pairs[i].category = c} = {i \in DOMAIN u.pairs : u.pairs[i].category = c}
  BY <1>1 DEF SameCalls
<1>3. {i \in DOMAIN t.pairs : t.pairs[i].result # Nil} = {i \in DOMAIN u.pairs : u.pairs[i].result # Nil}
  BY <1>1 DEF SameCalls
<1>4. {i \in DOMAIN t.pairs : t.pairs[i].err} = {i \in DOMAIN u.pairs : u.pairs[i].err}
  BY <1>1 DEF SameCalls
<1> QED BY <1>2, <1>3, <1>4 DEF Signals, CountWhere

\* What is to last of the turn of a seed, however and whenever it was projected.
LastingOf(s, seed, ord) ==
    Lasting(s, Joined(StoredTurn(seed, <<>>, story.context[s]), [ord |-> ord]))

LEMMA LastingSame ==
    ASSUME NEW s, NEW B, NEW E, Bearing(E, B), NEW seed \in Seq(E), seed # <<>>, NEW events, NEW ctx,
           s \in story.current => ctx = story.context[s], NEW ord
    PROVE  Lasting(s, Joined(StoredTurn(seed, events, ctx), [ord |-> ord])) = LastingOf(s, seed, ord)
<1> DEFINE bare == BarePairs(seed)
           n == Len(bare)
           side == seed[1].side
           pairs(ev) == [i \in 1..n |-> [bare[i] EXCEPT !.subagent = SubagentOf(bare[i], ev)]]
           turn(ev) == TurnFrom(seed, pairs(ev), NoFilters)
           call(x) == [type |-> x.type, input |-> x.input]
           kept(x, c) == [x EXCEPT !.subagent = Nil,
                                   !.touches = IF s \in story.current THEN FileTouches(call(x), c) ELSE <<>>]
           P(c) == [i \in 1..n |-> kept(bare[i], c)]
           stored(ev, c) == [turn |-> [turn(ev) EXCEPT !.pairs = WithTouches(turn(ev).pairs, c)],
                             sidechain |-> side, signals |-> Signals(turn(ev), side), ord |-> ord]
<1>1. n \in Nat /\ DOMAIN bare = 1..n
  BY BarePairsDomain
<1>2. \A i \in 1..n : DOMAIN bare[i] = CallFields
  BY <1>1, BareCalls
<1>3. \A ev : /\ SameCalls(pairs(ev), bare, n) /\ Len(pairs(ev)) = n
              /\ DOMAIN pairs(ev) = 1..n
              /\ turn(ev).pairs = pairs(ev)
  <2> SUFFICES ASSUME NEW ev
               PROVE  /\ SameCalls(pairs(ev), bare, n) /\ Len(pairs(ev)) = n
                      /\ DOMAIN pairs(ev) = 1..n
                      /\ turn(ev).pairs = pairs(ev)
    OBVIOUS
  <2>1. turn(ev).pairs = pairs(ev)
    BY DEF TurnFrom
  <2>2. \A i \in 1..n : CallOf(pairs(ev)[i]) = CallOf(bare[i])
    <3> SUFFICES ASSUME NEW i \in 1..n PROVE CallOf(pairs(ev)[i]) = CallOf(bare[i])
      OBVIOUS
    <3>1. pairs(ev)[i] = [bare[i] EXCEPT !.subagent = SubagentOf(bare[i], ev)]
      OBVIOUS
    <3> DEFINE b == bare[i]
               x == pairs(ev)[i]
    <3>2. DOMAIN b = CallFields
      BY <1>2
    <3>3. x = [b EXCEPT !.subagent = SubagentOf(bare[i], ev)]
      BY <3>1
    <3> HIDE DEF b, x
    <3>4. /\ x.id = b.id /\ x.type = b.type /\ x.category = b.category /\ x.input = b.input
          /\ x.result = b.result /\ x.err = b.err /\ x.pending = b.pending
      BY <3>2, <3>3 DEF CallFields
    <3>5. CallOf(x) = CallOf(b)
      BY <3>4 DEF CallOf
    <3> QED BY <3>5 DEF x, b
  <2>3. DOMAIN pairs(ev) = 1..n
    OBVIOUS
  <2>4. Len(pairs(ev)) = n
    <3> DEFINE x == pairs(ev)
    <3>1. DOMAIN x = 1..n
      OBVIOUS
    <3> HIDE DEF x, n
    <3>2. x = [i \in 1..n |-> x[i]]
      BY <2>3 DEF x
    <3>3. Len(x) = n
      BY <1>1, <3>2
    <3> QED BY <3>3 DEF x
  <2> HIDE DEF turn, pairs, n, bare
  <2> QED BY <1>1, <2>1, <2>2, <2>3, <2>4 DEF SameCalls
<1>4. \A ev, c : Joined(StoredTurn(seed, ev, c), [ord |-> ord]) = stored(ev, c)
  <2> SUFFICES ASSUME NEW ev, NEW c
               PROVE  Joined(StoredTurn(seed, ev, c), [ord |-> ord]) = stored(ev, c)
    OBVIOUS
  <2>1. ProjectTurn(seed, ev, NoFilters) = turn(ev)
    BY DEF ProjectTurn
  <2> HIDE DEF turn
  <2>2. StoredTurn(seed, ev, c)
        = [turn |-> [turn(ev) EXCEPT !.pairs = WithTouches(turn(ev).pairs, c)],
           sidechain |-> side, signals |-> Signals(turn(ev), side)]
    BY <2>1 DEF StoredTurn, WithDerived
  <2> DEFINE a == [turn(ev) EXCEPT !.pairs = WithTouches(turn(ev).pairs, c)]
             g == Signals(turn(ev), side)
  <2>3. StoredTurn(seed, ev, c) = [turn |-> a, sidechain |-> side, signals |-> g]
    BY <2>2
  <2> HIDE DEF a, g, side
  <2>4. Joined([turn |-> a, sidechain |-> side, signals |-> g], [ord |-> ord])
        = [turn |-> a, sidechain |-> side, signals |-> g, ord |-> ord]
    BY DEF Joined
  <2> QED BY <2>3, <2>4 DEF a, g, side
<1>5. \A ev : /\ Signals(turn(ev), side) = Signals(turn(<<>>), side)
              /\ \A x : [turn(ev) EXCEPT !.pairs = x] = [turn(<<>>) EXCEPT !.pairs = x]
  <2> SUFFICES ASSUME NEW ev
               PROVE  /\ Signals(turn(ev), side) = Signals(turn(<<>>), side)
                      /\ \A x : [turn(ev) EXCEPT !.pairs = x] = [turn(<<>>) EXCEPT !.pairs = x]
    OBVIOUS
  <2> DEFINE p == pairs(ev)
             q == pairs(<<>>)
  <2>1. SameCalls(p, q, n) /\ Len(p) = Len(q)
    <3>1. SameCalls(p, bare, n) /\ SameCalls(q, bare, n) /\ Len(p) = n /\ Len(q) = n
      BY <1>3
    <3> HIDE DEF p, q, bare, n
    <3> QED BY <3>1 DEF SameCalls
  <2> HIDE DEF p, q, n, bare
  <2>2. \A x : WithPairs(TurnFrom(seed, p, NoFilters), x) = WithPairs(TurnFrom(seed, q, NoFilters), x)
    BY <2>1, TurnSame
  <2> DEFINE t == TurnFrom(seed, p, NoFilters)
             u == TurnFrom(seed, q, NoFilters)
  <2>3. /\ t.prompt = u.prompt /\ t.thinking = u.thinking /\ t.errors = u.errors
        /\ t.pairs = p /\ u.pairs = q
    BY DEF TurnFrom
  <2>4. t.chunks = u.chunks
    <3>1. Chunks(seed, p, NoFilters) = Chunks(seed, q, NoFilters)
      BY <2>1, ChunksSame
    <3> QED BY <3>1 DEF TurnFrom
  <2> HIDE DEF t, u
  <2>5. Signals(t, side) = Signals(u, side)
    <3> HIDE DEF side
    <3> QED BY <2>1, <2>3, <2>4, SignalsSame
  <2> QED BY <2>2, <2>5 DEF t, u, p, q, WithPairs
<1>6. ASSUME NEW ev, NEW c
      PROVE  Lasting(s, stored(ev, c))
             = [turn |-> [turn(<<>>) EXCEPT !.pairs = P(c)],
                sidechain |-> side, signals |-> Signals(turn(<<>>), side), ord |-> ord]
  <2> DEFINE t == turn(ev)
             w == WithTouches(t.pairs, c)
             last(x) == [i \in DOMAIN x |-> LastingCall(s, x[i])]
             g == Signals(t, side)
             a == [t EXCEPT !.pairs = w]
  <2>1. Lasting(s, stored(ev, c))
        = [turn |-> [a EXCEPT !.pairs = last(a.pairs)], sidechain |-> side, signals |-> g, ord |-> ord]
    <3> DEFINE r == [turn |-> a, sidechain |-> side, signals |-> g, ord |-> ord]
               after == [a EXCEPT !.pairs = last(a.pairs)]
    <3>1. stored(ev, c) = r
      OBVIOUS
    <3> HIDE DEF stored, a, g, side
    <3>2. \A x : Lasting(s, x) = [x EXCEPT !.turn = [x.turn EXCEPT !.pairs = last(x.turn.pairs)]]
      BY Zenon DEF Lasting
    <3> HIDE DEF last
    <3>3. [r EXCEPT !.turn = after] = [turn |-> after, sidechain |-> side, signals |-> g, ord |-> ord]
      <4> HIDE DEF after
      <4> QED OBVIOUS
    <3>4. r.turn = a
      OBVIOUS
    <3> HIDE DEF r
    <3>5. Lasting(s, r) = [r EXCEPT !.turn = after]
      BY <3>2, <3>4, Zenon
    <3> HIDE DEF after
    <3>6. Lasting(s, stored(ev, c)) = [turn |-> after, sidechain |-> side, signals |-> g, ord |-> ord]
      BY <3>1, <3>3, <3>5, Zenon
    <3> QED BY <3>6, Zenon DEF after
  <2>2. "pairs" \in DOMAIN t
    BY DEF TurnFrom
  <2>3. a.pairs = w /\ \A x : [a EXCEPT !.pairs = x] = [t EXCEPT !.pairs = x]
    <3> HIDE DEF t, w
    <3> QED BY <2>2
  <2>4. last(w) = P(c)
    <3>1. /\ DOMAIN w = 1..n
          /\ \A i \in 1..n : w[i] = [pairs(ev)[i] EXCEPT !.touches = FileTouches(call(pairs(ev)[i]), c)]
      <4>1. t.pairs = pairs(ev) /\ DOMAIN pairs(ev) = 1..n
        BY <1>3
      <4>2. \A x : WithTouches(x, c) = [i \in DOMAIN x |-> [x[i] EXCEPT !.touches = FileTouches(call(x[i]), c)]]
        BY Zenon DEF WithTouches
      <4> HIDE DEF t, pairs, call, n
      <4>3. w = [i \in 1..n |-> [pairs(ev)[i] EXCEPT !.touches = FileTouches(call(pairs(ev)[i]), c)]]
        BY <4>1, <4>2
      <4> QED BY <4>3
    <3>2. ASSUME NEW i \in 1..n
          PROVE  LastingCall(s, w[i]) = kept(bare[i], c)
      <4> DEFINE b == bare[i]
                 x == pairs(ev)[i]
                 l == SubagentOf(bare[i], ev)
      <4>1. DOMAIN b = CallFields
        BY <1>2
      <4>2. x = [b EXCEPT !.subagent = l]
        BY <3>2
      <4>3. w[i] = [x EXCEPT !.touches = FileTouches(call(x), c)]
        BY <3>1, <3>2
      <4> HIDE DEF b, x, l, w, pairs
      <4>4. call(x) = call(b)
        BY <4>1, <4>2 DEF CallFields
      <4> DEFINE f == FileTouches(call(b), c)
      <4>5. w[i] = [[b EXCEPT !.subagent = l] EXCEPT !.touches = f]
        BY <4>2, <4>3, <4>4
      <4> HIDE DEF f, call
      <4>6. LastingCall(s, w[i])
            = [b EXCEPT !.subagent = Nil, !.touches = IF s \in story.current THEN f ELSE <<>>]
        BY <4>1, <4>5 DEF CallFields, LastingCall
      <4> QED BY <4>6 DEF f, b
    <3> HIDE DEF w, kept, n, bare
    <3> QED BY <3>1, <3>2
  <2>5. g = Signals(turn(<<>>), side) /\ [t EXCEPT !.pairs = P(c)] = [turn(<<>>) EXCEPT !.pairs = P(c)]
    <3> HIDE DEF P, side, turn
    <3> QED BY <1>5
  <2> HIDE DEF t, w, last, g, a, P, side, turn
  <2> QED BY <2>1, <2>3, <2>4, <2>5
<1>7. s \in story.current => P(ctx) = P(story.context[s])
  OBVIOUS
<1>8. s \notin story.current => P(ctx) = P(story.context[s])
  OBVIOUS
<1> HIDE DEF P, turn, stored
<1> QED BY <1>4, <1>6, <1>7, <1>8 DEF LastingOf

-----------------------------------------------------------------------------
(* The turns that a plan leaves.                                           *)

FirstOf(seed) == seed[1].offset

\* The first events of turns are one after another.
FirstsRise(seeds) ==
    /\ Len(seeds) \in Nat /\ DOMAIN seeds = 1..Len(seeds)
    /\ \A k \in 1..Len(seeds) : FirstOf(seeds[k]) \in Nat
    /\ \A k, l \in 1..Len(seeds) : k < l => FirstOf(seeds[k]) < FirstOf(seeds[l])

Firsts(seeds) == {FirstOf(seeds[k]) : k \in 1..Len(seeds)}

\* T holds the turns of the first n seeds.
HoldsTurns(T, s, seeds, n) ==
    \A k \in 1..n : /\ FirstOf(seeds[k]) \in DOMAIN T
                    /\ Lasting(s, T[FirstOf(seeds[k])]) = LastingOf(s, seeds[k], k - 1)

Made(T, s, seeds) == DOMAIN T = Firsts(seeds) /\ HoldsTurns(T, s, seeds, Len(seeds))

LEMMA FirstsDiffer ==
    ASSUME NEW seeds, FirstsRise(seeds), NEW k \in 1..Len(seeds), NEW l \in 1..Len(seeds)
    PROVE  /\ FirstOf(seeds[k]) = FirstOf(seeds[l]) => k = l
           /\ FirstOf(seeds[k]) < FirstOf(seeds[l]) <=> k < l
<1>1. k \in Nat /\ l \in Nat /\ FirstOf(seeds[k]) \in Nat /\ FirstOf(seeds[l]) \in Nat
  BY DEF FirstsRise
<1>2. /\ k < l => FirstOf(seeds[k]) < FirstOf(seeds[l])
      /\ l < k => FirstOf(seeds[l]) < FirstOf(seeds[k])
  BY DEF FirstsRise
<1> QED BY <1>1, <1>2

LEMMA StoredId ==
    ASSUME NEW seed, NEW events, NEW ctx, NEW ord
    PROVE  Joined(StoredTurn(seed, events, ctx), [ord |-> ord]).turn.id = FirstOf(seed)
<1> DEFINE turn == ProjectTurn(seed, events, NoFilters)
<1>1. "id" \in DOMAIN turn /\ "pairs" \in DOMAIN turn /\ turn.id = FirstOf(seed)
  BY DEF ProjectTurn, TurnFrom, FirstOf
<1> DEFINE kept == [turn EXCEPT !.pairs = WithTouches(turn.pairs, ctx)]
           stored == StoredTurn(seed, events, ctx)
<1>2. stored.turn = kept /\ "turn" \in DOMAIN stored /\ "turn" \notin DOMAIN [ord |-> ord]
  BY DEF StoredTurn, WithDerived
<1>3. kept.id = FirstOf(seed)
  <2> HIDE DEF turn
  <2> QED BY <1>1
<1> HIDE DEF stored, kept
<1>4. Joined(stored, [ord |-> ord]).turn = stored.turn
  BY <1>2 DEF Joined
<1> QED BY <1>2, <1>3, <1>4 DEF stored

\* The n-th seeds on are projected and stored with the turns of those before them.
Continues(E, a, v, seeds, s, from, plan) ==
    /\ a \in Seq(Seq(E)) /\ v \in Seq(E) /\ seeds = a \o Seeds(v) /\ FirstsRise(seeds)
    /\ plan = Plan(s, from, Len(a), v)
    /\ v # <<>> => (s \in story.current => TouchContext(s) = story.context[s])
    /\ Kept(plan) = Firsts(a) /\ HoldsTurns(turns[s], s, seeds, Len(a))

Makes(plan, s, seeds) ==
    /\ plan.session = s
    /\ Cardinality(PlanIds(plan)) = Len(plan.turns) /\ PlanIds(plan) \cap Kept(plan) = {}
    /\ Made(TurnsAfter(plan), s, seeds)

LEMMA PlanMakes ==
    ASSUME NEW B, NEW E, Bearing(E, B), NEW a, NEW v, NEW seeds, NEW s, NEW from, NEW plan,
           Continues(E, a, v, seeds, s, from, plan)
    PROVE  Makes(plan, s, seeds)
<1> SUFFICES ASSUME a \in Seq(Seq(E)), v \in Seq(E), seeds = a \o Seeds(v), FirstsRise(seeds),
                    plan = Plan(s, from, Len(a), v),
                    v # <<>> => (s \in story.current => TouchContext(s) = story.context[s]),
                    Kept(plan) = Firsts(a), HoldsTurns(turns[s], s, seeds, Len(a))
             PROVE  /\ plan.session = s
                    /\ Cardinality(PlanIds(plan)) = Len(plan.turns) /\ PlanIds(plan) \cap Kept(plan) = {}
                    /\ Made(TurnsAfter(plan), s, seeds)
  BY Zenon DEF Continues, Makes
<1> DEFINE m == Len(a)
           b == Seeds(v)
           n == Len(b)
           ctx == TouchContext(s)
           Turn(k) == Joined(StoredTurn(b[k], v, ctx), [ord |-> m + k - 1])
<1>1. b \in Seq(Seq(E)) /\ n \in Nat /\ m \in Nat /\ DOMAIN b = 1..n
  BY SeedAt, LenProperties
<1>2. /\ Len(seeds) = m + n
      /\ \A i \in 1..(m + n) : seeds[i] = IF i <= m THEN a[i] ELSE b[i - m]
  <2> DEFINE T == Seq(E)
  <2>1. a \in Seq(T) /\ b \in Seq(T)
    BY <1>1
  <2> HIDE DEF T, b
  <2>2. /\ Len(a \o b) = Len(a) + Len(b)
        /\ \A i \in 1..(Len(a) + Len(b)) : (a \o b)[i] = IF i <= Len(a) THEN a[i] ELSE b[i - Len(a)]
    BY <2>1, ConcatProperties
  <2> QED BY <2>2 DEF b
<1>3. plan.session = s /\ plan.turns = [k \in 1..n |-> Turn(k)]
  <2>1. plan.session = s /\ plan.turns = Numbered(SessionProjection(v, ctx), m)
    BY DEF Plan
  <2>2. SessionProjection(v, ctx) = [k \in 1..n |-> StoredTurn(b[k], v, ctx)]
    BY DEF SessionProjection
  <2> HIDE DEF b, n, ctx, m
  <2> QED BY <2>1, <2>2 DEF Numbered
<1>4. \A k \in 1..n : /\ m + k \in 1..(m + n) /\ seeds[m + k] = b[k]
                      /\ Turn(k).turn.id = FirstOf(b[k])
  <2> SUFFICES ASSUME NEW k \in 1..n
               PROVE  /\ m + k \in 1..(m + n) /\ seeds[m + k] = b[k]
                      /\ Turn(k).turn.id = FirstOf(b[k])
    OBVIOUS
  <2>1. Turn(k).turn.id = FirstOf(b[k])
    BY StoredId
  <2>2. m + k \in 1..(m + n) /\ seeds[m + k] = b[k]
    <3> HIDE DEF m, n, b
    <3> DEFINE i == m + k
    <3>1. i \in 1..(m + n) /\ ~(i <= m) /\ i - m = k
      BY <1>1
    <3> HIDE DEF i
    <3>2. seeds[i] = b[i - m]
      BY <1>2, <3>1
    <3> QED BY <3>1, <3>2 DEF i
  <2> QED BY <2>1, <2>2
<1>5. \A k \in 1..m : k \in 1..(m + n) /\ seeds[k] = a[k]
  <2> HIDE DEF m, n, b
  <2> QED BY <1>1, <1>2
<1>6. \A k \in 1..n : Lasting(s, Turn(k)) = LastingOf(s, b[k], m + k - 1)
  <2> SUFFICES ASSUME NEW k \in 1..n PROVE Lasting(s, Turn(k)) = LastingOf(s, b[k], m + k - 1)
    OBVIOUS
  <2> DEFINE seed == b[k]
             o == m + k - 1
  <2>1. seed \in Seq(E) /\ seed # <<>>
    BY <1>1, SeedsType
  <2>2. v # <<>>
    <3>1. CASE v = <<>>
      BY <1>1, <3>1, SeedsNone
    <3> QED BY <3>1
  <2>3. s \in story.current => ctx = story.context[s]
    BY <2>2
  <2> HIDE DEF seed, o, ctx
  <2>4. Lasting(s, Joined(StoredTurn(seed, v, ctx), [ord |-> o])) = LastingOf(s, seed, o)
    BY <2>1, <2>3, LastingSame
  <2> QED BY <2>4 DEF seed, o
<1> HIDE DEF Turn, ctx, b, m, n
<1>7. PlanIds(plan) = {FirstOf(b[k]) : k \in 1..n} /\ DOMAIN plan.turns = 1..n
  <2>1. DOMAIN plan.turns = 1..n /\ \A k \in 1..n : plan.turns[k] = Turn(k)
    BY <1>3
  <2>2. \A k \in 1..n : plan.turns[k].turn.id = FirstOf(b[k])
    BY <1>4, <2>1
  <2> QED BY <2>1, <2>2 DEF PlanIds
<1>8. Len(plan.turns) = n
  BY <1>1, <1>3
<1>9. \A k, l \in 1..n : FirstOf(b[k]) = FirstOf(b[l]) => k = l
  <2> SUFFICES ASSUME NEW k \in 1..n, NEW l \in 1..n, FirstOf(b[k]) = FirstOf(b[l]) PROVE k = l
    OBVIOUS
  <2> DEFINE i == m + k
             j == m + l
  <2>1. i \in 1..Len(seeds) /\ j \in 1..Len(seeds) /\ FirstOf(seeds[i]) = FirstOf(seeds[j])
    BY <1>2, <1>4
  <2> HIDE DEF i, j
  <2>2. i = j
    BY <2>1, FirstsDiffer
  <2> QED BY <1>1, <2>2 DEF i, j
<1>10. Cardinality(PlanIds(plan)) = n
  <2> DEFINE f == [k \in 1..n |-> FirstOf(b[k])]
             S == PlanIds(plan)
  <2>1. f \in Bijection(1..n, S)
    BY <1>7, <1>9 DEF Bijection, Injection, Surjection, IsInjective
  <2>2. Cardinality(1..n) = n /\ IsFiniteSet(1..n)
    BY <1>1, FS_Interval
  <2> HIDE DEF f
  <2> QED BY <2>1, <2>2, FS_Bijection DEF ExistsBijection
<1>11. Firsts(a) = {FirstOf(a[k]) : k \in 1..m}
  BY DEF Firsts, m
<1>12. PlanIds(plan) \cap Kept(plan) = {}
  <2> SUFFICES ASSUME NEW k \in 1..n, NEW l \in 1..m, FirstOf(b[k]) = FirstOf(a[l]) PROVE FALSE
    BY <1>7, <1>11
  <2> DEFINE i == m + k
  <2>1. i \in 1..Len(seeds) /\ l \in 1..Len(seeds) /\ FirstOf(seeds[i]) = FirstOf(seeds[l])
    BY <1>2, <1>4, <1>5
  <2> HIDE DEF i
  <2>2. i = l
    BY <2>1, FirstsDiffer
  <2> QED BY <1>1, <2>2 DEF i
<1> DEFINE T == TurnsAfter(plan)
<1>13. DOMAIN T = Firsts(seeds)
  <2>1. DOMAIN T = {FirstOf(a[k]) : k \in 1..m} \cup {FirstOf(b[k]) : k \in 1..n}
    BY <1>7, <1>11 DEF TurnsAfter
  <2>2. \A i \in 1..(m + n) : i \in 1..m \/ \E k \in 1..n : i = m + k
    <3> SUFFICES ASSUME NEW i \in 1..(m + n), i \notin 1..m PROVE \E k \in 1..n : i = m + k
      OBVIOUS
    <3>1. i - m \in 1..n /\ i = m + (i - m)
      BY <1>1
    <3> QED BY <3>1
  <2>3. Firsts(seeds) = {FirstOf(seeds[i]) : i \in 1..(m + n)}
    BY <1>2 DEF Firsts
  <2> HIDE DEF T
  <2>4. Firsts(seeds) \subseteq DOMAIN T
    <3> SUFFICES ASSUME NEW i \in 1..(m + n) PROVE FirstOf(seeds[i]) \in DOMAIN T
      BY <2>3
    <3>1. CASE i \in 1..m
      BY <1>5, <2>1, <3>1
    <3>2. CASE i \notin 1..m
      <4>1. PICK k \in 1..n : i = m + k
        BY <2>2, <3>2
      <4>2. seeds[i] = b[k]
        BY <1>4, <4>1
      <4> QED BY <2>1, <4>2
    <3> QED BY <3>1, <3>2
  <2>5. DOMAIN T \subseteq Firsts(seeds)
    BY <1>4, <1>5, <2>1, <2>3
  <2> QED BY <2>4, <2>5
<1>14. ASSUME NEW k \in 1..m PROVE Lasting(s, T[FirstOf(seeds[k])]) = LastingOf(s, seeds[k], k - 1)
  <2>1. FirstOf(seeds[k]) \in Kept(plan)
    BY <1>5, <1>11
  <2>2. T[FirstOf(seeds[k])] = turns[s][FirstOf(seeds[k])]
    BY <1>3, <2>1 DEF TurnsAfter
  <2> HIDE DEF T
  <2> QED BY <2>2 DEF HoldsTurns, m
<1>15. ASSUME NEW k \in 1..n PROVE T[FirstOf(b[k])] = Turn(k)
  <2> DEFINE id == FirstOf(b[k])
             c == CHOOSE l \in DOMAIN plan.turns : plan.turns[l].turn.id = id
  <2>1. id \in PlanIds(plan) /\ id \notin Kept(plan)
    BY <1>7, <1>12
  <2>2. T[id] = plan.turns[c]
    BY <2>1 DEF TurnsAfter
  <2>3. c \in 1..n /\ plan.turns[c].turn.id = id
    <3>1. \E l \in DOMAIN plan.turns : plan.turns[l].turn.id = id
      BY <1>3, <1>4, <1>7
    <3> QED BY <1>7, <3>1
  <2> HIDE DEF c, T
  <2>4. plan.turns[c] = Turn(c)
    BY <1>3, <2>3
  <2>5. FirstOf(b[c]) = id
    BY <1>4, <2>3, <2>4
  <2>6. c = k
    BY <1>9, <2>3, <2>5
  <2> QED BY <2>2, <2>4, <2>6
<1>16. HoldsTurns(T, s, seeds, Len(seeds))
  <2> HIDE DEF T
  <2> SUFFICES ASSUME NEW i \in 1..(m + n)
               PROVE  /\ FirstOf(seeds[i]) \in DOMAIN T
                      /\ Lasting(s, T[FirstOf(seeds[i])]) = LastingOf(s, seeds[i], i - 1)
    BY <1>2 DEF HoldsTurns
  <2>1. FirstOf(seeds[i]) \in DOMAIN T
    BY <1>2, <1>13 DEF Firsts
  <2>2. CASE i \in 1..m
    BY <1>14, <2>1, <2>2
  <2>3. CASE i \notin 1..m
    <3>1. i - m \in 1..n /\ m + (i - m) = i
      BY <1>1, <2>3
    <3> DEFINE k == i - m
    <3>2. seeds[i] = b[k] /\ T[FirstOf(b[k])] = Turn(k)
      BY <1>4, <1>15, <3>1
    <3>3. Lasting(s, Turn(k)) = LastingOf(s, b[k], i - 1)
      <4>1. m + k - 1 = i - 1
        BY <1>1, <2>3
      <4>2. Lasting(s, Turn(k)) = LastingOf(s, b[k], m + k - 1)
        BY <1>6, <3>1
      <4> QED BY <4>1, <4>2
    <3> QED BY <2>1, <3>2, <3>3
  <2> QED BY <2>2, <2>3
<1> QED BY <1>3, <1>8, <1>10, <1>12, <1>13, <1>16 DEF Made

LEMMA LastingTells ==
    ASSUME NEW s, NEW t, NEW seed, NEW ord, Lasting(s, t) = LastingOf(s, seed, ord)
    PROVE  t.ord = ord /\ t.turn.events = Len(seed)
<1> DEFINE P == [i \in DOMAIN t.turn.pairs |-> LastingCall(s, t.turn.pairs[i])]
           Q == [i \in DOMAIN Joined(StoredTurn(seed, <<>>, story.context[s]), [ord |-> ord]).turn.pairs |->
                   LastingCall(s, Joined(StoredTurn(seed, <<>>, story.context[s]), [ord |-> ord]).turn.pairs[i])]
           turn == ProjectTurn(seed, <<>>, NoFilters)
           kept == [turn EXCEPT !.pairs = WithTouches(turn.pairs, story.context[s])]
           g == Signals(turn, seed[1].side)
           side == seed[1].side
           u == Joined(StoredTurn(seed, <<>>, story.context[s]), [ord |-> ord])
           r == LastingOf(s, seed, ord)
<1>1. "events" \in DOMAIN turn /\ turn.events = Len(seed)
  BY DEF ProjectTurn, TurnFrom
<1>2. u = [turn |-> kept, sidechain |-> side, signals |-> g, ord |-> ord]
  <2>1. StoredTurn(seed, <<>>, story.context[s]) = [turn |-> kept, sidechain |-> side, signals |-> g]
    BY DEF StoredTurn, WithDerived
  <2> HIDE DEF kept, g, side
  <2> QED BY <2>1 DEF Joined
<1>3. "events" \in DOMAIN kept /\ kept.events = Len(seed)
  <2> HIDE DEF turn
  <2> QED BY <1>1
<1>4. r = [u EXCEPT !.turn.pairs = Q]
  BY DEF LastingOf, Lasting
<1>5. Lasting(s, t) = [t EXCEPT !.turn.pairs = P]
  BY DEF Lasting
<1> HIDE DEF P, Q, kept, g, side, u, r, turn
<1>6. /\ "ord" \in DOMAIN r /\ r.ord = ord /\ "turn" \in DOMAIN r
      /\ "events" \in DOMAIN r.turn /\ r.turn.events = Len(seed)
  BY <1>2, <1>3, <1>4
<1>7. [t EXCEPT !.turn.pairs = P] = r
  BY <1>5 DEF r
<1>8. DOMAIN t = DOMAIN r
  BY <1>7
<1>9. t.ord = r.ord /\ r.turn = [t.turn EXCEPT !.pairs = P]
  BY <1>6, <1>7, <1>8
<1>10. "events" \in DOMAIN t.turn /\ t.turn.events = r.turn.events
  BY <1>6, <1>9
<1> QED BY <1>6, <1>9, <1>10

-----------------------------------------------------------------------------
(* A rebuild from the turn the first new event belongs to.                 *)

\* Events are one after another in the transcript.
EventsRise(w) ==
    /\ \A i \in 1..Len(w) : w[i].offset \in Nat
    /\ \A i, j \in 1..Len(w) : i < j => w[i].offset < w[j].offset

LEMMA SeedsRise ==
    ASSUME NEW E, NEW w \in Seq(E), EventsRise(w)
    PROVE  FirstsRise(Seeds(w))
<1>1. /\ Len(Seeds(w)) \in Nat /\ DOMAIN Seeds(w) = 1..Len(Seeds(w))
      /\ \A k \in 1..Len(Seeds(w)) :
            Starts(w)[k] \in 1..Len(w) /\ Seeds(w)[k][1] = w[Starts(w)[k]]
      /\ \A k, l \in 1..Len(Seeds(w)) : k < l => Starts(w)[k] < Starts(w)[l]
  BY SeedFirsts
<1> QED BY <1>1 DEF FirstsRise, FirstOf, EventsRise

\* Everything up to where a part begins, and the part itself.
CutsBack(s, w) ==
    \A E : \A u, v \in Seq(E) : w = u \o v /\ v # <<>> => EventsFrom(s, FirstOf(v)) = v

\* The turns are those of the events before the first new one: what they begin
\* with up to the anchor is kept, and from the anchor on is projected anew.
Grown(E, old, new, w, s) ==
    /\ old \in Seq(E) /\ new \in Seq(E) /\ old # <<>> /\ new # <<>>
    /\ w = old \o new /\ EventsRise(w) /\ CutsBack(s, w) /\ Made(turns[s], s, Seeds(old))

Anchored(w, s, first, u, v) ==
    LET anchor == Max(Anchors(s, first))
    IN  /\ w = u \o v /\ v # <<>> /\ Cuts(u, v)
        /\ Anchors(s, first) # {}
        /\ anchor = FirstOf(v) /\ EventsFrom(s, anchor) = v
        /\ turns[s][anchor].ord = Len(Seeds(u))
        /\ {id \in DOMAIN turns[s] : id < anchor} = Firsts(Seeds(u))
        /\ HoldsTurns(turns[s], s, Seeds(w), Len(Seeds(u)))

LEMMA AnchorSplits ==
    ASSUME NEW B, NEW E, Bearing(E, B), NEW old, NEW new, NEW w, NEW s, Grown(E, old, new, w, s)
    PROVE  \E u \in Seq(E), v \in Seq(E) : Anchored(w, s, FirstOf(new), u, v)
<1> SUFFICES ASSUME old \in Seq(E), new \in Seq(E), old # <<>>, new # <<>>,
                    w = old \o new, EventsRise(w), CutsBack(s, w), Made(turns[s], s, Seeds(old))
             PROVE  \E u, v \in Seq(E) :
                              LET first == FirstOf(new)
                                  anchor == Max(Anchors(s, first))
                              IN  /\ w = u \o v /\ v # <<>> /\ Cuts(u, v)
                                  /\ Anchors(s, first) # {}
                                  /\ anchor = FirstOf(v) /\ EventsFrom(s, anchor) = v
                                  /\ turns[s][anchor].ord = Len(Seeds(u))
                                  /\ {id \in DOMAIN turns[s] : id < anchor} = Firsts(Seeds(u))
                                  /\ HoldsTurns(turns[s], s, Seeds(w), Len(Seeds(u)))
  BY Zenon DEF Grown, Anchored
<1>1. PICK u \in Seq(E), l \in Seq(E) : old = u \o l /\ l # <<>> /\ Cuts(u, l) /\ Seeds(l) = <<l>>
  BY LastTurn
<1> DEFINE v == l \o new
           first == FirstOf(new)
           a == Seeds(u)
           m == Len(a)
           S == Seeds(old)
           anchor == FirstOf(l)
           p == Len(old)
<1>2. w \in Seq(E) /\ v \in Seq(E) /\ w = u \o v /\ v # <<>> /\ v[1] = l[1] /\ Cuts(u, v)
  <2>1. v \in Seq(E) /\ Len(v) = Len(l) + Len(new)
        /\ \A i \in 1..(Len(l) + Len(new)) : v[i] = IF i <= Len(l) THEN l[i] ELSE new[i - Len(l)]
    BY <1>1, ConcatProperties
  <2>2. Len(l) \in Nat /\ Len(l) # 0 /\ Len(new) \in Nat
    BY <1>1, EmptySeq, LenProperties
  <2>3. v[1] = l[1] /\ v # <<>>
    <3>1. 1 \in 1..(Len(l) + Len(new)) /\ 1 <= Len(l) /\ Len(l) + Len(new) # 0
      BY <2>2
    <3>2. Len(<<>>) = 0
      BY EmptySeq
    <3> HIDE DEF v
    <3> QED BY <2>1, <3>1, <3>2
  <2>4. w = u \o v
    BY <1>1, ConcatAssociative
  <2>5. w \in Seq(E)
    BY ConcatProperties
  <2>6. Cuts(u, v)
    BY <1>1, <2>3 DEF Cuts
  <2> QED BY <2>1, <2>3, <2>4, <2>5, <2>6
<1>3. EventsFrom(s, anchor) = v /\ anchor = FirstOf(v)
  BY <1>2 DEF CutsBack, FirstOf
<1>4. /\ p \in Nat /\ p # 0 /\ Len(new) \in Nat /\ Len(new) # 0 /\ Len(w) = p + Len(new)
      /\ \A i \in 1..p : w[i] = old[i]
      /\ w[p + 1] = new[1]
  <2>1. p \in Nat /\ p # 0 /\ Len(new) \in Nat /\ Len(new) # 0
    BY EmptySeq, LenProperties
  <2>2. Len(w) = p + Len(new)
        /\ \A i \in 1..(p + Len(new)) : w[i] = IF i <= p THEN old[i] ELSE new[i - p]
    BY ConcatProperties
  <2> HIDE DEF p
  <2>3. \A i \in 1..p : w[i] = old[i]
    BY <2>1, <2>2
  <2>4. w[p + 1] = new[1]
    <3> DEFINE i == p + 1
    <3>1. i \in 1..(p + Len(new)) /\ ~(i <= p) /\ i - p = 1
      BY <2>1
    <3> HIDE DEF i
    <3>2. w[i] = new[1]
      BY <2>2, <3>1
    <3> QED BY <3>2 DEF i
  <2> QED BY <2>1, <2>2, <2>3, <2>4
<1>5. EventsRise(old) /\ first \in Nat /\ \A i \in 1..p : old[i].offset < first
  <2> HIDE DEF p
  <2>1. \A i \in 1..p : i \in 1..Len(w) /\ i < p + 1
    BY <1>4
  <2>2. p + 1 \in 1..Len(w)
    BY <1>4
  <2>3. EventsRise(old)
    BY <1>4, <2>1 DEF EventsRise, p
  <2>4. first = w[p + 1].offset
    BY <1>4 DEF FirstOf
  <2> HIDE DEF first
  <2>5. \A i \in 1..p : old[i].offset < first
    BY <1>4, <2>1, <2>2, <2>4 DEF EventsRise
  <2>6. first \in Nat
    BY <2>2, <2>4 DEF EventsRise
  <2> QED BY <2>3, <2>5, <2>6
<1>6. FirstsRise(S)
  BY <1>5, SeedsRise
<1>7. /\ a \in Seq(Seq(E)) /\ m \in Nat /\ DOMAIN a = 1..m
      /\ Len(S) = m + 1 /\ (\A k \in 1..m : S[k] = a[k]) /\ S[m + 1] = l
  <2>1. S = a \o <<l>>
    BY <1>1, SeedsConcat
  <2>2. a \in Seq(Seq(E))
    BY SeedAt
  <2> DEFINE T == Seq(E)
             c == <<l>>
  <2>3. c \in Seq(T) /\ Len(c) = 1 /\ c[1] = l /\ a \in Seq(T)
    <3> HIDE DEF a
    <3> QED BY <1>1, <2>2
  <2> HIDE DEF T, c, a, S
  <2>4. m \in Nat /\ DOMAIN a = 1..m
    BY <2>3, LenProperties
  <2>5. /\ Len(a \o c) = m + 1
        /\ \A i \in 1..(m + 1) : (a \o c)[i] = IF i <= m THEN a[i] ELSE c[i - m]
    <3>1. /\ Len(a \o c) = Len(a) + Len(c)
          /\ \A i \in 1..(Len(a) + Len(c)) :
                (a \o c)[i] = IF i <= Len(a) THEN a[i] ELSE c[i - Len(a)]
      BY <2>3, ConcatProperties
    <3>2. Len(a) + Len(c) = Len(a) + 1
      BY <2>3
    <3> QED BY ONLY <3>1, <3>2 DEF m
  <2>6. S = a \o c
    BY <2>1 DEF c
  <2> HIDE DEF m
  <2>7. \A k \in 1..m : S[k] = a[k]
    BY <2>4, <2>5, <2>6
  <2>8. S[m + 1] = l
    <3> DEFINE i == m + 1
    <3>1. i \in 1..(m + 1) /\ ~(i <= m) /\ i - m = 1
      BY <2>4
    <3> HIDE DEF i
    <3>2. S[i] = c[1]
      BY <2>5, <2>6, <3>1
    <3> QED BY <2>3, <3>2 DEF i
  <2> QED BY <2>2, <2>4, <2>5, <2>6, <2>7, <2>8 DEF m
<1>8. DOMAIN turns[s] = {FirstOf(S[k]) : k \in 1..(m + 1)}
  BY <1>7 DEF Made, Firsts
<1>9. \A k \in 1..(m + 1) : /\ FirstOf(S[k]) \in Nat /\ FirstOf(S[k]) < first
                            /\ FirstOf(S[k]) <= anchor
                            /\ FirstOf(S[k]) < anchor <=> k \in 1..m
  <2> SUFFICES ASSUME NEW k \in 1..(m + 1)
               PROVE  /\ FirstOf(S[k]) \in Nat /\ FirstOf(S[k]) < first
                      /\ FirstOf(S[k]) <= anchor
                      /\ FirstOf(S[k]) < anchor <=> k \in 1..m
    OBVIOUS
  <2>1. FirstOf(S[k]) < first /\ FirstOf(S[k]) \in Nat
    <3>1. Starts(old)[k] \in 1..p /\ S[k][1] = old[Starts(old)[k]]
      BY <1>7, SeedFirsts
    <3>2. FirstOf(S[k]) = old[Starts(old)[k]].offset
      BY <3>1 DEF FirstOf
    <3>3. FirstOf(S[k]) \in Nat
      BY <1>6, <1>7 DEF FirstsRise
    <3> QED BY <1>5, <3>1, <3>2, <3>3
  <2> DEFINE i == m + 1
  <2>2. i \in 1..Len(S) /\ k \in 1..Len(S) /\ anchor = FirstOf(S[i])
    <3>1. i \in 1..(m + 1)
      BY <1>7
    <3> QED BY <1>7, <3>1
  <2> HIDE DEF S, i, anchor
  <2>3. (FirstOf(S[k]) < FirstOf(S[i]) <=> k < i) /\ FirstOf(S[i]) \in Nat
    BY <1>6, <2>2, FirstsDiffer DEF FirstsRise
  <2>4. k < i <=> k \in 1..m
    BY <1>7 DEF i
  <2>5. k = i \/ k < i
    BY <1>7 DEF i
  <2> QED BY <2>1, <2>2, <2>3, <2>4, <2>5
<1>10. anchor \in DOMAIN turns[s] /\ anchor \in Nat
  <2>1. m + 1 \in 1..(m + 1) /\ FirstOf(S[m + 1]) = anchor
    BY <1>7
  <2> HIDE DEF S, m, anchor
  <2>2. anchor \in DOMAIN turns[s]
    BY <1>8, <2>1
  <2> QED BY <1>9, <2>1, <2>2
<1>11. /\ anchor \in Anchors(s, first) /\ Max(Anchors(s, first)) = anchor
  <2> DEFINE A == Anchors(s, first)
  <2> HIDE DEF S, anchor, first, m
  <2>1. \A id \in A : id \in Nat /\ id <= anchor
    BY <1>8, <1>9 DEF Anchors
  <2>2. anchor < first
    <3>1. \A id \in DOMAIN turns[s] : id < first
      BY <1>8, <1>9
    <3> QED BY <1>10, <3>1
  <2>3. anchor \in A
    <3>1. first \in Nat
      BY <1>5
    <3>2. anchor <= first
      BY <1>10, <2>2, <3>1
    <3> QED BY <1>10, <3>2 DEF Anchors
  <2>4. Max(A) \in A /\ \A id \in A : Max(A) >= id
    <3>1. \E x \in A : \A id \in A : x >= id
      BY <1>10, <2>1, <2>3
    <3> QED BY <3>1 DEF Max
  <2>5. Max(A) = anchor
    BY <1>10, <2>1, <2>3, <2>4
  <2> QED BY <2>3, <2>5
<1>12. {id \in DOMAIN turns[s] : id < anchor} = Firsts(a)
  <2>1. Firsts(a) = {FirstOf(S[k]) : k \in 1..m}
    BY <1>7 DEF Firsts
  <2>2. 1..m \subseteq 1..(m + 1)
    BY <1>7
  <2> HIDE DEF S, anchor, m, a
  <2> QED BY <1>8, <1>9, <2>1, <2>2
<1>13. turns[s][anchor].ord = m
  <2> DEFINE i == m + 1
  <2>1. i \in 1..Len(S) /\ S[i] = l /\ i - 1 = m
    BY <1>7
  <2> HIDE DEF i, S, m
  <2>2. Lasting(s, turns[s][FirstOf(S[i])]) = LastingOf(s, S[i], i - 1)
    BY <2>1 DEF Made, HoldsTurns, S
  <2>3. Lasting(s, turns[s][anchor]) = LastingOf(s, l, m)
    BY <2>1, <2>2
  <2> QED BY <2>3, LastingTells
<1>14. HoldsTurns(turns[s], s, Seeds(w), m)
  <2> DEFINE W == Seeds(w)
             b == Seeds(v)
  <2>1. W = a \o b
    BY <1>2, SeedsConcat
  <2>2. b \in Seq(Seq(E))
    BY <1>2, SeedAt
  <2> DEFINE T == Seq(E)
  <2>3. a \in Seq(T) /\ b \in Seq(T)
    BY <1>7, <2>2
  <2> HIDE DEF T, a, b, W, m
  <2>4. \A k \in 1..Len(a) : W[k] = a[k]
    <3>1. \A k \in 1..(Len(a) + Len(b)) : (a \o b)[k] = IF k <= Len(a) THEN a[k] ELSE b[k - Len(a)]
      BY <2>3, ConcatProperties
    <3>2. Len(a) \in Nat /\ Len(b) \in Nat
      BY <2>3, LenProperties
    <3> QED BY <2>1, <3>1, <3>2
  <2>5. \A k \in 1..m : W[k] = S[k] /\ k \in 1..Len(S)
    BY <1>7, <2>4 DEF m
  <2> QED BY <2>5 DEF Made, HoldsTurns, W, S
<1> HIDE DEF v, first, m, S, anchor, p
<1> QED BY <1>2, <1>3, <1>11, <1>12, <1>13, <1>14 DEF m, first

-----------------------------------------------------------------------------
(* The events of a session whose first records are stored.                 *)

LEMMA SameFunctions ==
    ASSUME NEW A, NEW B, NEW f \in [A -> B], NEW g \in [A -> B], \A x \in A : f[x] = g[x]
    PROVE  f = g
<1> QED OBVIOUS

LEMMA PickedPart ==
    ASSUME NEW S, NEW a \in Nat
    PROVE  \A q \in Seq(S) : \A b \in a..Len(q) :
              Picked(q, (a + 1)..b) = [i \in 1..(b - a) |-> q[a + i]]
<1> DEFINE Part(q, b) == [i \in 1..(b - a) |-> q[a + i]]
           G == {q \in Seq(S) : \A b \in a..Len(q) : Picked(q, (a + 1)..b) = Part(q, b)}
<1>1. <<>> \in G
  <2>1. <<>> \in Seq(S) /\ Len(<<>>) = 0
    BY EmptySeq
  <2>2. \A b \in a..0 : Part(<<>>, b) = <<>>
    <3> SUFFICES ASSUME NEW b \in a..0 PROVE Part(<<>>, b) = <<>>
      OBVIOUS
    <3>1. b - a = 0
      OBVIOUS
    <3>2. Part(<<>>, b) \in [1..0 -> S]
      BY <3>1
    <3>3. Part(<<>>, b) \in Seq(S) /\ Len(Part(<<>>, b)) = 0
      BY <3>2, SeqDef, LenProperties
    <3> HIDE DEF Part
    <3> QED BY <3>3, EmptySeq
  <2> QED BY <2>1, <2>2, PickedNone
<1>2. ASSUME NEW q \in Seq(S), NEW x \in S, q \in G PROVE Append(q, x) \in G
  <2> DEFINE n == Len(q)
             t == Append(q, x)
  <2>1. n \in Nat /\ t \in Seq(S) /\ Len(t) = n + 1 /\ t[n + 1] = x /\ \A i \in 1..n : t[i] = q[i]
    BY AppendProperties, LenProperties
  <2> HIDE DEF t
  <2> SUFFICES ASSUME NEW b \in a..(n + 1) PROVE Picked(t, (a + 1)..b) = Part(t, b)
    BY <2>1 DEF t
  <2>2. CASE b \in a..n
    <3>1. Picked(q, (a + 1)..b) = Part(q, b)
      BY <1>2, <2>2
    <3>2. n + 1 \notin (a + 1)..b
      BY <2>1, <2>2
    <3>3. Picked(t, (a + 1)..b) = Picked(q, (a + 1)..b)
      <4> DEFINE at == (a + 1)..b
      <4> HIDE DEF at
      <4>1. n + 1 \notin at
        BY <3>2 DEF at
      <4> QED BY <4>1, PickedAfter DEF t, at
    <3>4. Part(t, b) = Part(q, b)
      <4>1. \A i \in 1..(b - a) : a + i \in 1..n
        BY <2>1, <2>2
      <4> QED BY <2>1, <4>1
    <3> QED BY <3>1, <3>3, <3>4
  <2>3. CASE b = n + 1 /\ a <= n
    <3> DEFINE at == (a + 1)..b
               bt == (a + 1)..n
    <3>1. \A i \in 1..n : i \in at <=> i \in bt
      BY <2>1, <2>3
    <3>2. n + 1 \in at
      BY <2>1, <2>3
    <3>3. Picked(q, bt) = Part(q, n)
      <4>1. n \in a..n
        BY <2>1, <2>3
      <4> QED BY <1>2, <4>1
    <3> HIDE DEF at, bt
    <3>4. Picked(t, at) = Append(Picked(q, bt), x)
      BY <3>1, <3>2, PickedAppend DEF t
    <3>5. Append(Part(q, n), x) = Part(t, b)
      <4> DEFINE p == Part(q, n)
                 r == Part(t, b)
      <4>1. p \in [1..(n - a) -> S]
        <5>1. \A i \in 1..(n - a) : a + i \in 1..n
          BY <2>1
        <5>2. \A i \in 1..n : q[i] \in S
          BY <2>1, ElementOfSeq
        <5> QED BY <5>1, <5>2
      <4>2. p \in Seq(S) /\ Len(p) = n - a
        BY <2>1, <2>3, <4>1, SeqDef, LenProperties
      <4>3. r \in [1..(n + 1 - a) -> S]
        <5>1. \A i \in 1..(n + 1 - a) : a + i \in 1..(n + 1)
          BY <2>1
        <5>2. \A i \in 1..(n + 1) : t[i] \in S
          BY <2>1, ElementOfSeq
        <5> QED BY <2>3, <5>1, <5>2
      <4>4. \A i \in 1..(n - a) : r[i] = p[i]
        BY <2>1, <2>3
      <4>5. r[n + 1 - a] = x
        <5> DEFINE k == n + 1 - a
        <5>1. k \in 1..(b - a) /\ a + k = n + 1
          BY <2>1, <2>3
        <5> HIDE DEF k
        <5>2. r[k] = t[n + 1]
          BY <5>1
        <5> QED BY <2>1, <5>2 DEF k
      <4> HIDE DEF p, r
      <4>6. Append(p, x) \in [1..(n - a + 1) -> S]
        <5>1. Append(p, x) \in Seq(S) /\ Len(Append(p, x)) = n - a + 1
          BY <4>2, AppendProperties
        <5> QED BY <5>1, LenProperties
      <4>7. \A i \in 1..(n + 1 - a) : Append(p, x)[i] = r[i]
        <5>1. /\ Append(p, x)[n - a + 1] = x
              /\ \A i \in 1..(n - a) : Append(p, x)[i] = p[i]
          BY <4>2, AppendProperties
        <5>2. n - a + 1 = n + 1 - a /\ \A i \in 1..(n + 1 - a) : i \in 1..(n - a) \/ i = n + 1 - a
          BY <2>1, <2>3
        <5> QED BY <4>4, <4>5, <5>1, <5>2
      <4>8. n - a + 1 = n + 1 - a
        BY <2>1
      <4> DEFINE m == n + 1 - a
      <4>9. Append(p, x) \in [1..m -> S] /\ r \in [1..m -> S] /\ \A i \in 1..m : Append(p, x)[i] = r[i]
        BY <4>3, <4>6, <4>7, <4>8
      <4> HIDE DEF m
      <4>10. Append(p, x) = r
        <5> DEFINE f == Append(p, x)
                   A == 1..m
        <5>1. f \in [A -> S] /\ r \in [A -> S] /\ \A i \in A : f[i] = r[i]
          BY <4>9
        <5> HIDE DEF f, A
        <5>2. f = r
          BY <5>1, SameFunctions
        <5> QED BY <5>2 DEF f
      <4> QED BY <4>10 DEF p, r
    <3> QED BY <3>3, <3>4, <3>5 DEF at
  <2>4. CASE b = n + 1 /\ a = n + 1
    <3>1. (a + 1)..b = {} /\ b - a = 0
      BY <2>1, <2>4
    <3>2. Part(t, b) = <<>>
      <4>1. Part(t, b) \in [1..0 -> S]
        BY <3>1
      <4>2. Part(t, b) \in Seq(S) /\ Len(Part(t, b)) = 0
        BY <4>1, SeqDef, LenProperties
      <4> HIDE DEF Part
      <4> QED BY <4>2, EmptySeq
    <3>3. Picked(t, {}) = <<>>
      <4> DEFINE Z == {}
      <4>1. Sel(t, Z) = <<>>
        BY <2>1, SelNothing
      <4>2. {i \in DOMAIN t : t[i] \in Z} = {}
        OBVIOUS
      <4> QED BY <4>1, <4>2 DEF Sel
    <3> QED BY <3>1, <3>2, <3>3
  <2> QED BY <2>1, <2>2, <2>3, <2>4
<1> HIDE DEF G
<1>3. \A q \in Seq(S) : q \in G
  BY <1>1, <1>2, SequencesIn
<1> QED BY <1>3 DEF G

\* The event of the i-th record.
EventAt(s, i) == StoredEvent(At(s, i), rows[s][At(s, i)])

EventsUpTo(s, n) == [i \in 1..n |-> EventAt(s, i)]

\* Records that are written start one after another, and the rows are those of
\* the first n.
StoredTo(s, n) ==
    /\ written[s] \in Nat /\ n \in 0..written[s]
    /\ \A i \in 1..written[s] : At(s, i) \in Nat
    /\ \A i, j \in 1..written[s] : i < j => At(s, i) < At(s, j)
    /\ DOMAIN rows[s] = {At(s, i) : i \in 1..n}

LEMMA EventsFromAre ==
    ASSUME NEW s, NEW n, StoredTo(s, n), NEW k \in 0..n, NEW first,
           \A i \in 1..n : At(s, i) >= first <=> i > k
    PROVE  EventsFrom(s, first) = [i \in 1..(n - k) |-> EventAt(s, k + i)]
<1> DEFINE w == written[s]
           q == [i \in 1..w |-> At(s, i)]
           at == {i \in DOMAIN q : q[i] >= first /\ q[i] \in DOMAIN rows[s]}
           offsets == Picked(q, at)
<1>1. w \in Nat /\ n \in Nat /\ n <= w /\ k \in Nat /\ k <= n
  BY DEF StoredTo
<1>2. q \in Seq(Nat) /\ Len(q) = w
  <2>1. q \in [1..w -> Nat]
    BY DEF StoredTo
  <2> HIDE DEF q
  <2> QED BY <1>1, <2>1, SeqDef, LenProperties
<1>3. ASSUME NEW i \in 1..w PROVE At(s, i) \in DOMAIN rows[s] <=> i <= n
  <2>1. ASSUME NEW j \in 1..n, At(s, i) = At(s, j) PROVE i = j
    <3>1. j \in 1..w /\ At(s, i) \in Nat /\ i \in Nat /\ j \in Nat
      BY <1>1 DEF StoredTo
    <3>2. (i < j => At(s, i) < At(s, j)) /\ (j < i => At(s, j) < At(s, i))
      BY <3>1 DEF StoredTo
    <3> QED BY <2>1, <3>1, <3>2
  <2>2. At(s, i) \in DOMAIN rows[s] => i <= n
    BY <1>1, <2>1 DEF StoredTo
  <2>3. i <= n => At(s, i) \in DOMAIN rows[s]
    BY <1>1 DEF StoredTo
  <2> QED BY <2>2, <2>3
<1>4. at = (k + 1)..n
  <2>1. at = {i \in 1..w : At(s, i) >= first /\ At(s, i) \in DOMAIN rows[s]}
    OBVIOUS
  <2>2. \A i \in 1..w : At(s, i) >= first /\ At(s, i) \in DOMAIN rows[s] <=> i \in (k + 1)..n
    BY <1>1, <1>3
  <2> HIDE DEF at, w
  <2> QED BY <1>1, <2>1, <2>2
<1>5. offsets = [i \in 1..(n - k) |-> q[k + i]]
  <2>1. n \in k..Len(q)
    BY <1>1, <1>2
  <2> HIDE DEF q, at
  <2>2. Picked(q, (k + 1)..n) = [i \in 1..(n - k) |-> q[k + i]]
    BY <1>1, <1>2, <2>1, PickedPart
  <2> QED BY <1>4, <2>2
<1>6. \A i \in 1..(n - k) : k + i \in 1..w
  BY <1>1
<1>7. \A i \in 1..(n - k) : q[k + i] = At(s, k + i)
  BY <1>6
<1>8. EventsFrom(s, first) = [i \in 1..Len(offsets) |-> StoredEvent(offsets[i], rows[s][offsets[i]])]
  BY DEF EventsFrom, Where
<1> HIDE DEF offsets, at, q, w
<1>9. Len(offsets) = n - k
  <2>1. n - k \in Nat /\ DOMAIN offsets = 1..(n - k)
    BY <1>1, <1>5
  <2>2. offsets \in Seq(Nat)
    BY <1>2, PickedType DEF offsets
  <2> QED BY <2>1, <2>2, LenProperties
<1>10. \A i \in 1..(n - k) : offsets[i] = At(s, k + i)
  BY <1>5, <1>7
<1> QED BY <1>8, <1>9, <1>10 DEF EventAt

\* All of them, those from one record on, and how they are cut.
LEMMA EventsAre ==
    ASSUME NEW s \in Sessions, NEW n, StoredTo(s, n)
    PROVE  /\ EventsUpTo(s, n) \in Seq(AllEvents) /\ Len(EventsUpTo(s, n)) = n
           /\ EventsFrom(s, 0) = EventsUpTo(s, n)
           /\ EventsRise(EventsUpTo(s, n))
           /\ CutsBack(s, EventsUpTo(s, n))
<1> DEFINE w == EventsUpTo(s, n)
           E == AllEvents
<1>1. n \in Nat /\ n <= written[s] /\ written[s] \in Nat
  BY DEF StoredTo
<1>2. \A i \in 1..n : /\ i \in 1..written[s] /\ At(s, i) \in DOMAIN rows[s] /\ At(s, i) \in Nat
                      /\ \A j \in 1..n : i < j => At(s, i) < At(s, j)
  BY <1>1 DEF StoredTo
<1>3. w \in [1..n -> E]
  BY <1>2 DEF EventsUpTo, EventAt, AllEvents
<1>4. w \in Seq(E) /\ Len(w) = n /\ DOMAIN w = 1..n
  <2> HIDE DEF w, E
  <2> QED BY <1>1, <1>3, SeqDef, LenProperties
<1>5. \A i \in 1..n : w[i] = EventAt(s, i) /\ w[i].offset = At(s, i)
  <2> SUFFICES ASSUME NEW i \in 1..n PROVE EventAt(s, i).offset = At(s, i)
    BY DEF EventsUpTo
  <2> DEFINE row == rows[s][At(s, i)]
             g == [offset |-> At(s, i), ts |-> row.ts, kind |-> StoredKind(row.payload)]
             f == IF IsBare(row)
                  THEN [NoEvent EXCEPT !.agent = row.payload.agent, !.speaker = Nil, !.content = Nil]
                  ELSE row.event
  <2>1. EventAt(s, i) = Joined(f, g)
    BY DEF EventAt, StoredEvent
  <2>2. "offset" \in DOMAIN g /\ g.offset = At(s, i)
    OBVIOUS
  <2> HIDE DEF f, g
  <2>3. Joined(f, g).offset = g.offset
    BY <2>2 DEF Joined
  <2> QED BY <2>1, <2>2, <2>3
<1>6. EventsRise(w)
  <2> HIDE DEF w
  <2> QED BY <1>2, <1>4, <1>5 DEF EventsRise
<1>7. EventsFrom(s, 0) = w
  <2>1. \A i \in 1..n : At(s, i) >= 0 <=> i > 0
    BY <1>1, <1>2
  <2>2. 0 \in 0..n
    BY <1>1
  <2> DEFINE k == 0
             z == 0
  <2>3. k \in 0..n /\ \A i \in 1..n : At(s, i) >= z <=> i > k
    BY <2>1, <2>2
  <2>a. k \in Nat /\ k = 0
    OBVIOUS
  <2> HIDE DEF k, z
  <2>4. EventsFrom(s, z) = [i \in 1..(n - k) |-> EventAt(s, k + i)]
    BY <2>3, EventsFromAre
  <2>5. n - k = n /\ \A i \in 1..n : k + i = i
    BY <1>1, <2>a
  <2> QED BY <2>4, <2>5 DEF EventsUpTo, z
<1>8. CutsBack(s, w)
  <2> SUFFICES ASSUME NEW F, NEW u \in Seq(F), NEW v \in Seq(F), w = u \o v, v # <<>>
               PROVE  EventsFrom(s, FirstOf(v)) = v
    BY DEF CutsBack
  <2> DEFINE k == Len(u)
             m == Len(v)
  <2>1. /\ k \in Nat /\ m \in Nat /\ m # 0 /\ n = k + m
        /\ \A i \in 1..(k + m) : w[i] = IF i <= k THEN u[i] ELSE v[i - k]
    <3>1. /\ Len(u \o v) = k + m
          /\ \A i \in 1..(k + m) : (u \o v)[i] = IF i <= k THEN u[i] ELSE v[i - k]
      BY ConcatProperties
    <3>2. k \in Nat /\ m \in Nat /\ m # 0
      BY LenProperties, EmptySeq
    <3> HIDE DEF w, k, m
    <3> QED BY <1>4, <3>1, <3>2
  <2>2. DOMAIN v = 1..m /\ v = [i \in 1..m |-> v[i]]
    BY LenProperties
  <2> HIDE DEF k, m, w
  <2>3. ASSUME NEW i \in 1..m PROVE v[i] = EventAt(s, k + i)
    <3> DEFINE j == k + i
    <3>1. j \in 1..(k + m) /\ ~(j <= k) /\ j - k = i /\ j \in 1..n
      BY <2>1
    <3> HIDE DEF j
    <3>2. w[j] = v[i]
      BY <2>1, <3>1
    <3> QED BY <1>5, <3>1, <3>2 DEF j
  <2>4. FirstOf(v) = At(s, k + 1)
    <3> DEFINE j == k + 1
    <3>1. j \in 1..n /\ j - k = 1 /\ ~(j <= k) /\ j \in 1..(k + m)
      BY <2>1
    <3> HIDE DEF j
    <3>2. w[j] = v[1]
      BY <2>1, <3>1
    <3>3. w[j].offset = At(s, j)
      BY <1>5, <3>1
    <3> QED BY <3>2, <3>3 DEF j, FirstOf
  <2>5. \A i \in 1..n : At(s, i) >= FirstOf(v) <=> i > k
    <3> SUFFICES ASSUME NEW i \in 1..n PROVE At(s, i) >= At(s, k + 1) <=> i > k
      BY <2>4
    <3> DEFINE j == k + 1
    <3>1. j \in 1..n /\ i \in Nat /\ j \in Nat
      BY <1>1, <2>1
    <3>a. j <= i <=> i > k
      BY <2>1
    <3> HIDE DEF j
    <3>2. At(s, i) \in Nat /\ At(s, j) \in Nat /\ (i < j => At(s, i) < At(s, j))
          /\ (j < i => At(s, j) < At(s, i))
      BY <1>2, <3>1
    <3>3. At(s, i) >= At(s, j) <=> j <= i
      BY <3>1, <3>2
    <3> QED BY <3>3, <3>a DEF j
  <2>6. k \in 0..n /\ n - k = m
    BY <2>1
  <2>7. EventsFrom(s, FirstOf(v)) = [i \in 1..m |-> EventAt(s, k + i)]
    BY <2>5, <2>6, EventsFromAre
  <2> QED BY <2>2, <2>3, <2>7
<1> QED BY <1>4, <1>6, <1>7, <1>8

LEMMA PickedWhole ==
    ASSUME NEW S, NEW q \in Seq(S)
    PROVE  Picked(q, DOMAIN q) = q /\ Picked(q, {}) = <<>>
<1>1. {i \in DOMAIN q : q[i] \in S} = DOMAIN q
  BY IndexIn
<1>2. Picked(q, DOMAIN q) = q
  <2>1. Sel(q, S) = q
    BY SelAll
  <2> QED BY <1>1, <2>1 DEF Sel
<1>3. Picked(q, {}) = <<>>
  <2> DEFINE Z == {}
  <2>1. Sel(q, Z) = <<>>
    BY SelNothing
  <2>2. {i \in DOMAIN q : q[i] \in Z} = {}
    OBVIOUS
  <2> QED BY <2>1, <2>2 DEF Sel
<1> QED BY <1>2, <1>3

\* No event is before one that it comes after.
Sorted(w) == \A i, j \in 1..Len(w) : i < j => ~Before(w[j], w[i])

\* What is sorted stays as it is.
LEMMA ByTimeSorted ==
    ASSUME NEW E, NEW w \in Seq(E), Sorted(w)
    PROVE  ByTime(w) = w
<1> DEFINE n == Len(w)
           Pre(i) == [k \in 1..i |-> w[k]]
<1>1. n \in Nat /\ w \in [1..n -> E]
  BY LenProperties
<1>2. PICK f : /\ f[0] = <<>> /\ \A i \in 1..n : f[i] = Inserted(f[i - 1], w[i])
               /\ ByTime(w) = f[n]
  BY ByTimeSteps
<1>3. \A i \in 0..n : Pre(i) \in Seq(E) /\ Len(Pre(i)) = i /\ DOMAIN Pre(i) = 1..i
  <2> SUFFICES ASSUME NEW i \in 0..n PROVE Pre(i) \in Seq(E) /\ Len(Pre(i)) = i /\ DOMAIN Pre(i) = 1..i
    OBVIOUS
  <2>1. Pre(i) \in [1..i -> E] /\ i \in Nat
    BY <1>1
  <2> HIDE DEF Pre
  <2> QED BY <2>1, SeqDef, LenProperties
<1> DEFINE G == {i \in Nat : i <= n => f[i] = Pre(i)}
<1>4. 0 \in G
  <2>1. Pre(0) = <<>>
    <3> DEFINE z == 0
    <3>1. z \in 0..n /\ z = 0
      BY <1>1
    <3> HIDE DEF z
    <3>2. Pre(z) \in Seq(E) /\ Len(Pre(z)) = 0
      BY <1>3, <3>1
    <3>3. Pre(z) = <<>>
      <4> HIDE DEF Pre
      <4> QED BY <3>2, EmptySeq
    <3> QED BY <3>1, <3>3
  <2> QED BY <1>2, <2>1
<1>5. ASSUME NEW m \in Nat, m \in G PROVE m + 1 \in G
  <2> SUFFICES ASSUME m + 1 <= n PROVE f[m + 1] = Pre(m + 1)
    OBVIOUS
  <2> DEFINE i == m + 1
             e == w[i]
             u == Pre(m)
             at == {k \in DOMAIN u : ~Before(e, u[k])}
             bt == {k \in DOMAIN u : Before(e, u[k])}
  <2>1. i \in 1..n /\ i - 1 = m /\ m \in 0..n /\ e \in E /\ i \in 0..n
    BY <1>1
  <2>2. f[m] = u
    BY <1>5, <2>1
  <2>3. f[i] = Inserted(u, e)
    <3> HIDE DEF i, u
    <3> QED BY <1>2, <2>1, <2>2
  <2>4. u \in Seq(E) /\ DOMAIN u = 1..m /\ Len(u) = m
    BY <1>3, <2>1
  <2>5. \A k \in 1..m : ~Before(e, u[k])
    <3> SUFFICES ASSUME NEW k \in 1..m PROVE ~Before(w[i], w[k])
      OBVIOUS
    <3>1. k \in 1..n /\ k < i
      BY <2>1
    <3> HIDE DEF i
    <3> QED BY <2>1, <3>1 DEF Sorted
  <2> HIDE DEF u, e
  <2>6. at = DOMAIN u /\ bt = {}
    BY <2>4, <2>5
  <2>7. Inserted(u, e) = Append(Picked(u, at), e) \o Picked(u, bt)
    BY DEF Inserted, Where
  <2> HIDE DEF at, bt
  <2>8. Inserted(u, e) = Append(u, e) \o <<>>
    BY <2>4, <2>6, <2>7, PickedWhole
  <2>9. Append(u, e) \in Seq(E) /\ Len(Append(u, e)) = m + 1
        /\ Append(u, e)[m + 1] = e /\ \A k \in 1..m : Append(u, e)[k] = u[k]
    BY <2>1, <2>4, AppendProperties
  <2>10. Inserted(u, e) = Append(u, e)
    BY <2>8, <2>9, ConcatEmptySeq
  <2>11. Append(u, e) = Pre(i)
    <3> DEFINE p == Append(u, e)
               q == Pre(i)
               A == 1..i
    <3>1. p \in [A -> E] /\ q \in [A -> E]
      <4>1. p \in [A -> E]
        BY <2>9, LenProperties
      <4>2. q \in [A -> E]
        BY <1>1, <2>1
      <4> QED BY <4>1, <4>2
    <3>2. \A k \in A : p[k] = q[k]
      <4> SUFFICES ASSUME NEW k \in A PROVE p[k] = w[k]
        OBVIOUS
      <4>1. k \in 1..m \/ k = m + 1
        OBVIOUS
      <4> QED BY <2>9, <4>1 DEF u, e
    <3> HIDE DEF p, q, A
    <3>3. p = q
      BY <3>1, <3>2, SameFunctions
    <3> QED BY <3>3 DEF p, q
  <2> QED BY <2>3, <2>10, <2>11
<1> HIDE DEF G
<1>6. \A i \in Nat : i \in G
  BY <1>4, <1>5, NumbersIn
<1>7. f[n] = Pre(n)
  BY <1>1, <1>6 DEF G
<1>8. Pre(n) = w
  <2> HIDE DEF n
  <2> QED BY <1>1
<1> QED BY <1>2, <1>7, <1>8

-----------------------------------------------------------------------------
(* A session that no other hangs from.                                     *)

LEMMA NothingFlat ==
    ASSUME NEW n \in Nat, NEW h, \A i \in 1..n : h[i] = <<>>, DOMAIN h = 1..n
    PROVE  FlattenSeq([i \in 1..n |-> h[i]]) = <<>>
<1> DEFINE v == Numbers(n)
           I == 1..n
<1>1. v \in Seq(I) /\ Len(v) = n /\ \A i \in 1..n : v[i] = i
  <2>1. v \in [1..n -> I]
    BY DEF Numbers
  <2>2. v \in Seq(I)
    BY <2>1, SeqDef
  <2> QED BY <2>1, <2>2, LenProperties DEF Numbers
<1>2. \A i \in I : h[i] \in Seq({})
  BY EmptySeq
<1> HIDE DEF v, I
<1>3. Flat(v, h) \in Seq({})
  BY <1>1, <1>2, FlatType
<1>4. [i \in 1..Len(v) |-> h[v[i]]] = [i \in 1..n |-> h[i]]
  BY <1>1
<1>5. Flat(v, h) = FlattenSeq([i \in 1..n |-> h[i]])
  BY <1>4, Zenon DEF Flat
<1>6. \A q \in Seq({}) : q = <<>>
  <2> SUFFICES ASSUME NEW q \in Seq({}) PROVE q = <<>>
    OBVIOUS
  <2>1. Len(q) \in Nat /\ \A i \in 1..Len(q) : q[i] \in {}
    BY LenProperties, ElementOfSeq
  <2>2. Len(q) = 0
    BY <2>1
  <2> QED BY <2>2, EmptySeq
<1> QED BY <1>3, <1>5, <1>6

LEMMA NoneInOrder == SetToSeq({}) = <<>>
<1>1. SetToSeq({}) \in Seq({})
  BY SetToSeqType, FS_EmptySet
<1> DEFINE q == SetToSeq({})
<1>2. q \in Seq({})
  BY <1>1
<1> HIDE DEF q
<1>3. Len(q) \in Nat /\ \A i \in 1..Len(q) : q[i] \in {}
  BY <1>2, LenProperties, ElementOfSeq
<1>4. Len(q) = 0
  BY <1>3
<1> QED BY <1>2, <1>4, EmptySeq DEF q

LEMMA NoDescendants ==
    ASSUME NEW s, known \subseteq Sessions, Children(s) = {}
    PROVE  Descendants(s) = <<>>
<1> DEFINE n == Cardinality(Sessions)
<1>1. n \in Nat
  BY SessionsAssumption, FS_CardinalityType
<1>2. PICK f : /\ f[0] = Children(s)
               /\ \A i \in 1..n : f[i] = UNION {Children(c) : c \in f[i - 1]}
               /\ Descendants(s) = IF s \in known
                                   THEN FlattenSeq([i \in 1..n |-> SetToSeq(f[i - 1])]) ELSE <<>>
  <2> HIDE DEF n
  <2>1. \E f : /\ f[0] = Children(s)
               /\ \A i \in 1..n : f[i] = UNION {Children(c) : c \in f[i - 1]}
               /\ \A i \in 0..n : f[i] \in SUBSET Sessions
               /\ Descendants(s) = IF s \in known
                                   THEN FlattenSeq([i \in 1..n |-> SetToSeq(f[i - 1])]) ELSE <<>>
    BY LevelSteps, Zenon DEF n
  <2> QED BY <2>1, Zenon
<1>3. \A i \in 0..n : f[i] = {}
  <2> DEFINE X == {{}}
  <2>1. f[0] \in X
    BY <1>2
  <2>2. Keeping(f, X, n)
    BY <1>2 DEF Keeping
  <2> HIDE DEF X
  <2>3. \A i \in 0..n : f[i] \in X
    BY <1>1, <2>1, <2>2, StaysIn
  <2> QED BY <2>3 DEF X
<1>4. SetToSeq({}) = <<>>
  BY NoneInOrder
<1> DEFINE h == [i \in 1..n |-> SetToSeq(f[i - 1])]
<1>5. DOMAIN h = 1..n /\ \A i \in 1..n : h[i] = <<>>
  <2>1. \A i \in 1..n : i - 1 \in 0..n
    BY <1>1
  <2>2. \A i \in 1..n : f[i - 1] = {}
    BY <1>3, <2>1
  <2> QED BY <1>4, <2>2
<1>6. h = [i \in 1..n |-> h[i]]
  OBVIOUS
<1>7. FlattenSeq(h) = <<>>
  <2> HIDE DEF h, n
  <2>1. FlattenSeq([i \in 1..n |-> h[i]]) = <<>>
    BY <1>1, <1>5, NothingFlat
  <2> QED BY <1>6, <2>1
<1> QED BY <1>2, <1>7

\* Its source events are its own, in the order of their timestamps.
LEMMA OwnEvents ==
    ASSUME NEW s, known \subseteq Sessions, Children(s) = {}
    PROVE  SourceEvents(s) = ByTime(EventsFrom(s, 0))
<1> DEFINE first == EventsFrom(s, 0)
           Loads(f, b) == f = [i \in 0..Len(b) |-> IF i = 0 THEN first ELSE WithDescendant(f[i - 1], b[i])]
           below == Descendants(s)
<1>1. below = <<>> /\ Len(below) = 0
  <2>1. below = <<>>
    BY NoDescendants
  <2>2. Len(<<>>) = 0
    BY EmptySeq
  <2> HIDE DEF below
  <2> QED BY <2>1, <2>2
<1>2. \E f : Loads(f, below)
  <2> DEFINE g == [i \in 0..0 |-> first]
  <2>1. g = [i \in 0..0 |-> IF i = 0 THEN first ELSE WithDescendant(g[i - 1], below[i])]
    OBVIOUS
  <2> HIDE DEF g, first, below
  <2>2. Loads(g, below)
    BY <1>1, <2>1
  <2> QED BY <2>2
<1>3. PICK f : Loads(f, below) /\ SourceEvents(s) = ByTime(f[Len(below)])
  BY <1>2 DEF SourceEvents
<1> HIDE DEF below, first
<1>4. f[0] = first
  BY <1>1, <1>3
<1> QED BY <1>1, <1>3, <1>4 DEF first

\* The times of the rows are numbers.
Timed(s) == \A o \in DOMAIN rows[s] : rows[s][o].ts \in Nat

LEMMA InOrderSorted ==
    ASSUME NEW s \in Sessions, NEW n, StoredTo(s, n), Timed(s), InOrder(s)
    PROVE  Sorted(EventsUpTo(s, n))
<1> DEFINE w == EventsUpTo(s, n)
<1>1. Len(w) = n /\ n \in Nat /\ n <= written[s] /\ written[s] \in Nat
  BY EventsAre DEF StoredTo
<1>2. \A i \in 1..n : /\ At(s, i) \in DOMAIN rows[s] /\ At(s, i) \in Nat
                      /\ \A j \in 1..n : i < j => At(s, i) < At(s, j)
  BY <1>1 DEF StoredTo
<1>3. ASSUME NEW i \in 1..n PROVE w[i].ts = rows[s][At(s, i)].ts /\ w[i].offset = At(s, i)
  <2> DEFINE row == rows[s][At(s, i)]
             g == [offset |-> At(s, i), ts |-> row.ts, kind |-> StoredKind(row.payload)]
             f == IF IsBare(row)
                  THEN [NoEvent EXCEPT !.agent = row.payload.agent, !.speaker = Nil, !.content = Nil]
                  ELSE row.event
  <2>1. w[i] = Joined(f, g)
    BY DEF EventsUpTo, EventAt, StoredEvent
  <2>2. "offset" \in DOMAIN g /\ g.offset = At(s, i) /\ "ts" \in DOMAIN g /\ g.ts = row.ts
    OBVIOUS
  <2> HIDE DEF f, g
  <2>3. Joined(f, g).offset = g.offset /\ Joined(f, g).ts = g.ts
    BY <2>2 DEF Joined
  <2> QED BY <2>1, <2>2, <2>3
<1> HIDE DEF w
<1> SUFFICES ASSUME NEW i \in 1..n, NEW j \in 1..n, i < j PROVE ~Before(w[j], w[i])
  BY <1>1 DEF Sorted, w
<1>4. rows[s][At(s, i)].ts \in Nat /\ rows[s][At(s, j)].ts \in Nat
      /\ rows[s][At(s, i)].ts <= rows[s][At(s, j)].ts
  BY <1>2 DEF Timed, InOrder
<1>5. At(s, i) \in Nat /\ At(s, j) \in Nat /\ At(s, i) < At(s, j)
  BY <1>2
<1> QED BY <1>3, <1>4, <1>5 DEF Before

\* The rows are in order, nothing hangs from the session and it is linked when
\* its pty had it from the beginning.
Simple(s, n) ==
    /\ StoredTo(s, n) /\ Timed(s) /\ InOrder(s)
    /\ known \subseteq Sessions /\ Children(s) = {} /\ RowsBear
    /\ s \in story.current => TouchContext(s) = story.context[s]

\* A plan that leaves the turns of the first n records.
Right(plan, s, n) ==
    /\ plan.session = s
    /\ Cardinality(PlanIds(plan)) = Len(plan.turns) /\ PlanIds(plan) \cap Kept(plan) = {}
    /\ Made(TurnsAfter(plan), s, Seeds(EventsUpTo(s, n)))

LEMMA SourceIs ==
    ASSUME NEW s \in Sessions, NEW n, Simple(s, n)
    PROVE  SourceEvents(s) = EventsUpTo(s, n)
<1> DEFINE w == EventsUpTo(s, n)
<1>1. w \in Seq(AllEvents) /\ EventsFrom(s, 0) = w
  BY EventsAre DEF Simple
<1>2. Sorted(w)
  BY InOrderSorted DEF Simple
<1> HIDE DEF w
<1>3. ByTime(w) = w
  BY <1>1, <1>2, ByTimeSorted
<1> QED BY <1>1, <1>3, OwnEvents DEF Simple, w

LEMMA FullIsRight ==
    ASSUME NEW s \in Sessions, NEW n, Simple(s, n)
    PROVE  FullPlan(s).from = Nil /\ Right(FullPlan(s), s, n)
<1> DEFINE w == EventsUpTo(s, n)
           E == AllEvents
           a == <<>>
           plan == FullPlan(s)
<1>1. PICK B : Bearing(E, B)
  BY EventsBear DEF Simple
<1>2. w \in Seq(E) /\ EventsRise(w) /\ SourceEvents(s) = w
  BY EventsAre, SourceIs DEF Simple
<1>3. FirstsRise(Seeds(w))
  <2> HIDE DEF w, E
  <2> QED BY <1>2, SeedsRise
<1>4. a \in Seq(Seq(E)) /\ Len(a) = 0
  BY EmptySeq
<1>5. Seeds(w) = a \o Seeds(w)
  <2> DEFINE T == Seq(E)
             c == Seeds(w)
  <2>1. c \in Seq(T)
    <3> HIDE DEF w, E
    <3> QED BY <1>2, SeedAt
  <2> HIDE DEF c, T
  <2> QED BY <2>1, ConcatEmptySeq
<1>6. plan = Plan(s, Nil, Len(a), w)
  <2> HIDE DEF w
  <2> QED BY <1>2, <1>4 DEF FullPlan
<1>7. plan.from = Nil
  BY DEF FullPlan, Plan
<1>8. Kept(plan) = {} /\ Firsts(a) = {}
  <2>1. Firsts(a) = {}
    <3> HIDE DEF a
    <3> QED BY <1>4 DEF Firsts
  <2> HIDE DEF plan
  <2> QED BY <1>7, <2>1 DEF Kept
<1>9. HoldsTurns(turns[s], s, Seeds(w), Len(a))
  <2> HIDE DEF a
  <2> QED BY <1>4 DEF HoldsTurns
<1> DEFINE seeds == Seeds(w)
<1>10. seeds = a \o Seeds(w) /\ FirstsRise(seeds) /\ HoldsTurns(turns[s], s, seeds, Len(a))
  BY <1>3, <1>5, <1>9
<1>11. w # <<>> => (s \in story.current => TouchContext(s) = story.context[s])
  BY DEF Simple
<1> HIDE DEF w, E, a, plan, seeds
<1>12. /\ plan.session = s
       /\ Cardinality(PlanIds(plan)) = Len(plan.turns) /\ PlanIds(plan) \cap Kept(plan) = {}
       /\ Made(TurnsAfter(plan), s, seeds)
  <2>1. Kept(plan) = Firsts(a)
    BY <1>8
  <2>2. Bearing(E, B) /\ a \in Seq(Seq(E)) /\ w \in Seq(E)
    BY <1>1, <1>2, <1>4
  <2>3. Continues(E, a, w, seeds, s, Nil, plan)
    BY <1>6, <1>10, <1>11, <2>1, <2>2, Zenon DEF Continues
  <2> QED BY <1>1, <2>3, PlanMakes DEF Makes
<1> QED BY <1>7, <1>12 DEF Right, plan, seeds, w

\* What a rebuild projects is the end of the events, cut where a turn starts.
Ends(v, w) ==
    \E E : \E u \in Seq(E) : v \in Seq(E) /\ w = u \o v /\ Cuts(u, v)

LEMMA EndsPanic ==
    ASSUME NEW v, NEW w, Ends(v, w), ProjectionPanics(v)
    PROVE  ProjectionPanics(w)
<1>1. PICK E : \E u \in Seq(E) : v \in Seq(E) /\ w = u \o v /\ Cuts(u, v)
  BY DEF Ends
<1>2. PICK u \in Seq(E) : v \in Seq(E) /\ w = u \o v /\ Cuts(u, v)
  BY <1>1
<1> QED BY <1>2, PanicsOfParts

LEMMA Divided ==
    ASSUME NEW s \in Sessions, NEW n, StoredTo(s, n), NEW m \in 1..(n - 1)
    PROVE  \E new : /\ EventsUpTo(s, m) \in Seq(AllEvents) /\ new \in Seq(AllEvents)
                    /\ EventsUpTo(s, m) # <<>> /\ new # <<>>
                    /\ EventsUpTo(s, n) = EventsUpTo(s, m) \o new
                    /\ FirstOf(new) = At(s, m + 1)
<1> DEFINE E == AllEvents
           k == n - m
           new == [i \in 1..k |-> EventAt(s, m + i)]
           old == EventsUpTo(s, m)
           w == EventsUpTo(s, n)
<1>1. n \in Nat /\ n <= written[s] /\ written[s] \in Nat /\ m \in Nat /\ m # 0 /\ k \in Nat /\ k # 0 /\ m + k = n
  BY DEF StoredTo
<1>2. \A i \in 1..n : EventAt(s, i) \in E
  <2>1. \A i \in 1..n : At(s, i) \in DOMAIN rows[s]
    BY DEF StoredTo
  <2> QED BY <2>1 DEF EventAt, AllEvents
<1>3. old \in [1..m -> E]
  BY <1>1, <1>2 DEF EventsUpTo
<1>4. \A i \in 1..k : m + i \in 1..n
  BY <1>1
<1>5. new \in [1..k -> E]
  BY <1>2, <1>4
<1>6. w \in [1..n -> E]
  BY <1>2 DEF EventsUpTo
<1>7. /\ \A i \in 1..m : old[i] = EventAt(s, i)
      /\ \A i \in 1..k : new[i] = EventAt(s, m + i)
      /\ \A i \in 1..n : w[i] = EventAt(s, i)
  BY DEF EventsUpTo
<1> HIDE DEF new, old, w, k, E
<1>8. old \in Seq(E) /\ Len(old) = m /\ new \in Seq(E) /\ Len(new) = k
  BY <1>1, <1>3, <1>5, SeqDef, LenProperties
<1>9. old # <<>> /\ new # <<>>
  BY <1>1, <1>8, EmptySeq
<1>10. w = old \o new
  <2> DEFINE p == old \o new
             A == 1..n
  <2>1. /\ p \in Seq(E) /\ Len(p) = n
        /\ \A i \in 1..n : p[i] = IF i <= m THEN old[i] ELSE new[i - m]
    <3>1. /\ p \in Seq(E) /\ Len(p) = Len(old) + Len(new)
          /\ \A i \in 1..(Len(old) + Len(new)) : p[i] = IF i <= Len(old) THEN old[i] ELSE new[i - Len(old)]
      BY <1>8, ConcatProperties
    <3> HIDE DEF p
    <3> QED BY <1>1, <1>8, <3>1
  <2>2. \A i \in A : p[i] = w[i]
    <3> SUFFICES ASSUME NEW i \in 1..n PROVE p[i] = w[i]
      OBVIOUS
    <3>1. CASE i <= m
      <4>1. i \in 1..m /\ p[i] = old[i]
        BY <2>1, <3>1
      <4> QED BY <1>7, <4>1
    <3>2. CASE ~(i <= m)
      <4> DEFINE j == i - m
      <4>1. j \in 1..k /\ m + j = i
        BY <1>1, <3>2
      <4>2. p[i] = new[j]
        BY <2>1, <3>2
      <4> HIDE DEF j, p
      <4> QED BY <1>7, <4>1, <4>2
    <3> QED BY <3>1, <3>2
  <2> HIDE DEF p
  <2>3. p \in [A -> E] /\ w \in [A -> E]
    BY <1>6, <2>1, LenProperties
  <2> HIDE DEF A
  <2>4. p = w
    BY <2>2, <2>3, SameFunctions
  <2> QED BY <2>4 DEF p
<1>11. FirstOf(new) = At(s, m + 1)
  <2>1. 1 \in 1..k /\ m + 1 \in 1..n
    BY <1>1
  <2>2. new[1] = w[m + 1]
    BY <1>7, <2>1
  <2>3. w[m + 1].offset = At(s, m + 1)
    <3> DEFINE j == m + 1
    <3>1. j \in 1..n /\ w[j] = EventAt(s, j)
      BY <1>7, <2>1
    <3> HIDE DEF j
    <3> DEFINE row == rows[s][At(s, j)]
               g == [offset |-> At(s, j), ts |-> row.ts, kind |-> StoredKind(row.payload)]
               f == IF IsBare(row)
                    THEN [NoEvent EXCEPT !.agent = row.payload.agent, !.speaker = Nil, !.content = Nil]
                    ELSE row.event
    <3>2. w[j] = Joined(f, g)
      BY <3>1 DEF EventAt, StoredEvent
    <3>3. "offset" \in DOMAIN g /\ g.offset = At(s, j)
      OBVIOUS
    <3> HIDE DEF f, g
    <3>4. Joined(f, g).offset = g.offset
      BY <3>3 DEF Joined
    <3> QED BY <3>2, <3>3, <3>4 DEF j
  <2> QED BY <2>2, <2>3 DEF FirstOf
<1> QED BY <1>8, <1>9, <1>10, <1>11 DEF old, w, E

\* A rebuild after the insert of the records from the m-th on, when the turns are
\* those of the first m, leaves the turns of all n, whether it takes the suffix
\* from its anchor or everything (rebuild_session_projection_after_insert).
THEOREM SuffixIsRight ==
    ASSUME NEW s \in Sessions, NEW n, Simple(s, n), NEW m \in 0..(n - 1),
           Made(turns[s], s, Seeds(EventsUpTo(s, m)))
    PROVE  /\ Ends(EventsToProject(s, At(s, m + 1)), EventsUpTo(s, n))
           /\ Right(PlanFor(s, At(s, m + 1)), s, n)
<1> DEFINE w == EventsUpTo(s, n)
           first == At(s, m + 1)
           E == AllEvents
<1>1. w \in Seq(E) /\ EventsRise(w) /\ CutsBack(s, w)
  BY EventsAre DEF Simple
<1>2. first \in Nat /\ first # Nil
  <2>1. m + 1 \in 1..written[s]
    BY DEF Simple, StoredTo
  <2> QED BY <2>1, NilAssumption DEF Simple, StoredTo
<1>3. CASE m = 0
  <2>1. DOMAIN turns[s] = {}
    <3>1. EventsUpTo(s, m) = <<>>
      <4> DEFINE z == EventsUpTo(s, m)
      <4>1. z \in [1..0 -> E]
        BY <1>3 DEF EventsUpTo
      <4>2. z \in Seq(E) /\ Len(z) = 0
        BY <4>1, SeqDef, LenProperties
      <4> HIDE DEF z
      <4>3. z = <<>>
        BY <4>2, EmptySeq
      <4> QED BY <4>3 DEF z
    <3>2. Len(<<>>) = 0
      BY EmptySeq
    <3>3. Firsts(<<>>) = {}
      <4> DEFINE q == <<>>
      <4>1. Len(q) = 0
        BY <3>2
      <4> HIDE DEF q
      <4>2. Firsts(q) = {}
        BY <4>1 DEF Firsts
      <4> QED BY <4>2 DEF q
    <3> QED BY <3>1, <3>3, SeedsNone DEF Made
  <2>2. Anchors(s, first) = {}
    BY <2>1 DEF Anchors
  <2>3. EventsToProject(s, first) = SourceEvents(s) /\ PlanFor(s, first) = FullPlan(s)
    BY <2>2 DEF EventsToProject, PlanFor, IsIncremental
  <2>4. SourceEvents(s) = w
    BY SourceIs
  <2>5. Ends(w, w)
    <3> DEFINE u == <<>>
    <3>1. u \in Seq(E) /\ w = u \o w
      <4> HIDE DEF w, E
      <4> QED BY <1>1, EmptySeq, ConcatEmptySeq
    <3>2. Cuts(u, w)
      BY DEF Cuts
    <3> HIDE DEF u, w, E
    <3> QED BY <1>1, <3>1, <3>2 DEF Ends
  <2> QED BY <2>3, <2>4, <2>5, FullIsRight
<1>4. CASE m # 0
  <2> DEFINE old == EventsUpTo(s, m)
             anchor == Max(Anchors(s, first))
  <2>1. m \in 1..(n - 1)
    BY <1>4 DEF Simple, StoredTo
  <2>2. PICK new : /\ old \in Seq(E) /\ new \in Seq(E) /\ old # <<>> /\ new # <<>>
                   /\ w = old \o new /\ FirstOf(new) = first
    BY <2>1, Divided DEF Simple
  <2>3. PICK B : Bearing(E, B)
    BY EventsBear DEF Simple
  <2>4. Made(turns[s], s, Seeds(old))
    OBVIOUS
  <2> HIDE DEF w, E, old
  <2>5. PICK u \in Seq(E), v \in Seq(E) :
              /\ w = u \o v /\ v # <<>> /\ Cuts(u, v)
              /\ Anchors(s, first) # {}
              /\ anchor = FirstOf(v) /\ EventsFrom(s, anchor) = v
              /\ turns[s][anchor].ord = Len(Seeds(u))
              /\ {id \in DOMAIN turns[s] : id < anchor} = Firsts(Seeds(u))
              /\ HoldsTurns(turns[s], s, Seeds(w), Len(Seeds(u)))
    <3> HIDE DEF anchor, first
    <3>1. Grown(E, old, new, w, s)
      BY <1>1, <2>2, <2>4 DEF Grown
    <3>2. \E u \in Seq(E), v \in Seq(E) : Anchored(w, s, FirstOf(new), u, v)
      BY <2>3, <3>1, AnchorSplits
    <3> QED BY <2>2, <3>2 DEF Anchored, anchor
  <2>6. IsIncremental(s, first)
    BY <2>5 DEF IsIncremental, Simple
  <2>7. EventsToProject(s, first) = v
    BY <1>2, <2>5, <2>6 DEF EventsToProject
  <2>8. Ends(v, w)
    BY <2>5 DEF Ends
  <2> DEFINE a == Seeds(u)
             seeds == Seeds(w)
             plan == PlanFor(s, first)
  <2>9. plan = Plan(s, anchor, Len(a), v)
    BY <1>2, <2>5, <2>6 DEF PlanFor
  <2>10. a \in Seq(Seq(E)) /\ seeds = a \o Seeds(v) /\ FirstsRise(seeds)
    BY <1>1, <2>5, SeedAt, SeedsConcat, SeedsRise
  <2>11. Kept(plan) = Firsts(a)
    <3>1. plan.session = s /\ plan.from = anchor
      BY <2>9 DEF Plan
    <3>2. anchor # Nil
      <4>1. anchor = FirstOf(v)
        BY <2>5
      <4>2. FirstOf(v) \in Nat
        <5> DEFINE i == Len(u) + 1
        <5>1. /\ Len(w) = Len(u) + Len(v) /\ Len(u) \in Nat /\ Len(v) \in Nat /\ Len(v) # 0
              /\ \A j \in 1..(Len(u) + Len(v)) : w[j] = IF j <= Len(u) THEN u[j] ELSE v[j - Len(u)]
          BY <2>5, EmptySeq, LenProperties, ConcatProperties
        <5>2. i \in 1..(Len(u) + Len(v)) /\ ~(i <= Len(u)) /\ i - Len(u) = 1
          BY <5>1
        <5> HIDE DEF i
        <5>3. w[i] = v[1] /\ i \in 1..Len(w)
          BY <5>1, <5>2
        <5> QED BY <1>1, <5>3 DEF EventsRise, FirstOf
      <4> QED BY <4>1, <4>2, NilAssumption
    <3> HIDE DEF plan, anchor, a
    <3>3. {id \in DOMAIN turns[s] : id < anchor} = Firsts(a)
      BY <2>5 DEF a
    <3> QED BY <3>1, <3>2, <3>3 DEF Kept
  <2>12. v # <<>> => (s \in story.current => TouchContext(s) = story.context[s])
    BY DEF Simple
  <2>13. HoldsTurns(turns[s], s, seeds, Len(a))
    BY <2>5
  <2>14. Bearing(E, B) /\ a \in Seq(Seq(E)) /\ v \in Seq(E)
    BY <2>3, <2>5, <2>10
  <2> HIDE DEF plan, anchor, a, seeds
  <2>15. /\ plan.session = s
         /\ Cardinality(PlanIds(plan)) = Len(plan.turns) /\ PlanIds(plan) \cap Kept(plan) = {}
         /\ Made(TurnsAfter(plan), s, seeds)
    <3>1. Continues(E, a, v, seeds, s, anchor, plan)
      BY <2>9, <2>10, <2>11, <2>12, <2>13, <2>14, Zenon DEF Continues
    <3> QED BY <2>3, <3>1, PlanMakes DEF Makes
  <2> QED BY <2>7, <2>8, <2>15 DEF Right, plan, seeds, w
<1> QED BY <1>3, <1>4
=============================================================================
