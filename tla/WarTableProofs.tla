---------------------------- MODULE WarTableProofs ----------------------------
(***************************************************************************)
(* Proofs about WarTableThread.  The two folds of the store, of bubbles and *)
(* of rebuilt records, are unfolded once, for both: the last member of the  *)
(* batch is folded in after the others.  What one ingest does to a thread   *)
(* is then carried over a whole batch by induction on its subsets.          *)
(***************************************************************************)
EXTENDS WarTableThread, SumsProofs

(* The least and the greatest of a finite set of integers. *)
LEMMA LeastAndGreatest ==
  ASSUME NEW S, IsFiniteSet(S), S # {}, S \subseteq Int
  PROVE  /\ MaxOf(S) \in S /\ \A x \in S : x <= MaxOf(S)
         /\ MinOf(S) \in S /\ \A x \in S : MinOf(S) <= x
<1> DEFINE Good == {T \in SUBSET S :
                      T # {} => \E u, v \in T : \A x \in T : u <= x /\ x <= v}
<1>1. ASSUME NEW T \in SUBSET S, \A U \in SUBSET T : U # T => U \in Good
      PROVE  T \in Good
  <2> SUFFICES ASSUME T # {}
               PROVE  \E u, v \in T : \A x \in T : u <= x /\ x <= v
    OBVIOUS
  <2>1. PICK y \in T : TRUE
    OBVIOUS
  <2> DEFINE R == T \ {y}
  <2>2. R \in Good
    BY <1>1, <2>1
  <2>3. CASE R = {}
    <3>1. \A x \in T : x = y
      BY <2>3
    <3>2. \A x \in T : y <= x /\ x <= y
      BY <3>1
    <3> QED BY <2>1, <3>2
  <2>4. CASE R # {}
    <3>1. PICK u, v \in R : \A x \in R : u <= x /\ x <= v
      BY <2>2, <2>4
    <3>2. u \in Int /\ v \in Int /\ y \in Int
      BY <2>1
    <3> DEFINE lo == IF y <= u THEN y ELSE u
               hi == IF v <= y THEN y ELSE v
    <3>3. lo \in T /\ hi \in T
      BY <2>1
    <3>4. \A x \in T : lo <= x /\ x <= hi
      BY <3>1, <3>2
    <3> HIDE DEF lo, hi
    <3> QED BY <3>3, <3>4
  <2> QED BY <2>3, <2>4
<1>2. SUBSET S \subseteq Good
  <2> HIDE DEF Good
  <2> QED BY <1>1, SubsetInduction
<1>3. PICK u, v \in S : \A x \in S : u <= x /\ x <= v
  BY <1>2
<1> QED BY <1>3 DEF MaxOf, MinOf

-------------------------------------------------------------------------------
(* The two folds *)

\* A batch is folded in from its last member downwards: of bubbles the one with the
\* greatest id, of reactions the last of the last message.
Picked(how, S) == IF how = "bubbles" THEN LastIn(S) ELSE LastSeeded(S)
FoldedIn(how, ids, x, before) ==
    IF how = "bubbles" THEN ingest(before, x)
    ELSE unionRecord(before, seedReactionRecords(x, ids))

FoldStep(how, ids, base, g, s) ==
    IF s = {} THEN base
    ELSE LET x == Picked(how, s) IN FoldedIn(how, ids, x, g[s \ {x}])

FoldsBy(how, ids, base, g, D) == g = [s \in D |-> FoldStep(how, ids, base, g, s)]

FoldOf(how, ids, base, S) == CHOOSE g : FoldsBy(how, ids, base, g, SUBSET S)

Folded(how, ids, base, S) == FoldOf(how, ids, base, S)[S]

\* The operators of the model are these folds.
LEMMA FoldsAreFolded ==
  ASSUME NEW e, NEW bubbles, NEW records, NEW ids
  PROVE  /\ ingestMessages(e, bubbles) = Folded("bubbles", ids, e, bubbles)
         /\ unionRecords(records, ids) = Folded("records", ids, records, Seeded(ids))
<1>1. ingestMessages(e, bubbles) = Folded("bubbles", ids, e, bubbles)
  BY DEF ingestMessages, MapThenFoldSet, Folded, FoldOf, FoldsBy, FoldStep, FoldedIn, Picked
<1>2. unionRecords(records, ids) = Folded("records", ids, records, Seeded(ids))
  BY DEF unionRecords, MapThenFoldSet, Folded, FoldOf, FoldsBy, FoldStep, FoldedIn, Picked
<1> QED BY <1>1, <1>2

\* The function of the fold exists on the subsets of a finite set.
LEMMA FoldExists ==
  ASSUME NEW how, NEW ids, NEW base, NEW S, IsFiniteSet(S),
         \A T \in SUBSET S : T # {} => Picked(how, T) \in T
  PROVE  FoldsBy(how, ids, base, FoldOf(how, ids, base, S), SUBSET S)
<1> DEFINE Upto(n) == {s \in SUBSET S : Cardinality(s) <= n}
           Good == {n \in Nat : \E g : FoldsBy(how, ids, base, g, Upto(n))}
<1>1. 0 \in Good
  <2> DEFINE g == [s \in Upto(0) |-> base]
  <2>1. \A s \in Upto(0) : s = {}
    <3> SUFFICES ASSUME NEW s \in Upto(0) PROVE s = {}
      OBVIOUS
    <3>1. IsFiniteSet(s)
      BY FS_Subset
    <3>2. Cardinality(s) \in Nat /\ Cardinality(s) <= 0
      BY <3>1, FS_CardinalityType
    <3> QED BY <3>1, <3>2, FS_EmptySet
  <2>2. \A s \in Upto(0) : FoldStep(how, ids, base, g, s) = base
    BY <2>1 DEF FoldStep
  <2>3. g = [s \in Upto(0) |-> FoldStep(how, ids, base, g, s)]
    BY <2>2
  <2> QED BY <2>3 DEF FoldsBy
<1>2. ASSUME NEW n \in Nat, n \in Good PROVE n + 1 \in Good
  <2> PICK g : FoldsBy(how, ids, base, g, Upto(n))
    BY <1>2
  <2> DEFINE h == [s \in Upto(n + 1) |-> FoldStep(how, ids, base, g, s)]
  <2>1. Upto(n) \subseteq Upto(n + 1)
    <3> SUFFICES ASSUME NEW s \in Upto(n) PROVE Cardinality(s) <= n + 1
      OBVIOUS
    <3>1. IsFiniteSet(s)
      BY FS_Subset
    <3>2. Cardinality(s) \in Nat
      BY <3>1, FS_CardinalityType
    <3> QED BY <3>2
  <2>2. \A s \in Upto(n) : h[s] = g[s]
    BY <2>1 DEF FoldsBy
  <2>3. \A s \in Upto(n + 1) : \A x \in s : s \ {x} \in Upto(n)
    <3> SUFFICES ASSUME NEW s \in Upto(n + 1), NEW x \in s
                 PROVE  Cardinality(s \ {x}) <= n
      OBVIOUS
    <3>1. IsFiniteSet(s)
      BY FS_Subset
    <3>2. Cardinality(s) \in Nat /\ Cardinality(s \ {x}) = Cardinality(s) - 1
      BY <3>1, FS_CardinalityType, FS_RemoveElement
    <3> QED BY <3>2
  <2>4. \A s \in Upto(n + 1) : FoldStep(how, ids, base, h, s) = FoldStep(how, ids, base, g, s)
    <3> SUFFICES ASSUME NEW s \in Upto(n + 1), s # {}
                 PROVE  FoldStep(how, ids, base, h, s) = FoldStep(how, ids, base, g, s)
      BY DEF FoldStep
    <3> DEFINE x == Picked(how, s)
    <3>1. x \in s
      OBVIOUS
    <3> HIDE DEF x
    <3>2. h[s \ {x}] = g[s \ {x}]
      BY <3>1, <2>2, <2>3
    <3> HIDE DEF h
    <3> QED BY <3>2 DEF FoldStep, x
  <2>5. FoldsBy(how, ids, base, h, Upto(n + 1))
    BY <2>4 DEF FoldsBy
  <2>6. \E k : FoldsBy(how, ids, base, k, Upto(n + 1))
    <3> HIDE DEF h, Upto
    <3> QED BY <2>5
  <2>7. n + 1 \in Nat
    OBVIOUS
  <2> HIDE DEF h, Upto
  <2> QED BY <2>6, <2>7
<1>3. Nat \subseteq Good
  <2> HIDE DEF Good
  <2> QED BY <1>1, <1>2, NatSetInduction
<1>4. Cardinality(S) \in Nat
  BY FS_CardinalityType
<1>5. Upto(Cardinality(S)) = SUBSET S
  BY FS_Subset
<1>6. \E g : FoldsBy(how, ids, base, g, SUBSET S)
  BY <1>3, <1>4, <1>5
<1> QED BY <1>6 DEF FoldOf

\* It says the same of a set, whatever the larger set it was built for.
LEMMA FoldAgrees ==
  ASSUME NEW how, NEW ids, NEW base, NEW S, IsFiniteSet(S),
         \A T \in SUBSET S : T # {} => Picked(how, T) \in T,
         NEW T \in SUBSET S
  PROVE  FoldOf(how, ids, base, S)[T] = Folded(how, ids, base, T)
<1> DEFINE g == FoldOf(how, ids, base, S)
           h == FoldOf(how, ids, base, T)
           Good == {s \in SUBSET T : g[s] = h[s]}
<1>1. IsFiniteSet(T) /\ \A U \in SUBSET T : U # {} => Picked(how, U) \in U
  BY FS_Subset
<1>2. FoldsBy(how, ids, base, g, SUBSET S) /\ FoldsBy(how, ids, base, h, SUBSET T)
  BY <1>1, FoldExists
<1>3. ASSUME NEW s \in SUBSET T, \A u \in SUBSET s : u # s => u \in Good
      PROVE  s \in Good
  <2>1. g[s] = FoldStep(how, ids, base, g, s) /\ h[s] = FoldStep(how, ids, base, h, s)
    <3> HIDE DEF g, h
    <3> QED BY <1>2 DEF FoldsBy
  <2>2. CASE s = {}
    BY <2>1, <2>2 DEF FoldStep
  <2>3. CASE s # {}
    <3> DEFINE x == Picked(how, s)
    <3>1. x \in s
      BY <2>3
    <3>2. g[s \ {x}] = h[s \ {x}]
      BY <3>1, <1>3
    <3> HIDE DEF g, h
    <3> QED BY <2>1, <2>3, <3>2 DEF FoldStep
  <2> QED BY <2>2, <2>3
<1>4. SUBSET T \subseteq Good
  <2> HIDE DEF Good
  <2> QED BY <1>1, <1>3, SubsetInduction
<1>5. g[T] = h[T]
  BY <1>4
<1> QED BY <1>5 DEF Folded

\* What was picked is folded in after the others.
LEMMA FoldUnfolds ==
  ASSUME NEW how, NEW ids, NEW base, NEW S, IsFiniteSet(S),
         \A T \in SUBSET S : T # {} => Picked(how, T) \in T
  PROVE  /\ Folded(how, ids, base, {}) = base
         /\ S # {} => LET x == Picked(how, S) IN
               Folded(how, ids, base, S) = FoldedIn(how, ids, x, Folded(how, ids, base, S \ {x}))
<1>1. Folded(how, ids, base, {}) = base
  <2> DEFINE g == FoldOf(how, ids, base, {})
  <2>1. FoldsBy(how, ids, base, g, SUBSET {})
    BY FoldExists, FS_EmptySet
  <2> HIDE DEF g
  <2>2. g[{}] = FoldStep(how, ids, base, g, {})
    BY <2>1 DEF FoldsBy
  <2> QED BY <2>2 DEF FoldStep, Folded, g
<1>2. ASSUME S # {}, NEW x, x = Picked(how, S)
      PROVE  Folded(how, ids, base, S) = FoldedIn(how, ids, x, Folded(how, ids, base, S \ {x}))
  <2> DEFINE g == FoldOf(how, ids, base, S)
  <2>1. FoldsBy(how, ids, base, g, SUBSET S)
    BY FoldExists
  <2>2. g[S \ {x}] = Folded(how, ids, base, S \ {x})
    BY FoldAgrees
  <2> HIDE DEF g
  <2>3. g[S] = FoldStep(how, ids, base, g, S)
    BY <2>1 DEF FoldsBy
  <2>4. g[S] = FoldedIn(how, ids, x, g[S \ {x}])
    BY <1>2, <2>3 DEF FoldStep
  <2>5. Folded(how, ids, base, S) = g[S]
    BY DEF Folded, g
  <2> QED BY <2>2, <2>4, <2>5
<1> QED BY <1>1, <1>2

\* The members of a finite set of bubbles have finitely many ids.
LEMMA IdsFinite ==
  ASSUME NEW B, IsFiniteSet(B)
  PROVE  IsFiniteSet(Ids(B))
<1> DEFINE f == [b \in B |-> b.id]
<1>1. f \in Surjection(B, Ids(B))
  BY DEF Ids, Surjection
<1> HIDE DEF f
<1> QED BY <1>1, FS_Surjection

\* The last of a batch of bubbles.
LEMMA LastBubble ==
  ASSUME NEW B, IsFiniteSet(B), B # {}, \A b \in B : b.id \in Int
  PROVE  LastIn(B) \in B /\ \A b \in B : b.id <= LastIn(B).id
<1>1. Ids(B) # {} /\ Ids(B) \subseteq Int /\ \A b \in B : b.id \in Ids(B)
  BY DEF Ids
<1>2. MaxOf(Ids(B)) \in Ids(B) /\ \A i \in Ids(B) : i <= MaxOf(Ids(B))
  BY <1>1, IdsFinite, LeastAndGreatest
<1>3. PICK b \in B : b.id = MaxOf(Ids(B))
  BY <1>2 DEF Ids
<1>4. \A d \in B : d.id <= b.id
  BY <1>1, <1>2, <1>3
<1> QED BY <1>3, <1>4 DEF LastIn

\* A batch of bubbles, unfolded.
LEMMA BatchUnfolds ==
  ASSUME NEW e, NEW B, IsFiniteSet(B), \A b \in B : b.id \in Int
  PROVE  /\ ingestMessages(e, {}) = e
         /\ B # {} => \E x \in B :
               /\ \A b \in B : b.id <= x.id
               /\ ingestMessages(e, B) = ingest(ingestMessages(e, B \ {x}), x)
<1>1. \A T \in SUBSET B : T # {} => Picked("bubbles", T) \in T
  <2> SUFFICES ASSUME NEW T \in SUBSET B, T # {} PROVE Picked("bubbles", T) \in T
    OBVIOUS
  <2>1. IsFiniteSet(T) /\ \A b \in T : b.id \in Int
    BY FS_Subset
  <2> QED BY <2>1, LastBubble DEF Picked
<1>2. Folded("bubbles", {}, e, {}) = e
  BY <1>1, FoldUnfolds
<1>3. ASSUME B # {}, NEW x, x = LastIn(B)
      PROVE  Folded("bubbles", {}, e, B) = ingest(Folded("bubbles", {}, e, B \ {x}), x)
  <2>1. x = Picked("bubbles", B)
    BY <1>3 DEF Picked
  <2>2. Folded("bubbles", {}, e, B) = FoldedIn("bubbles", {}, x, Folded("bubbles", {}, e, B \ {x}))
    BY <1>1, <1>3, <2>1, FoldUnfolds
  <2> QED BY <2>2 DEF FoldedIn
<1>4. \A T : ingestMessages(e, T) = Folded("bubbles", {}, e, T)
  BY FoldsAreFolded
<1> QED BY <1>2, <1>3, <1>4, LastBubble

\* Reactions in the order they are rebuilt in: by message, and in a message by age.
NotAfter(j, i) ==
    \/ chain[j].parent < chain[i].parent
    \/ chain[j].parent = chain[i].parent /\ j <= i

\* The last of them.
LEMMA LastReaction ==
  ASSUME NEW R, IsFiniteSet(R), R # {}, \A i \in R : i \in Int /\ chain[i].parent \in Int
  PROVE  LastSeeded(R) \in R /\ \A j \in R : NotAfter(j, LastSeeded(R))
<1> DEFINE f == [i \in R |-> chain[i].parent]
           P == {chain[i].parent : i \in R}
<1>1. IsFiniteSet(P)
  <2>1. f \in Surjection(R, P)
    BY DEF Surjection
  <2> HIDE DEF f, P
  <2> QED BY <2>1, FS_Surjection
<1>2. P # {} /\ P \subseteq Int
  OBVIOUS
<1>3. MaxOf(P) \in P /\ \A p \in P : p <= MaxOf(P)
  <2> HIDE DEF P
  <2> QED BY <1>1, <1>2, LeastAndGreatest
<1> DEFINE m == MaxOf(P)
           L == {i \in R : chain[i].parent = m}
<1>4. IsFiniteSet(L) /\ L \subseteq Int
  BY FS_Subset
<1>5. L # {}
  BY <1>3
<1> HIDE DEF m
<1>6. MaxOf(L) \in L /\ \A i \in L : i <= MaxOf(L)
  <2> HIDE DEF L
  <2> QED BY <1>4, <1>5, LeastAndGreatest
<1> DEFINE x == MaxOf(L)
<1>7. x \in R /\ chain[x].parent = m
  BY <1>6
<1>8. \A j \in R : chain[j].parent < m \/ (chain[j].parent = m /\ j <= x)
  <2> SUFFICES ASSUME NEW j \in R, chain[j].parent # m PROVE chain[j].parent < m
    BY <1>6
  <2>1. chain[j].parent \in P /\ m \in Int
    BY <1>3 DEF m
  <2>2. chain[j].parent \in Int
    BY <1>2, <2>1
  <2> HIDE DEF P
  <2>3. chain[j].parent <= m
    BY <1>3, <2>1 DEF m
  <2> QED BY <2>1, <2>2, <2>3
<1> HIDE DEF x
<1>9. \A j \in R : NotAfter(j, x)
  <2> SUFFICES ASSUME NEW j \in R PROVE NotAfter(j, x)
    OBVIOUS
  <2>1. m = chain[x].parent
    BY <1>7
  <2>2. chain[j].parent < chain[x].parent \/ (chain[j].parent = chain[x].parent /\ j <= x)
    BY <1>8, <2>1
  <2> QED BY <2>2 DEF NotAfter
<1> QED BY <1>7, <1>9 DEF LastSeeded, NotAfter

\* The rebuilding of records, unfolded.
LEMMA SeedsUnfold ==
  ASSUME NEW records, NEW ids, NEW R, IsFiniteSet(R),
         \A i \in R : i \in Int /\ chain[i].parent \in Int
  PROVE  /\ Folded("records", ids, records, {}) = records
         /\ R # {} => \E x \in R :
               /\ \A j \in R : NotAfter(j, x)
               /\ Folded("records", ids, records, R) =
                     unionRecord(Folded("records", ids, records, R \ {x}), seedReactionRecords(x, ids))
<1>1. \A T \in SUBSET R : T # {} => Picked("records", T) \in T
  <2> SUFFICES ASSUME NEW T \in SUBSET R, T # {} PROVE Picked("records", T) \in T
    OBVIOUS
  <2>1. IsFiniteSet(T) /\ \A i \in T : i \in Int /\ chain[i].parent \in Int
    BY FS_Subset
  <2> QED BY <2>1, LastReaction DEF Picked
<1>2. Folded("records", ids, records, {}) = records
  BY <1>1, FoldUnfolds
<1>3. ASSUME R # {}, NEW x, x = LastSeeded(R)
      PROVE  Folded("records", ids, records, R) =
               unionRecord(Folded("records", ids, records, R \ {x}), seedReactionRecords(x, ids))
  <2>1. x = Picked("records", R)
    BY <1>3 DEF Picked
  <2>2. Folded("records", ids, records, R)
          = FoldedIn("records", ids, x, Folded("records", ids, records, R \ {x}))
    BY <1>1, <1>3, <2>1, FoldUnfolds
  <2> QED BY <2>2 DEF FoldedIn
<1> QED BY <1>2, <1>3, LastReaction

-------------------------------------------------------------------------------
(* What is true of the chain, of the reader's posts and of the store *)

\* Message m fits a chain whose first n messages are those of c.
Fits(c, n, m) ==
    /\ m \in WtMessage
    /\ m.kind = "text" => m.body \in Bodies
    /\ m.kind = "reaction" =>
          m.body = NoText /\ m.parent \in 1 .. n /\ c[m.parent].kind = "text"
    /\ m.kind = "pin" => m.parent \in 0 .. n
    /\ m.kind = "tombstone" => m.parent \in 1 .. n /\ c[m.parent].kind # "tombstone"

ChainFine(c) ==
    /\ c \in Seq(WtMessage) /\ Len(c) <= MaxPosts
    /\ \A i \in DOMAIN c : Fits(c, i - 1, c[i])

\* A post that has landed is the message it landed as.
PostFine(c, p) ==
    /\ p \in [msg : WtMessage, at : Nat, failed : BOOLEAN]
    /\ Fits(c, Len(c), p.msg) /\ p.msg.sender = Me
    /\ p.at # 0 => p.at \in DOMAIN c /\ c[p.at] = p.msg

PostsFine(c, ps) ==
    /\ Len(ps) \in Nat /\ DOMAIN ps = 1 .. Len(ps) /\ Len(ps) <= MaxEchoes
    /\ \A k \in DOMAIN ps : PostFine(c, ps[k])

WorldFine(c, ps) == ChainFine(c) /\ PostsFine(c, ps)

\* A bubble is an echo of a post, or a message of the chain, hidden or not.
GoodBubble(c, ps, b) ==
    /\ b \in Bubble
    /\ b.pending =>
          ~b.tombstoned /\ \E k \in DOMAIN ps : b.id = MaxPosts + k /\ b.msg = ps[k].msg
    /\ ~b.pending => b.id \in DOMAIN c
    /\ ~b.pending /\ ~b.tombstoned => b.msg = c[b.id]
    /\ ~b.pending /\ b.tombstoned =>
          c[b.id].kind = "text" /\ b.msg = [c[b.id] EXCEPT !.body = NoText]

MessagesFine(c, ps, M) ==
    /\ IsFiniteSet(M)
    /\ \A a, b \in M : a.id = b.id => a = b
    /\ \A b \in M : GoodBubble(c, ps, b) /\ b.msg.kind \in {"text", "tombstone"}

\* A record is an echo of a post, a reaction on the chain, or rebuilt.
GoodRecord(c, ps, r) ==
    /\ r \in ReactionRecord
    /\ r.parent \in DOMAIN c /\ c[r.parent].kind = "text"
    /\ r.pending =>
          \E k \in DOMAIN ps :
             /\ r.id = MaxPosts + k /\ ps[k].msg = Message("reaction", Me, r.parent, NoText)
             /\ r.sender = Me
    /\ ~r.pending /\ r.id # SEED_ID =>
          r.id \in DOMAIN c /\ c[r.id].kind = "reaction" /\ c[r.id].parent = r.parent

RecordsFine(c, ps, rs) ==
    /\ IsFiniteSet(DOMAIN rs) /\ DOMAIN rs \subseteq Nat
    /\ rs = [k \in DOMAIN rs |-> rs[k]]
    /\ \A k \in DOMAIN rs : GoodRecord(c, ps, rs[k])

\* The pin of the store is an echo's, or of a pin on the chain, or of none.
PinFine(c, ps, e) ==
    /\ e.pinnedId \in {0} \cup DOMAIN c
    /\ e.pinPending => \E k \in DOMAIN ps : e.maxPinId = MaxPosts + k
    /\ ~e.pinPending => e.maxPinId = 0 \/ (e.maxPinId \in DOMAIN c /\ c[e.maxPinId].kind = "pin")

ThreadFine(c, ps, e) ==
    /\ e \in ThreadEntry
    /\ MessagesFine(c, ps, e.messages)
    /\ RecordsFine(c, ps, e.reactionRecords)
    /\ PinFine(c, ps, e)
    /\ \A i \in e.pendingTombstones : i \in DOMAIN c /\ c[i].kind # "tombstone"

-------------------------------------------------------------------------------
(* What follows of bubbles and records *)

\* The ids of the chain come before those of the echoes.
LEMMA IdsApart ==
  ASSUME NEW c, NEW ps, WorldFine(c, ps)
  PROVE  /\ MaxPosts \in Nat /\ MaxEchoes \in Nat
         /\ Len(c) \in Nat /\ DOMAIN c = 1 .. Len(c) /\ Len(c) <= MaxPosts
         /\ DOMAIN c \subseteq ChainIds
         /\ \A k \in DOMAIN ps : MaxPosts + k \in TempIds /\ MaxPosts + k \notin ChainIds
         /\ \A i \in DOMAIN c : c[i] \in WtMessage
<1>1. MaxPosts \in Nat /\ MaxEchoes \in Nat
  BY WarTableAssumption
<1>2. c \in Seq(WtMessage) /\ Len(c) <= MaxPosts
  BY DEF WorldFine, ChainFine
<1>3. Len(c) \in Nat /\ DOMAIN c = 1 .. Len(c) /\ \A i \in DOMAIN c : c[i] \in WtMessage
  BY <1>2
<1>4. \A k \in DOMAIN ps : k \in Nat /\ 1 <= k /\ k <= MaxEchoes
  BY <1>1 DEF WorldFine, PostsFine
<1> QED BY <1>1, <1>2, <1>3, <1>4 DEF ChainIds, TempIds

\* What a bubble's message can be.
LEMMA BubbleFits ==
  ASSUME NEW c, NEW ps, WorldFine(c, ps), NEW b, GoodBubble(c, ps, b)
  PROVE  /\ b.msg \in WtMessage /\ b.id \in Int /\ b.id > 0 /\ b.pending \in BOOLEAN
         /\ b.tombstoned \in BOOLEAN /\ b.chips \in Chips
         /\ b.pending <=> b.id \notin DOMAIN c
         /\ b.pending => b.id \notin ChainIds /\ b.id \in TempIds
         /\ b.msg.kind = "reaction" =>
               b.msg.body = NoText /\ b.msg.parent \in DOMAIN c /\ c[b.msg.parent].kind = "text"
         /\ b.msg.kind = "pin" => b.msg.parent \in {0} \cup DOMAIN c
         /\ b.msg.kind = "tombstone" =>
               b.msg.parent \in DOMAIN c /\ c[b.msg.parent].kind # "tombstone"
         /\ ~b.pending => /\ b.msg.kind = c[b.id].kind /\ b.msg.parent = c[b.id].parent
                          /\ b.msg.sender = c[b.id].sender
                          /\ b.msg.kind \in {"reaction", "tombstone"} => b.msg.parent < b.id
<1>1. /\ b.msg \in WtMessage /\ b.id \in ChainIds \cup TempIds /\ b.pending \in BOOLEAN
      /\ b.tombstoned \in BOOLEAN /\ b.chips \in Chips
  BY DEF GoodBubble, Bubble
<1>2. b.id \in Int /\ b.id > 0
  BY <1>1, WarTableAssumption DEF ChainIds, TempIds
<1>3. CASE b.pending
  <2>1. PICK k \in DOMAIN ps : b.id = MaxPosts + k /\ b.msg = ps[k].msg
    BY <1>3 DEF GoodBubble
  <2>2. b.id \in TempIds /\ b.id \notin ChainIds
    BY <2>1, IdsApart
  <2>3. Fits(c, Len(c), b.msg)
    BY <2>1 DEF WorldFine, PostsFine, PostFine
  <2> QED BY <1>1, <1>2, <1>3, <2>2, <2>3, IdsApart DEF Fits
<1>4. CASE ~b.pending
  <2>1. b.id \in DOMAIN c /\ DOMAIN c = 1 .. Len(c) /\ Len(c) \in Nat /\ c[b.id] \in WtMessage
    BY <1>4, IdsApart DEF GoodBubble
  <2>2. Fits(c, b.id - 1, c[b.id])
    BY <2>1 DEF WorldFine, ChainFine
  <2>3. CASE b.tombstoned
    <3>1. c[b.id].kind = "text" /\ b.msg = [c[b.id] EXCEPT !.body = NoText]
      BY <1>4, <2>3 DEF GoodBubble
    <3>2. b.msg.kind = "text" /\ b.msg.parent = c[b.id].parent /\ b.msg.sender = c[b.id].sender
      BY <2>1, <3>1 DEF WtMessage
    <3> QED BY <1>1, <1>2, <1>4, <2>1, <3>1, <3>2
  <2>4. CASE ~b.tombstoned
    <3>1. b.msg = c[b.id]
      BY <1>4, <2>4 DEF GoodBubble
    <3>2. Fits(c, b.id - 1, b.msg)
      BY <2>2, <3>1
    <3>3. /\ b.msg.kind = "reaction" =>
               b.msg.body = NoText /\ b.msg.parent \in 1 .. b.id - 1 /\ c[b.msg.parent].kind = "text"
          /\ b.msg.kind = "pin" => b.msg.parent \in 0 .. b.id - 1
          /\ b.msg.kind = "tombstone" =>
               b.msg.parent \in 1 .. b.id - 1 /\ c[b.msg.parent].kind # "tombstone"
      BY <3>2 DEF Fits
    <3>4. 1 .. b.id - 1 \subseteq DOMAIN c /\ 0 .. b.id - 1 \subseteq {0} \cup DOMAIN c
      BY <2>1
    <3>5. \A i \in 1 .. b.id - 1 : i < b.id
      BY <1>2
    <3> QED BY <1>1, <1>2, <1>4, <2>1, <3>1, <3>3, <3>4, <3>5
  <2> QED BY <1>1, <2>3, <2>4
<1> QED BY <1>1, <1>3, <1>4

\* A message hidden is a good bubble still.
LEMMA HiddenGood ==
  ASSUME NEW c, NEW ps, WorldFine(c, ps), NEW b, GoodBubble(c, ps, b),
         ~b.pending, b.msg.kind = "text"
  PROVE  /\ GoodBubble(c, ps, Hidden(b)) /\ Hidden(b).id = b.id /\ Hidden(b).tombstoned
         /\ ~Hidden(b).pending /\ Hidden(b).chips = b.chips /\ Hidden(b).msg.kind = "text"
         /\ Hidden(b).msg.sender = b.msg.sender /\ Hidden(b).msg.parent = b.msg.parent
<1>1. b \in Bubble /\ b.msg \in WtMessage
  BY DEF GoodBubble, Bubble
<1> DEFINE m == [b.msg EXCEPT !.body = NoText]
           h == [b EXCEPT !.msg = m, !.tombstoned = TRUE]
<1>2. h = Hidden(b)
  <2>1. Hidden(b) = [b EXCEPT !.msg = [b.msg EXCEPT !.body = NoText], !.tombstoned = TRUE]
    BY <1>1 DEF Hidden, Bubble
  <2> QED BY <2>1
<1>3. m \in WtMessage /\ m.kind = "text" /\ m.sender = b.msg.sender /\ m.parent = b.msg.parent
  BY <1>1 DEF WtMessage
<1>4. b.id \in DOMAIN c /\ c[b.id] \in WtMessage /\ c[b.id].kind = "text"
  <2>1. b.id \in DOMAIN c
    BY DEF GoodBubble
  <2>2. c[b.id].kind = b.msg.kind
    BY BubbleFits
  <2> QED BY <2>1, <2>2, IdsApart
<1>5. m = [c[b.id] EXCEPT !.body = NoText]
  <2>1. CASE b.tombstoned
    <3>1. b.msg = [c[b.id] EXCEPT !.body = NoText]
      BY <2>1 DEF GoodBubble
    <3> QED BY <1>1, <1>4, <3>1 DEF WtMessage
  <2>2. CASE ~b.tombstoned
    BY <2>2 DEF GoodBubble
  <2> QED BY <2>1, <2>2
<1> HIDE DEF m
<1>6. /\ h \in Bubble /\ h.id = b.id /\ h.tombstoned = TRUE /\ h.pending = b.pending
      /\ h.chips = b.chips /\ h.msg = m
  BY <1>1, <1>3 DEF Bubble
<1> HIDE DEF h
<1>7. GoodBubble(c, ps, h)
  BY <1>4, <1>5, <1>6 DEF GoodBubble
<1> QED BY <1>2, <1>3, <1>6, <1>7

\* So is one with other chips.
LEMMA ChipsGood ==
  ASSUME NEW c, NEW ps, NEW b, GoodBubble(c, ps, b), NEW x \in Chips
  PROVE  LET d == [b EXCEPT !.chips = x] IN
         /\ GoodBubble(c, ps, d) /\ d.id = b.id /\ d.msg = b.msg
         /\ d.tombstoned = b.tombstoned /\ d.pending = b.pending /\ d.chips = x
<1> DEFINE d == [b EXCEPT !.chips = x]
<1>1. b \in Bubble
  BY DEF GoodBubble
<1>2. /\ d \in Bubble /\ d.id = b.id /\ d.msg = b.msg
      /\ d.tombstoned = b.tombstoned /\ d.pending = b.pending /\ d.chips = x
  BY <1>1 DEF Bubble
<1> HIDE DEF d
<1>3. GoodBubble(c, ps, d)
  BY <1>2 DEF GoodBubble
<1> QED BY <1>2, <1>3 DEF d

\* The summary of finitely many records is a chip.
LEMMA SummaryIsChips ==
  ASSUME NEW rs, IsFiniteSet(DOMAIN rs), NEW m
  PROVE  summarizeReactions(rs, m) \in Chips
<1>1. \A w \in Wallets :
        Cardinality({k \in RecordsOf(rs, m) : rs[k].sender = w /\ ~rs[k].tombstoned}) \in Nat
  <2> SUFFICES ASSUME NEW w \in Wallets
               PROVE  Cardinality({k \in RecordsOf(rs, m) : rs[k].sender = w /\ ~rs[k].tombstoned}) \in Nat
    OBVIOUS
  <2>1. {k \in RecordsOf(rs, m) : rs[k].sender = w /\ ~rs[k].tombstoned} \in SUBSET DOMAIN rs
    BY DEF RecordsOf
  <2> QED BY <2>1, FS_Subset, FS_CardinalityType
<1> QED BY <1>1 DEF summarizeReactions, Chips

\* Records of a fine store are typed as the store's are.
LEMMA RecordsTyped ==
  ASSUME NEW c, NEW ps, NEW rs, RecordsFine(c, ps, rs)
  PROVE  rs \in ReactionRecords
<1>1. rs \in [DOMAIN rs -> ReactionRecord] /\ DOMAIN rs \in SUBSET Nat
  BY DEF RecordsFine, GoodRecord
<1> QED BY <1>1 DEF ReactionRecords

\* Record r lies after those of rs.
PushedTo(rs, r, after) ==
    \E p \in Nat :
       /\ p \notin DOMAIN rs /\ \A k \in DOMAIN rs : k < p
       /\ DOMAIN after = DOMAIN rs \cup {p}
       /\ after[p] = r
       /\ \A k \in DOMAIN rs : after[k] = rs[k]

\* A record that comes is the last one.
LEMMA PushFine ==
  ASSUME NEW c, NEW ps, NEW rs, RecordsFine(c, ps, rs), NEW r, GoodRecord(c, ps, r)
  PROVE  RecordsFine(c, ps, Push(rs, r)) /\ PushedTo(rs, r, Push(rs, r))
<1> DEFINE D == {0} \cup DOMAIN rs
           p == MaxOf(D) + 1
<1>1. IsFiniteSet(D) /\ D # {} /\ D \subseteq Int /\ D \subseteq Nat
  <2>1. IsFiniteSet(DOMAIN rs) /\ DOMAIN rs \subseteq Nat
    BY DEF RecordsFine
  <2>2. IsFiniteSet(DOMAIN rs \cup {0})
    BY <2>1, FS_AddElement
  <2> QED BY <2>1, <2>2
<1>2. MaxOf(D) \in D /\ \A x \in D : x <= MaxOf(D)
  <2> HIDE DEF D
  <2> QED BY <1>1, LeastAndGreatest
<1>3. p \in Nat /\ \A k \in DOMAIN rs : k < p
  BY <1>1, <1>2
<1>4. Push(rs, r) = [k \in DOMAIN rs \cup {p} |-> IF k = p THEN r ELSE rs[k]]
  BY DEF Push
<1> HIDE DEF p, D
<1>5. p \notin DOMAIN rs
  BY <1>3
<1>6. /\ DOMAIN Push(rs, r) = DOMAIN rs \cup {p} /\ Push(rs, r)[p] = r
      /\ \A k \in DOMAIN rs : Push(rs, r)[k] = rs[k]
  BY <1>4, <1>5
<1>7. RecordsFine(c, ps, Push(rs, r))
  <2>1. IsFiniteSet(DOMAIN rs \cup {p})
    BY FS_AddElement DEF RecordsFine
  <2>2. DOMAIN rs \subseteq Nat /\ \A k \in DOMAIN rs : GoodRecord(c, ps, rs[k])
    BY DEF RecordsFine
  <2>3. Push(rs, r) = [k \in DOMAIN Push(rs, r) |-> Push(rs, r)[k]]
    BY <1>4
  <2> QED BY <1>3, <1>6, <2>1, <2>2, <2>3 DEF RecordsFine
<1>8. PushedTo(rs, r, Push(rs, r))
  BY <1>3, <1>5, <1>6 DEF PushedTo
<1> QED BY <1>7, <1>8

\* Records that go leave the others as they were.
LEMMA WithoutFine ==
  ASSUME NEW c, NEW ps, NEW rs, RecordsFine(c, ps, rs), NEW G
  PROVE  /\ RecordsFine(c, ps, Without(rs, G))
         /\ DOMAIN Without(rs, G) = DOMAIN rs \ G
         /\ \A k \in DOMAIN rs \ G : Without(rs, G)[k] = rs[k]
<1>1. Without(rs, G) = [k \in DOMAIN rs \ G |-> rs[k]]
  BY DEF Without, Restrict
<1>2. IsFiniteSet(DOMAIN rs \ G)
  BY FS_Subset DEF RecordsFine
<1>3. Without(rs, G) = [k \in DOMAIN Without(rs, G) |-> Without(rs, G)[k]]
  BY <1>1
<1> QED BY <1>1, <1>2, <1>3 DEF RecordsFine

-------------------------------------------------------------------------------
(* What the store does to its bubbles *)

\* The bubbles of N are those of M, but for their chips.
Stays(b, d) ==
    d.id = b.id /\ d.msg = b.msg /\ d.pending = b.pending /\ d.tombstoned = b.tombstoned
Restamped(M, N) ==
    /\ \A d \in N : \E b \in M : Stays(b, d)
    /\ \A b \in M : \E d \in N : Stays(b, d)

\* Fewer bubbles are fine as well.
LEMMA FewerFine ==
  ASSUME NEW c, NEW ps, NEW M, MessagesFine(c, ps, M), NEW N \in SUBSET M
  PROVE  MessagesFine(c, ps, N)
<1>1. IsFiniteSet(N)
  BY FS_Subset DEF MessagesFine
<1> QED BY <1>1 DEF MessagesFine

\* The image of the bubbles under a function that keeps ids and kinds.
LEMMA ImageFine ==
  ASSUME NEW c, NEW ps, NEW M, MessagesFine(c, ps, M), NEW f,
         \A b \in M : GoodBubble(c, ps, f[b]) /\ f[b].id = b.id /\ f[b].msg.kind = b.msg.kind
  PROVE  MessagesFine(c, ps, {f[b] : b \in M})
<1> DEFINE N == {f[b] : b \in M}
           h == [b \in M |-> f[b]]
<1>1. IsFiniteSet(N)
  <2>1. h \in Surjection(M, N)
    BY DEF Surjection
  <2>2. IsFiniteSet(M)
    BY DEF MessagesFine
  <2> HIDE DEF h, N
  <2> QED BY <2>1, <2>2, FS_Surjection
<1>2. \A a, b \in N : a.id = b.id => a = b
  <2> SUFFICES ASSUME NEW a \in N, NEW b \in N, a.id = b.id PROVE a = b
    OBVIOUS
  <2>1. PICK u, v \in M : a = f[u] /\ b = f[v]
    OBVIOUS
  <2>2. u.id = v.id
    BY <2>1
  <2>3. u = v
    BY <2>2 DEF MessagesFine
  <2> QED BY <2>1, <2>3
<1>3. \A b \in N : GoodBubble(c, ps, b) /\ b.msg.kind \in {"text", "tombstone"}
  BY DEF MessagesFine
<1> QED BY <1>1, <1>2, <1>3 DEF MessagesFine

\* New chips for some of the bubbles.
Restamp(M, X, rs) ==
    {IF b.id \in X THEN [b EXCEPT !.chips = summarizeReactions(rs, b.id)] ELSE b : b \in M}

\* They are the same bubbles.
LEMMA RestampFine ==
  ASSUME NEW c, NEW ps, NEW M, MessagesFine(c, ps, M), NEW rs, IsFiniteSet(DOMAIN rs), NEW X
  PROVE  /\ MessagesFine(c, ps, Restamp(M, X, rs)) /\ Restamped(M, Restamp(M, X, rs))
         /\ \A d \in Restamp(M, X, rs) :
               IF d.id \in X THEN d.chips = summarizeReactions(rs, d.id) ELSE d \in M
<1> DEFINE F(b) == IF b.id \in X THEN [b EXCEPT !.chips = summarizeReactions(rs, b.id)] ELSE b
           N == {F(b) : b \in M}
           f == [b \in M |-> F(b)]
<1>1. ASSUME NEW b \in M
      PROVE  /\ GoodBubble(c, ps, F(b)) /\ Stays(b, F(b))
             /\ IF F(b).id \in X THEN F(b).chips = summarizeReactions(rs, F(b).id) ELSE F(b) \in M
  <2>1. GoodBubble(c, ps, b)
    BY DEF MessagesFine
  <2>2. CASE b.id \in X
    <3> DEFINE d == [b EXCEPT !.chips = summarizeReactions(rs, b.id)]
    <3>1. summarizeReactions(rs, b.id) \in Chips
      BY SummaryIsChips
    <3>2. /\ GoodBubble(c, ps, d) /\ d.id = b.id /\ d.msg = b.msg
          /\ d.tombstoned = b.tombstoned /\ d.pending = b.pending
          /\ d.chips = summarizeReactions(rs, b.id)
      BY <2>1, <3>1, ChipsGood
    <3>3. F(b) = d
      BY <2>2
    <3> HIDE DEF d
    <3> QED BY <2>2, <3>2, <3>3 DEF Stays
  <2>3. CASE b.id \notin X
    BY <2>1, <2>3 DEF Stays
  <2> QED BY <2>2, <2>3
<1>2. \A b \in M : f[b] = F(b)
  OBVIOUS
<1>3. {f[b] : b \in M} = N
  BY <1>2
<1> HIDE DEF F
<1>4. MessagesFine(c, ps, {f[b] : b \in M})
  <2>1. \A b \in M : GoodBubble(c, ps, f[b]) /\ f[b].id = b.id /\ f[b].msg.kind = b.msg.kind
    BY <1>1, <1>2 DEF Stays
  <2> HIDE DEF f
  <2> QED BY <2>1, ImageFine
<1>5. Restamped(M, N)
  BY <1>1 DEF Restamped
<1>6. \A d \in N : IF d.id \in X THEN d.chips = summarizeReactions(rs, d.id) ELSE d \in M
  BY <1>1
<1>7. N = Restamp(M, X, rs)
  BY DEF Restamp, F
<1> QED BY <1>3, <1>4, <1>5, <1>6, <1>7

\* New chips for one of them.
LEMMA ApplyReactionsFine ==
  ASSUME NEW c, NEW ps, NEW M, MessagesFine(c, ps, M), NEW rs, IsFiniteSet(DOMAIN rs), NEW m
  PROVE  LET N == applyReactions(M, m, rs) IN
         /\ MessagesFine(c, ps, N) /\ Restamped(M, N)
         /\ \A d \in N : IF d.id = m THEN d.chips = summarizeReactions(rs, d.id) ELSE d \in M
<1> DEFINE N == Restamp(M, {m}, rs)
<1>1. applyReactions(M, m, rs) = N
  <2>1. \A b \in M :
          (IF b.id = m THEN [b EXCEPT !.chips = summarizeReactions(rs, m)] ELSE b)
            = (IF b.id \in {m} THEN [b EXCEPT !.chips = summarizeReactions(rs, b.id)] ELSE b)
    OBVIOUS
  <2> QED BY <2>1 DEF applyReactions, Restamp
<1>2. /\ MessagesFine(c, ps, N) /\ Restamped(M, N)
      /\ \A d \in N : IF d.id \in {m} THEN d.chips = summarizeReactions(rs, d.id) ELSE d \in M
  BY RestampFine
<1> HIDE DEF N
<1> QED BY <1>1, <1>2

\* A bubble takes the place of the one with its id.
LEMMA InsertFine ==
  ASSUME NEW c, NEW ps, NEW M, MessagesFine(c, ps, M),
         NEW b, GoodBubble(c, ps, b), b.msg.kind \in {"text", "tombstone"}
  PROVE  /\ MessagesFine(c, ps, insertSorted(M, b))
         /\ \A d : d \in insertSorted(M, b) <=> d = b \/ (d \in M /\ d.id # b.id)
<1> DEFINE O == {d \in M : d.id # b.id}
<1>1. MessagesFine(c, ps, O)
  BY FewerFine
<1>2. insertSorted(M, b) = O \cup {b}
  BY DEF insertSorted
<1>3. \A d \in O : d.id # b.id
  OBVIOUS
<1>4. \A d : d \in insertSorted(M, b) <=> d = b \/ (d \in M /\ d.id # b.id)
  BY <1>2
<1> HIDE DEF O
<1>5. IsFiniteSet(O \cup {b})
  BY <1>1, FS_AddElement DEF MessagesFine
<1>6. MessagesFine(c, ps, O \cup {b})
  BY <1>1, <1>3, <1>5 DEF MessagesFine
<1> QED BY <1>2, <1>4, <1>6

\* A tombstone hides its target, a message of the chain.
Hide(M, t) == {IF b.id = t THEN Hidden(b) ELSE b : b \in M}

\* The others stay as they are.
LEMMA HideFine ==
  ASSUME NEW c, NEW ps, WorldFine(c, ps), NEW M, MessagesFine(c, ps, M),
         NEW t \in DOMAIN c, c[t].kind # "tombstone"
  PROVE  /\ MessagesFine(c, ps, Hide(M, t))
         /\ \A d \in Hide(M, t) : \E b \in M :
               /\ d.id = b.id /\ d.pending = b.pending /\ d.chips = b.chips
               /\ IF d.id = t THEN d.tombstoned ELSE d = b
         /\ \A b \in M : \E d \in Hide(M, t) :
               /\ d.id = b.id /\ d.pending = b.pending
               /\ b.id # t => d = b
<1> DEFINE F(b) == IF b.id = t THEN Hidden(b) ELSE b
           N == {F(b) : b \in M}
           f == [b \in M |-> F(b)]
<1>1. ASSUME NEW b \in M
      PROVE  /\ GoodBubble(c, ps, F(b)) /\ F(b).id = b.id /\ F(b).msg.kind = b.msg.kind
             /\ F(b).pending = b.pending /\ F(b).chips = b.chips
             /\ IF F(b).id = t THEN F(b).tombstoned ELSE F(b) = b
  <2>1. GoodBubble(c, ps, b) /\ b.msg.kind \in {"text", "tombstone"}
    BY DEF MessagesFine
  <2>2. CASE b.id = t
    <3>1. ~b.pending /\ b.pending \in BOOLEAN
      BY <2>1, <2>2, BubbleFits
    <3>2. b.msg.kind = "text"
      BY <2>1, <2>2, <3>1, BubbleFits
    <3>3. /\ GoodBubble(c, ps, Hidden(b)) /\ Hidden(b).id = b.id /\ Hidden(b).tombstoned
          /\ ~Hidden(b).pending /\ Hidden(b).chips = b.chips /\ Hidden(b).msg.kind = "text"
      BY <2>1, <3>1, <3>2, HiddenGood
    <3>4. Hidden(b).pending = b.pending
      BY <3>1, <3>3, BubbleFits
    <3> QED BY <2>2, <3>2, <3>3, <3>4
  <2>3. CASE b.id # t
    BY <2>1, <2>3
  <2> QED BY <2>2, <2>3
<1>2. \A b \in M : f[b] = F(b)
  OBVIOUS
<1>3. {f[b] : b \in M} = N
  BY <1>2
<1> HIDE DEF F
<1>4. MessagesFine(c, ps, {f[b] : b \in M})
  <2>1. \A b \in M : GoodBubble(c, ps, f[b]) /\ f[b].id = b.id /\ f[b].msg.kind = b.msg.kind
    BY <1>1, <1>2
  <2> HIDE DEF f
  <2> QED BY <2>1, ImageFine
<1>5. \A d \in N : \E b \in M :
               /\ d.id = b.id /\ d.pending = b.pending /\ d.chips = b.chips
               /\ IF d.id = t THEN d.tombstoned ELSE d = b
  BY <1>1
<1>6. \A b \in M : \E d \in N :
               /\ d.id = b.id /\ d.pending = b.pending
               /\ b.id # t => d = b
  <2> SUFFICES ASSUME NEW b \in M
               PROVE  /\ F(b) \in N /\ F(b).id = b.id /\ F(b).pending = b.pending
                      /\ b.id # t => F(b) = b
    OBVIOUS
  <2> QED BY <1>1
<1>7. N = Hide(M, t)
  BY DEF Hide, F
<1> QED BY <1>3, <1>4, <1>5, <1>6, <1>7

-------------------------------------------------------------------------------
(* What one ingest does, kind by kind *)

\* The thread without the echoes a bubble confirms.
Confirmed(e, b) ==
    IF b.pending THEN e ELSE [e EXCEPT !.messages = {d \in @ : ~matchesPending(d, b)}]

\* The record of a reaction; and the records when it has come.
RecordFor(early, b) ==
    [id |-> b.id, parent |-> b.msg.parent, sender |-> b.msg.sender,
     tombstoned |-> b.id \in early, pending |-> b.pending]

KeptBy(rs, b) == Without(rs, {k \in DOMAIN rs : confirmsEcho(rs[k], b)})

Recorded(rs, early, b) ==
    IF \E k \in RecordsOf(KeptBy(rs, b), b.msg.parent) : KeptBy(rs, b)[k].id = b.id
    THEN KeptBy(rs, b) ELSE Push(KeptBy(rs, b), RecordFor(early, b))

\* The bubbles left, and threads with other parts.
Unconfirmed(M, b) == {d \in M : b.pending \/ ~matchesPending(d, b)}

Bubbled(e, M) == [e EXCEPT !.messages = M]
Rerecorded(e, M, rs) == [e EXCEPT !.reactionRecords = rs, !.messages = M]
Warned(e, M, t) == [e EXCEPT !.messages = M, !.pendingTombstones = @ \cup {t}]
Unpinned(e) == [e EXCEPT !.pinnedId = ZERO_ID]
Repinned(e, i, t, p) == [e EXCEPT !.maxPinId = i, !.pinnedId = t, !.pinPending = p]

\* The parts of a thread, and a thread put together from its parts.
LEMMA ThreadParts ==
  ASSUME NEW e \in ThreadEntry
  PROVE  /\ e.messages \in SUBSET Bubble /\ e.pendingTombstones \in SUBSET ChainIds
         /\ e.pinnedId \in ChainIds \cup {ZERO_ID} /\ e.pinPending \in BOOLEAN
         /\ e.maxPinId \in ChainIds \cup TempIds \cup {ZERO_ID}
         /\ e.reactionRecords \in ReactionRecords
BY DEF ThreadEntry

\* A thread with other bubbles.
LEMMA WithMessages ==
  ASSUME NEW e \in ThreadEntry, NEW M
  PROVE  LET g == Bubbled(e, M) IN
         /\ g.messages = M /\ g.pendingTombstones = e.pendingTombstones
         /\ g.pinnedId = e.pinnedId /\ g.maxPinId = e.maxPinId /\ g.pinPending = e.pinPending
         /\ g.reactionRecords = e.reactionRecords
         /\ M \in SUBSET Bubble => g \in ThreadEntry
BY DEF ThreadEntry, Bubbled

\* A thread with other bubbles and records.
LEMMA WithRecords ==
  ASSUME NEW e \in ThreadEntry, NEW M, NEW rs
  PROVE  LET g == Rerecorded(e, M, rs) IN
         /\ g.messages = M /\ g.pendingTombstones = e.pendingTombstones
         /\ g.pinnedId = e.pinnedId /\ g.maxPinId = e.maxPinId /\ g.pinPending = e.pinPending
         /\ g.reactionRecords = rs
         /\ M \in SUBSET Bubble /\ rs \in ReactionRecords => g \in ThreadEntry
BY DEF ThreadEntry, Rerecorded

\* A thread with other bubbles and one more tombstone to come.
LEMMA WithTombstone ==
  ASSUME NEW e \in ThreadEntry, NEW M, NEW t
  PROVE  LET g == Warned(e, M, t) IN
         /\ g.messages = M /\ g.pendingTombstones = e.pendingTombstones \cup {t}
         /\ g.pinnedId = e.pinnedId /\ g.maxPinId = e.maxPinId /\ g.pinPending = e.pinPending
         /\ g.reactionRecords = e.reactionRecords
         /\ M \in SUBSET Bubble /\ t \in ChainIds => g \in ThreadEntry
BY DEF ThreadEntry, Warned

\* A thread without a pin.
LEMMA WithoutPin ==
  ASSUME NEW e \in ThreadEntry
  PROVE  LET g == Unpinned(e) IN
         /\ g.messages = e.messages /\ g.pendingTombstones = e.pendingTombstones
         /\ g.pinnedId = 0 /\ g.maxPinId = e.maxPinId /\ g.pinPending = e.pinPending
         /\ g.reactionRecords = e.reactionRecords
         /\ g \in ThreadEntry
BY DEF ThreadEntry, Unpinned, ZERO_ID

\* A thread with another pin.
LEMMA WithPin ==
  ASSUME NEW e \in ThreadEntry, NEW i, NEW t, NEW p
  PROVE  LET g == Repinned(e, i, t, p) IN
         /\ g.messages = e.messages /\ g.pendingTombstones = e.pendingTombstones
         /\ g.pinnedId = t /\ g.maxPinId = i /\ g.pinPending = p
         /\ g.reactionRecords = e.reactionRecords
         /\ (i \in ChainIds \cup TempIds \cup {ZERO_ID} /\ t \in ChainIds \cup {ZERO_ID} /\ p \in BOOLEAN)
               => g \in ThreadEntry
BY DEF ThreadEntry, Repinned

\* The thread that an ingest folds its message into.
LEMMA ConfirmedIs ==
  ASSUME NEW c, NEW ps, NEW e, ThreadFine(c, ps, e), NEW b
  PROVE  LET f == Confirmed(e, b) IN
         /\ ThreadFine(c, ps, f)
         /\ f.messages = Unconfirmed(e.messages, b)
         /\ f.pendingTombstones = e.pendingTombstones
         /\ f.pinnedId = e.pinnedId /\ f.maxPinId = e.maxPinId /\ f.pinPending = e.pinPending
         /\ f.reactionRecords = e.reactionRecords
<1> DEFINE f == Confirmed(e, b)
           M == Unconfirmed(e.messages, b)
<1>1. e \in ThreadEntry /\ MessagesFine(c, ps, e.messages)
  BY DEF ThreadFine
<1>2. M \in SUBSET e.messages /\ M \in SUBSET Bubble
  BY <1>1, ThreadParts DEF Unconfirmed
<1>3. MessagesFine(c, ps, M)
  <2> HIDE DEF M
  <2> QED BY <1>1, <1>2, FewerFine
<1>4. /\ f.messages = M /\ f.pendingTombstones = e.pendingTombstones
      /\ f.pinnedId = e.pinnedId /\ f.maxPinId = e.maxPinId /\ f.pinPending = e.pinPending
      /\ f.reactionRecords = e.reactionRecords /\ f \in ThreadEntry
  <2>1. CASE b.pending
    BY <1>1, <2>1 DEF Confirmed, Unconfirmed
  <2>2. CASE ~b.pending
    <3>1. f = Bubbled(e, M)
      <4>1. M = {d \in e.messages : ~matchesPending(d, b)}
        BY <2>2 DEF Unconfirmed
      <4>2. f = [e EXCEPT !.messages = {d \in e.messages : ~matchesPending(d, b)}]
        BY <1>1, <2>2 DEF Confirmed, ThreadEntry
      <4> QED BY <4>1, <4>2 DEF Bubbled
    <3> HIDE DEF M, f
    <3> QED BY <1>1, <1>2, <3>1, WithMessages
  <2> QED BY <2>1, <2>2
<1> HIDE DEF f
<1>5. ThreadFine(c, ps, f)
  <2> HIDE DEF M
  <2> QED BY <1>3, <1>4 DEF ThreadFine, PinFine
<1> QED BY <1>4, <1>5 DEF f

\* What a reaction leaves of the records.
LEMMA RecordedFine ==
  ASSUME NEW c, NEW ps, WorldFine(c, ps), NEW rs, RecordsFine(c, ps, rs), NEW early,
         NEW b, GoodBubble(c, ps, b), b.msg.kind = "reaction"
  PROVE  LET new == RecordFor(early, b)
             after == Recorded(rs, early, b) IN
         /\ RecordsFine(c, ps, after) /\ GoodRecord(c, ps, new)
         /\ \A k \in DOMAIN after :
               \/ k \in DOMAIN rs /\ after[k] = rs[k] /\ ~confirmsEcho(rs[k], b)
               \/ /\ after[k] = new
                  /\ \A j \in DOMAIN after \ {k} :
                        /\ j < k
                        /\ after[j].parent = new.parent => after[j].id # new.id
         /\ \A k \in DOMAIN rs : ~confirmsEcho(rs[k], b) => k \in DOMAIN after /\ after[k] = rs[k]
         /\ \E k \in DOMAIN after : after[k].parent = new.parent /\ after[k].id = new.id
<1> DEFINE new == RecordFor(early, b)
           after == Recorded(rs, early, b)
           kept == KeptBy(rs, b)
<1>1. GoodRecord(c, ps, new)
  <2>1. /\ new.id = b.id /\ new.parent = b.msg.parent /\ new.sender = b.msg.sender
        /\ new.pending = b.pending
    BY DEF RecordFor
  <2>2. /\ b.msg.body = NoText /\ b.msg.parent \in DOMAIN c /\ c[b.msg.parent].kind = "text"
        /\ b.msg \in WtMessage /\ b.pending \in BOOLEAN /\ b.id \in ChainIds \cup TempIds
    <3>1. b \in Bubble
      BY DEF GoodBubble
    <3>2. b.pending \in BOOLEAN /\ b.id \in ChainIds \cup TempIds
      BY <3>1 DEF Bubble
    <3>3. b.msg \in WtMessage
      BY BubbleFits
    <3>4. b.msg.body = NoText /\ b.msg.parent \in DOMAIN c /\ c[b.msg.parent].kind = "text"
      BY BubbleFits
    <3> QED BY <3>2, <3>3, <3>4
  <2>3. new \in ReactionRecord
    <3>1. b.msg.sender \in Wallets /\ b.msg.parent \in ChainIds
      BY <2>2, IdsApart DEF WtMessage
    <3> QED BY <2>2, <3>1 DEF RecordFor, ReactionRecord
  <2>4. ASSUME b.pending
        PROVE  \E k \in DOMAIN ps :
                  /\ b.id = MaxPosts + k
                  /\ ps[k].msg = Message("reaction", Me, b.msg.parent, NoText)
                  /\ b.msg.sender = Me
    <3>1. PICK k \in DOMAIN ps : b.id = MaxPosts + k /\ b.msg = ps[k].msg
      BY <2>4 DEF GoodBubble
    <3>2. ps[k].msg.sender = Me
      BY DEF WorldFine, PostsFine, PostFine
    <3>3. b.msg = Message("reaction", Me, b.msg.parent, NoText)
      BY <2>2, <3>1, <3>2 DEF WtMessage, Message
    <3> QED BY <3>1, <3>2, <3>3
  <2>5. ASSUME ~b.pending
        PROVE  b.id \in DOMAIN c /\ c[b.id].kind = "reaction" /\ c[b.id].parent = b.msg.parent
    BY <2>5, BubbleFits DEF GoodBubble
  <2> HIDE DEF new
  <2> QED BY <2>1, <2>2, <2>3, <2>4, <2>5 DEF GoodRecord
<1>2. /\ RecordsFine(c, ps, kept)
      /\ \A k : k \in DOMAIN kept <=> k \in DOMAIN rs /\ ~confirmsEcho(rs[k], b)
      /\ \A k \in DOMAIN kept : kept[k] = rs[k]
  <2> DEFINE G == {k \in DOMAIN rs : confirmsEcho(rs[k], b)}
  <2>1. \A k \in DOMAIN rs : k \in G <=> confirmsEcho(rs[k], b)
    OBVIOUS
  <2> HIDE DEF G
  <2>2. /\ RecordsFine(c, ps, Without(rs, G)) /\ DOMAIN Without(rs, G) = DOMAIN rs \ G
        /\ \A k \in DOMAIN rs \ G : Without(rs, G)[k] = rs[k]
    BY WithoutFine
  <2>3. kept = Without(rs, G)
    BY DEF KeptBy, G
  <2> HIDE DEF kept
  <2> QED BY <2>1, <2>2, <2>3
<1>3. new.id = b.id /\ new.parent = b.msg.parent
  BY DEF RecordFor
<1> HIDE DEF new, kept
<1>4. CASE \E k \in RecordsOf(kept, b.msg.parent) : kept[k].id = b.id
  <2>1. after = kept
    BY <1>4 DEF Recorded, kept
  <2>2. \E k \in DOMAIN kept : kept[k].parent = new.parent /\ kept[k].id = new.id
    BY <1>3, <1>4 DEF RecordsOf
  <2> HIDE DEF after
  <2> QED BY <1>1, <1>2, <2>1, <2>2 DEF after, new
<1>5. CASE ~\E k \in RecordsOf(kept, b.msg.parent) : kept[k].id = b.id
  <2>1. after = Push(kept, new)
    BY <1>5 DEF Recorded, kept, new
  <2> HIDE DEF after
  <2>2. RecordsFine(c, ps, after)
    BY <1>1, <1>2, <2>1, PushFine
  <2>3. PICK p \in Nat :
               /\ p \notin DOMAIN kept /\ \A k \in DOMAIN kept : k < p
               /\ DOMAIN after = DOMAIN kept \cup {p}
               /\ after[p] = new
               /\ \A k \in DOMAIN kept : after[k] = kept[k]
    <3>1. PushedTo(kept, new, after)
      BY <1>1, <1>2, <2>1, PushFine
    <3> QED BY <3>1 DEF PushedTo
  <2>4. \A k \in DOMAIN kept : kept[k].parent = new.parent => kept[k].id # new.id
    BY <1>3, <1>5 DEF RecordsOf
  <2>5. \A j \in DOMAIN after \ {p} : j < p /\ (after[j].parent = new.parent => after[j].id # new.id)
    BY <2>3, <2>4
  <2>6. \A k \in DOMAIN after :
               \/ k \in DOMAIN rs /\ after[k] = rs[k] /\ ~confirmsEcho(rs[k], b)
               \/ /\ after[k] = new
                  /\ \A j \in DOMAIN after \ {k} :
                        /\ j < k
                        /\ after[j].parent = new.parent => after[j].id # new.id
    BY <1>2, <2>3, <2>5
  <2>7. \A k \in DOMAIN rs : ~confirmsEcho(rs[k], b) => k \in DOMAIN after /\ after[k] = rs[k]
    BY <1>2, <2>3
  <2>8. \E k \in DOMAIN after : after[k].parent = new.parent /\ after[k].id = new.id
    BY <2>3
  <2> QED BY <1>1, <2>2, <2>6, <2>7, <2>8 DEF after, new
<1> QED BY <1>4, <1>5

-------------------------------------------------------------------------------
(* One ingest, as the rest of the proofs see it *)

\* The bubbles: one that is shown was shown before or has come now, and is hidden
\* if it was, or if its tombstone came before it or has come now.
Shown(e, b, f) ==
    /\ \A d \in f.messages :
          \/ /\ b.msg.kind \in {"text", "tombstone"} /\ d.id = b.id /\ d.pending = b.pending
             /\ d.tombstoned <=> (b.tombstoned \/ b.id \in e.pendingTombstones)
          \/ /\ \E a \in e.messages :
                   /\ d.id = a.id /\ d.pending = a.pending
                   /\ d.tombstoned <=>
                        (a.tombstoned \/ (b.msg.kind = "tombstone" /\ b.msg.parent = d.id))
                   /\ b.pending \/ ~matchesPending(a, b)
             /\ b.msg.kind \in {"text", "tombstone"} => d.id # b.id
    /\ \A a \in e.messages : b.pending \/ ~matchesPending(a, b) => a.id \in Ids(f.messages)
    /\ b.msg.kind = "text" => b.id \in Ids(f.messages)

\* The tombstones that came first.
Awaited(e, b, f) ==
    /\ e.pendingTombstones \subseteq f.pendingTombstones
    /\ \A i \in f.pendingTombstones \ e.pendingTombstones :
          b.msg.kind = "tombstone" /\ i = b.msg.parent /\ i \notin Ids(f.messages)

\* The same records, of which some are taken back.
SameRecords(rs, after) ==
    /\ DOMAIN after = DOMAIN rs
    /\ \A k \in DOMAIN rs : /\ after[k].id = rs[k].id /\ after[k].parent = rs[k].parent
                            /\ after[k].sender = rs[k].sender /\ after[k].pending = rs[k].pending

\* The records.
RecordsStep(e, b, f) ==
    /\ b.msg.kind = "reaction" =>
          f.reactionRecords = Recorded(e.reactionRecords, e.pendingTombstones, b)
    /\ b.msg.kind = "tombstone" => SameRecords(e.reactionRecords, f.reactionRecords)
    /\ b.msg.kind \in {"text", "pin"} => f.reactionRecords = e.reactionRecords

\* The pin.
PinStep(e, b, f) ==
    /\ b.msg.kind = "pin" /\ outranks(e, b) =>
          f.maxPinId = b.id /\ f.pinnedId = b.msg.parent /\ f.pinPending = b.pending
    /\ ~(b.msg.kind = "pin" /\ outranks(e, b)) =>
          /\ f.maxPinId = e.maxPinId /\ f.pinPending = e.pinPending
          /\ \/ f.pinnedId = e.pinnedId
             \/ b.msg.kind = "tombstone" /\ b.msg.parent = e.maxPinId /\ f.pinnedId = 0

\* The chips, but for those of the messages in X.
CurrentBut(e, X) ==
    \A b \in e.messages : b.id \notin X => b.chips = summarizeReactions(e.reactionRecords, b.id)
ChipsStep(e, b, f) ==
    \A X : CurrentBut(e, X) /\ (b.id \notin X => b.chips = NoChips) => CurrentBut(f, X)

IngestStep(c, ps, e, b, f) ==
    /\ ThreadFine(c, ps, f)
    /\ Shown(e, b, f) /\ Awaited(e, b, f)
    /\ RecordsStep(e, b, f) /\ PinStep(e, b, f) /\ ChipsStep(e, b, f)

\* A summary depends on the records of its message alone.
LEMMA SummaryLocal ==
  ASSUME NEW rs, NEW after, NEW m,
         \A k : k \in RecordsOf(rs, m) <=> k \in RecordsOf(after, m),
         \A k \in RecordsOf(rs, m) :
            after[k].sender = rs[k].sender /\ after[k].tombstoned = rs[k].tombstoned
  PROVE  summarizeReactions(after, m) = summarizeReactions(rs, m)
<1>1. ASSUME NEW w \in Wallets
      PROVE  {k \in RecordsOf(after, m) : after[k].sender = w /\ ~after[k].tombstoned}
               = {k \in RecordsOf(rs, m) : rs[k].sender = w /\ ~rs[k].tombstoned}
  OBVIOUS
<1> QED BY <1>1 DEF summarizeReactions

\* The summary of no records is no chip.
LEMMA SummaryOfNone ==
  ASSUME NEW rs, NEW m, RecordsOf(rs, m) = {}
  PROVE  summarizeReactions(rs, m) = NoChips
<1>1. ASSUME NEW w \in Wallets
      PROVE  {k \in RecordsOf(rs, m) : rs[k].sender = w /\ ~rs[k].tombstoned} = {}
  OBVIOUS
<1> QED BY <1>1, FS_EmptySet DEF summarizeReactions, NoChips

\* Only texts have records.
LEMMA RecordsOfTexts ==
  ASSUME NEW c, NEW ps, NEW rs, RecordsFine(c, ps, rs), NEW m, RecordsOf(rs, m) # {}
  PROVE  m \in DOMAIN c /\ c[m].kind = "text"
BY DEF RecordsOf, RecordsFine, GoodRecord

\* A reaction comes.
LEMMA ReactionIngested ==
  ASSUME NEW c, NEW ps, WorldFine(c, ps), NEW e, ThreadFine(c, ps, e),
         NEW b, GoodBubble(c, ps, b), b.msg.kind = "reaction"
  PROVE  IngestStep(c, ps, e, b, ingest(e, b))
<1> DEFINE g == Confirmed(e, b)
           m == b.msg.parent
           rs == Recorded(g.reactionRecords, g.pendingTombstones, b)
           M == applyReactions(g.messages, m, rs)
           f == ingest(e, b)
<1>1. /\ ThreadFine(c, ps, g)
      /\ g.messages = Unconfirmed(e.messages, b)
      /\ g.pendingTombstones = e.pendingTombstones
      /\ g.pinnedId = e.pinnedId /\ g.maxPinId = e.maxPinId /\ g.pinPending = e.pinPending
      /\ g.reactionRecords = e.reactionRecords
  BY ConfirmedIs
<1>2. f = ingestReaction(g, b)
  BY DEF ingest, Confirmed
<1> HIDE DEF g
<1>3. f = Rerecorded(g, M, rs)
  <2>1. g \in ThreadEntry
    BY <1>1 DEF ThreadFine
  <2>2. f = [g EXCEPT !.reactionRecords = rs, !.messages = applyReactions(@, m, rs)]
    BY <1>2 DEF ingestReaction, Recorded, KeptBy, RecordFor
  <2> QED BY <2>1, <2>2 DEF ThreadEntry, Rerecorded
<1>4. /\ RecordsFine(c, ps, rs) /\ MessagesFine(c, ps, g.messages) /\ g \in ThreadEntry
  <2>1. RecordsFine(c, ps, g.reactionRecords)
    BY <1>1 DEF ThreadFine
  <2> QED BY <1>1, <2>1, RecordedFine DEF ThreadFine
<1> HIDE DEF f, rs
<1>5. /\ MessagesFine(c, ps, M) /\ Restamped(g.messages, M)
      /\ \A d \in M : IF d.id = m THEN d.chips = summarizeReactions(rs, d.id) ELSE d \in g.messages
  BY <1>4, ApplyReactionsFine DEF RecordsFine
<1> HIDE DEF M
<1>6. /\ f.messages = M /\ f.pendingTombstones = e.pendingTombstones
      /\ f.pinnedId = e.pinnedId /\ f.maxPinId = e.maxPinId /\ f.pinPending = e.pinPending
      /\ f.reactionRecords = rs /\ f \in ThreadEntry
  <2>1. M \in SUBSET Bubble
    BY <1>5 DEF MessagesFine, GoodBubble
  <2>2. rs \in ReactionRecords
    BY <1>4, RecordsTyped
  <2> QED BY <1>1, <1>3, <1>4, <2>1, <2>2, WithRecords
<1>7. ThreadFine(c, ps, f)
  BY <1>1, <1>4, <1>5, <1>6 DEF ThreadFine, PinFine
<1>8. Shown(e, b, f)
  <2>1. ASSUME NEW d \in M
        PROVE  \E a \in e.messages :
                   /\ d.id = a.id /\ d.pending = a.pending
                   /\ d.tombstoned <=>
                        (a.tombstoned \/ (b.msg.kind = "tombstone" /\ b.msg.parent = d.id))
                   /\ b.pending \/ ~matchesPending(a, b)
    <3>1. PICK a \in g.messages : Stays(a, d)
      BY <1>5 DEF Restamped
    <3> QED BY <1>1, <3>1 DEF Stays, Unconfirmed
  <2>2. ASSUME NEW a \in e.messages, b.pending \/ ~matchesPending(a, b)
        PROVE  a.id \in Ids(M)
    <3>1. a \in g.messages
      BY <1>1, <2>2 DEF Unconfirmed
    <3>2. PICK d \in M : Stays(a, d)
      BY <1>5, <3>1 DEF Restamped
    <3> QED BY <3>2 DEF Stays, Ids
  <2> QED BY <1>6, <2>1, <2>2 DEF Shown
<1>9. Awaited(e, b, f)
  BY <1>6 DEF Awaited
<1>10. RecordsStep(e, b, f)
  BY <1>1, <1>6 DEF RecordsStep, rs
<1>11. PinStep(e, b, f)
  BY <1>6 DEF PinStep
<1>12. ChipsStep(e, b, f)
  <2> SUFFICES ASSUME NEW X, CurrentBut(e, X), NEW d \in f.messages, d.id \notin X
               PROVE  d.chips = summarizeReactions(f.reactionRecords, d.id)
    BY DEF ChipsStep, CurrentBut
  <2>1. CASE d.id = m
    BY <1>5, <1>6, <2>1
  <2>2. CASE d.id # m
    <3>1. d \in g.messages /\ d \in e.messages
      BY <1>1, <1>5, <1>6, <2>2 DEF Unconfirmed
    <3>2. d.chips = summarizeReactions(e.reactionRecords, d.id)
      BY <3>1 DEF CurrentBut
    <3> DEFINE old == e.reactionRecords
    <3>3. /\ \A k \in DOMAIN rs :
               \/ k \in DOMAIN old /\ rs[k] = old[k] /\ ~confirmsEcho(old[k], b)
               \/ rs[k].parent = m
          /\ \A k \in DOMAIN old : ~confirmsEcho(old[k], b) => k \in DOMAIN rs /\ rs[k] = old[k]
      <4>1. RecordsFine(c, ps, old)
        BY DEF ThreadFine
      <4>2. rs = Recorded(old, e.pendingTombstones, b) /\ RecordFor(e.pendingTombstones, b).parent = m
        BY <1>1 DEF rs, RecordFor
      <4> QED BY <4>1, <4>2, RecordedFine
    <3>4. \A k \in DOMAIN old : old[k].parent = d.id => ~confirmsEcho(old[k], b)
      BY <2>2 DEF confirmsEcho
    <3>5. \A k : k \in RecordsOf(old, d.id) <=> k \in RecordsOf(rs, d.id)
      BY <2>2, <3>3, <3>4 DEF RecordsOf
    <3>6. \A k \in RecordsOf(old, d.id) : rs[k] = old[k]
      BY <3>3, <3>4 DEF RecordsOf
    <3>7. summarizeReactions(rs, d.id) = summarizeReactions(old, d.id)
      BY <3>5, <3>6, SummaryLocal
    <3> QED BY <1>6, <3>2, <3>7
  <2> QED BY <2>1, <2>2
<1> QED BY <1>7, <1>8, <1>9, <1>10, <1>11, <1>12 DEF IngestStep, f

\* A thread whose bubbles are those that are not confirmed shows what it showed.
LEMMA ShownUnchanged ==
  ASSUME NEW e, NEW b, NEW f, f.messages = Unconfirmed(e.messages, b),
         b.msg.kind \notin {"text", "tombstone"}
  PROVE  Shown(e, b, f)
<1>1. \A d \in f.messages : d \in e.messages /\ (b.pending \/ ~matchesPending(d, b))
  BY DEF Unconfirmed
<1>2. \A a \in e.messages : b.pending \/ ~matchesPending(a, b) => a \in f.messages
  BY DEF Unconfirmed
<1>3. \A a \in e.messages : b.pending \/ ~matchesPending(a, b) => a.id \in Ids(f.messages)
  BY <1>2 DEF Ids
<1>4. ASSUME NEW d \in f.messages
      PROVE  /\ d.tombstoned <=>
                  (d.tombstoned \/ (b.msg.kind = "tombstone" /\ b.msg.parent = d.id))
  OBVIOUS
<1>5. \A d \in f.messages :
        \E a \in e.messages :
           /\ d.id = a.id /\ d.pending = a.pending
           /\ d.tombstoned <=>
                (a.tombstoned \/ (b.msg.kind = "tombstone" /\ b.msg.parent = d.id))
           /\ b.pending \/ ~matchesPending(a, b)
  BY <1>1, <1>4
<1> QED BY <1>3, <1>5 DEF Shown

\* A pin comes.
LEMMA PinIngested ==
  ASSUME NEW c, NEW ps, WorldFine(c, ps), NEW e, ThreadFine(c, ps, e),
         NEW b, GoodBubble(c, ps, b), b.msg.kind = "pin"
  PROVE  IngestStep(c, ps, e, b, ingest(e, b))
<1> DEFINE g == Confirmed(e, b)
           f == ingest(e, b)
<1>1. /\ ThreadFine(c, ps, g) /\ g.messages = Unconfirmed(e.messages, b)
      /\ g.pendingTombstones = e.pendingTombstones
      /\ g.pinnedId = e.pinnedId /\ g.maxPinId = e.maxPinId /\ g.pinPending = e.pinPending
      /\ g.reactionRecords = e.reactionRecords
  BY ConfirmedIs
<1>2. f = ingestPin(g, b)
  BY DEF ingest, Confirmed
<1> HIDE DEF g, f
<1>3. outranks(g, b) <=> outranks(e, b)
  BY <1>1 DEF outranks
<1>4. g \in ThreadEntry
  BY <1>1 DEF ThreadFine
<1>5. /\ f.messages = g.messages /\ f.pendingTombstones = g.pendingTombstones
      /\ f.reactionRecords = g.reactionRecords
      /\ outranks(e, b) =>
            f.maxPinId = b.id /\ f.pinnedId = b.msg.parent /\ f.pinPending = b.pending
      /\ ~outranks(e, b) =>
            f.maxPinId = e.maxPinId /\ f.pinnedId = e.pinnedId /\ f.pinPending = e.pinPending
      /\ f \in ThreadEntry
  <2>1. CASE outranks(e, b)
    <3>1. f = Repinned(g, b.id, b.msg.parent, b.pending)
      BY <1>2, <1>3, <2>1 DEF ingestPin, Repinned, PinTarget
    <3>2. b.id \in ChainIds \cup TempIds \cup {ZERO_ID} /\ b.pending \in BOOLEAN
      BY DEF GoodBubble, Bubble
    <3>3. b.msg.parent \in ChainIds \cup {ZERO_ID}
      BY BubbleFits DEF WtMessage
    <3> QED BY <1>4, <2>1, <3>1, <3>2, <3>3, WithPin
  <2>2. CASE ~outranks(e, b)
    BY <1>1, <1>2, <1>3, <1>4, <2>2 DEF ingestPin
  <2> QED BY <2>1, <2>2
<1>6. PinFine(c, ps, f)
  <2>1. CASE outranks(e, b)
    <3>1. f.pinnedId \in {0} \cup DOMAIN c
      BY <1>5, <2>1, BubbleFits
    <3>2. b.pending => \E k \in DOMAIN ps : b.id = MaxPosts + k
      BY DEF GoodBubble
    <3>3. ~b.pending => b.id \in DOMAIN c /\ c[b.id].kind = "pin"
      BY BubbleFits
    <3> QED BY <1>5, <2>1, <3>1, <3>2, <3>3 DEF PinFine
  <2>2. CASE ~outranks(e, b)
    <3>1. PinFine(c, ps, e)
      BY DEF ThreadFine
    <3> QED BY <1>5, <2>2, <3>1 DEF PinFine
  <2> QED BY <2>1, <2>2
<1>7. ThreadFine(c, ps, f)
  BY <1>1, <1>5, <1>6 DEF ThreadFine
<1>8. Shown(e, b, f)
  BY <1>1, <1>5, ShownUnchanged
<1>9. Awaited(e, b, f)
  BY <1>1, <1>5 DEF Awaited
<1>10. RecordsStep(e, b, f)
  BY <1>1, <1>5 DEF RecordsStep
<1>11. PinStep(e, b, f)
  BY <1>5 DEF PinStep
<1>12. ChipsStep(e, b, f)
  BY <1>1, <1>5 DEF ChipsStep, CurrentBut, Unconfirmed
<1> QED BY <1>7, <1>8, <1>9, <1>10, <1>11, <1>12 DEF IngestStep, f

\* A text comes.
LEMMA TextIngested ==
  ASSUME NEW c, NEW ps, WorldFine(c, ps), NEW e, ThreadFine(c, ps, e),
         NEW b, GoodBubble(c, ps, b), b.msg.kind = "text"
  PROVE  IngestStep(c, ps, e, b, ingest(e, b))
<1> DEFINE g == Confirmed(e, b)
           f == ingest(e, b)
           in == remembered(g, b)
           rs == g.reactionRecords
           x == summarizeReactions(rs, b.id)
           new == IF RecordsOf(rs, b.id) # {} THEN [in EXCEPT !.chips = x] ELSE in
           M == insertSorted(g.messages, new)
<1>1. /\ ThreadFine(c, ps, g) /\ g.messages = Unconfirmed(e.messages, b)
      /\ g.pendingTombstones = e.pendingTombstones
      /\ g.pinnedId = e.pinnedId /\ g.maxPinId = e.maxPinId /\ g.pinPending = e.pinPending
      /\ g.reactionRecords = e.reactionRecords
  BY ConfirmedIs
<1>2. f = ingestText(g, b)
  BY DEF ingest, Confirmed
<1> HIDE DEF g, f
<1>3. g \in ThreadEntry /\ MessagesFine(c, ps, g.messages) /\ RecordsFine(c, ps, rs)
  BY <1>1 DEF ThreadFine
<1>4. f = Bubbled(g, M)
  <2>1. f = [g EXCEPT !.messages = insertSorted(@, new)]
    BY <1>2 DEF ingestText
  <2> HIDE DEF new
  <2> QED BY <1>3, <2>1 DEF Bubbled, ThreadEntry
<1>5. /\ GoodBubble(c, ps, in) /\ in.id = b.id /\ in.pending = b.pending /\ in.chips = b.chips
      /\ in.msg.kind = "text"
      /\ in.tombstoned <=> (b.tombstoned \/ b.id \in e.pendingTombstones)
  <2>1. CASE b.id \in g.pendingTombstones
    <3>1. b.id \in DOMAIN c
      BY <1>1, <2>1 DEF ThreadFine
    <3>2. ~b.pending
      BY <3>1, BubbleFits
    <3>3. in = Hidden(b)
      BY <2>1 DEF remembered
    <3>4. /\ GoodBubble(c, ps, Hidden(b)) /\ Hidden(b).id = b.id /\ Hidden(b).tombstoned
          /\ ~Hidden(b).pending /\ Hidden(b).chips = b.chips /\ Hidden(b).msg.kind = "text"
      BY <3>2, HiddenGood
    <3>5. Hidden(b).pending = b.pending
      BY <3>2, <3>4, BubbleFits
    <3> QED BY <1>1, <2>1, <3>3, <3>4, <3>5
  <2>2. CASE b.id \notin g.pendingTombstones
    <3>1. in = b
      BY <2>2 DEF remembered
    <3> QED BY <1>1, <2>2, <3>1
  <2> QED BY <2>1, <2>2
<1> HIDE DEF in
<1>6. /\ GoodBubble(c, ps, new) /\ new.id = b.id /\ new.pending = b.pending
      /\ new.msg.kind = "text"
      /\ new.tombstoned <=> (b.tombstoned \/ b.id \in e.pendingTombstones)
      /\ RecordsOf(rs, b.id) # {} => new.chips = x
      /\ RecordsOf(rs, b.id) = {} => new.chips = b.chips
  <2>1. CASE RecordsOf(rs, b.id) # {}
    <3> DEFINE y == [in EXCEPT !.chips = x]
    <3>1. x \in Chips
      BY <1>3, SummaryIsChips DEF RecordsFine
    <3> HIDE DEF x
    <3>2. /\ GoodBubble(c, ps, y) /\ y.id = in.id /\ y.msg = in.msg
          /\ y.tombstoned = in.tombstoned /\ y.pending = in.pending /\ y.chips = x
      BY <1>5, <3>1, ChipsGood
    <3>3. new = y
      BY <2>1
    <3> HIDE DEF y, new
    <3> QED BY <1>5, <2>1, <3>2, <3>3
  <2>2. CASE RecordsOf(rs, b.id) = {}
    <3>1. new = in
      BY <2>2
    <3> HIDE DEF new
    <3> QED BY <1>5, <2>2, <3>1
  <2> QED BY <2>1, <2>2
<1> HIDE DEF new
<1>7. /\ MessagesFine(c, ps, M)
      /\ \A d : d \in M <=> d = new \/ (d \in g.messages /\ d.id # b.id)
  <2>1. MessagesFine(c, ps, M) /\ \A d : d \in M <=> d = new \/ (d \in g.messages /\ d.id # new.id)
    BY <1>3, <1>6, InsertFine
  <2> QED BY <1>6, <2>1
<1> HIDE DEF M
<1>8. /\ f.messages = M /\ f.pendingTombstones = e.pendingTombstones
      /\ f.pinnedId = e.pinnedId /\ f.maxPinId = e.maxPinId /\ f.pinPending = e.pinPending
      /\ f.reactionRecords = e.reactionRecords /\ f \in ThreadEntry
  <2>1. M \in SUBSET Bubble
    BY <1>7 DEF MessagesFine, GoodBubble
  <2> QED BY <1>1, <1>3, <1>4, <2>1, WithMessages
<1>9. ThreadFine(c, ps, f)
  BY <1>1, <1>7, <1>8 DEF ThreadFine, PinFine
<1>10. Shown(e, b, f)
  <2>1. ASSUME NEW d \in M
        PROVE  \/ /\ d.id = b.id /\ d.pending = b.pending
                  /\ d.tombstoned <=> (b.tombstoned \/ b.id \in e.pendingTombstones)
               \/ /\ \E a \in e.messages :
                        /\ d.id = a.id /\ d.pending = a.pending
                        /\ d.tombstoned <=>
                             (a.tombstoned \/ (b.msg.kind = "tombstone" /\ b.msg.parent = d.id))
                        /\ b.pending \/ ~matchesPending(a, b)
                  /\ d.id # b.id
    <3>1. CASE d = new
      BY <1>6, <3>1
    <3>2. CASE d \in g.messages /\ d.id # b.id
      <4>1. d \in e.messages /\ (b.pending \/ ~matchesPending(d, b))
        BY <1>1, <3>2 DEF Unconfirmed
      <4>2. d.tombstoned <=> (d.tombstoned \/ (b.msg.kind = "tombstone" /\ b.msg.parent = d.id))
        OBVIOUS
      <4> QED BY <3>2, <4>1, <4>2
    <3> QED BY <1>7, <3>1, <3>2
  <2>2. b.id \in Ids(M)
    BY <1>6, <1>7 DEF Ids
  <2>3. ASSUME NEW a \in e.messages, b.pending \/ ~matchesPending(a, b)
        PROVE  a.id \in Ids(M)
    <3>1. CASE a.id = b.id
      BY <2>2, <3>1
    <3>2. CASE a.id # b.id
      <4>1. a \in M
        BY <1>1, <1>7, <2>3, <3>2 DEF Unconfirmed
      <4> QED BY <4>1 DEF Ids
    <3> QED BY <3>1, <3>2
  <2> QED BY <1>8, <2>1, <2>2, <2>3 DEF Shown
<1>11. Awaited(e, b, f)
  BY <1>8 DEF Awaited
<1>12. RecordsStep(e, b, f)
  BY <1>8 DEF RecordsStep
<1>13. PinStep(e, b, f)
  BY <1>8 DEF PinStep
<1>14. ChipsStep(e, b, f)
  <2> SUFFICES ASSUME NEW X, CurrentBut(e, X), b.id \notin X => b.chips = NoChips,
                      NEW d \in f.messages, d.id \notin X
               PROVE  d.chips = summarizeReactions(e.reactionRecords, d.id)
    BY <1>8 DEF ChipsStep, CurrentBut
  <2>1. CASE d = new
    <3>1. CASE RecordsOf(rs, b.id) # {}
      BY <1>1, <1>6, <2>1, <3>1
    <3>2. CASE RecordsOf(rs, b.id) = {}
      <4>1. d.chips = NoChips
        BY <1>6, <2>1, <3>2
      <4>2. x = NoChips
        BY <3>2, SummaryOfNone
      <4> QED BY <1>1, <1>6, <2>1, <4>1, <4>2
    <3> QED BY <3>1, <3>2
  <2>2. CASE d \in g.messages
    <3>1. d \in e.messages
      BY <1>1, <2>2 DEF Unconfirmed
    <3> QED BY <3>1 DEF CurrentBut
  <2> QED BY <1>7, <1>8, <2>1, <2>2
<1> QED BY <1>9, <1>10, <1>11, <1>12, <1>13, <1>14 DEF IngestStep, f

\* A tombstone, or an echo of one, is not hidden itself.
LEMMA TombstoneUnhidden ==
  ASSUME NEW c, NEW ps, WorldFine(c, ps), NEW e, ThreadFine(c, ps, e),
         NEW b, GoodBubble(c, ps, b), b.msg.kind = "tombstone"
  PROVE  /\ ~b.tombstoned /\ b.id \notin e.pendingTombstones
         /\ b.msg.parent \in DOMAIN c /\ b.msg.parent # b.id
         /\ \A d \in e.messages : d.id = b.id => d.pending = b.pending /\ ~d.tombstoned
<1>1. b.msg.parent \in DOMAIN c /\ b.msg.parent # b.id
  <2>1. CASE b.pending
    BY <2>1, BubbleFits
  <2>2. CASE ~b.pending
    BY <2>2, BubbleFits
  <2> QED BY <2>1, <2>2
<1>2. ~b.pending => c[b.id].kind = "tombstone"
  BY BubbleFits
<1>3. b.id \notin e.pendingTombstones
  <2>1. b.id \in e.pendingTombstones => b.id \in DOMAIN c /\ c[b.id].kind # "tombstone"
    BY DEF ThreadFine
  <2> QED BY <1>2, <2>1, BubbleFits
<1>4. ~b.tombstoned
  BY <1>2, BubbleFits DEF GoodBubble
<1>5. ASSUME NEW d \in e.messages, d.id = b.id PROVE d.pending = b.pending /\ ~d.tombstoned
  <2>1. GoodBubble(c, ps, d)
    BY DEF ThreadFine, MessagesFine
  <2>2. (d.pending <=> d.id \notin DOMAIN c) /\ d.pending \in BOOLEAN
    BY <2>1, BubbleFits
  <2>3. (b.pending <=> b.id \notin DOMAIN c) /\ b.pending \in BOOLEAN
    BY BubbleFits
  <2>4. d.pending = b.pending
    BY <1>5, <2>2, <2>3
  <2> QED BY <1>2, <1>5, <2>1, <2>4 DEF GoodBubble
<1> QED BY <1>1, <1>3, <1>4, <1>5

\* A tombstone that finds no bubble leaves those there are.
LEMMA TombstoneElsewhere ==
  ASSUME NEW c, NEW ps, WorldFine(c, ps), NEW e, ThreadFine(c, ps, e),
         NEW b, GoodBubble(c, ps, b), b.msg.kind = "tombstone",
         NEW f, Restamped(Unconfirmed(e.messages, b), f.messages),
         \A d \in f.messages : d.id # b.msg.parent
  PROVE  Shown(e, b, f)
<1>1. /\ ~b.tombstoned /\ b.id \notin e.pendingTombstones
      /\ \A d \in e.messages : d.id = b.id => d.pending = b.pending /\ ~d.tombstoned
  BY TombstoneUnhidden
<1>2. ASSUME NEW d \in f.messages
      PROVE  \/ /\ d.id = b.id /\ d.pending = b.pending
                /\ d.tombstoned <=> (b.tombstoned \/ b.id \in e.pendingTombstones)
             \/ /\ \E a \in e.messages :
                      /\ d.id = a.id /\ d.pending = a.pending
                      /\ d.tombstoned <=>
                           (a.tombstoned \/ (b.msg.kind = "tombstone" /\ b.msg.parent = d.id))
                      /\ b.pending \/ ~matchesPending(a, b)
                /\ d.id # b.id
  <2>1. PICK a \in e.messages : Stays(a, d) /\ (b.pending \/ ~matchesPending(a, b))
    BY DEF Restamped, Unconfirmed
  <2>2. CASE d.id = b.id
    BY <1>1, <2>1, <2>2 DEF Stays
  <2>3. CASE d.id # b.id
    <3>1. d.tombstoned <=> (a.tombstoned \/ (b.msg.kind = "tombstone" /\ b.msg.parent = d.id))
      BY <2>1 DEF Stays
    <3> QED BY <2>1, <2>3, <3>1 DEF Stays
  <2> QED BY <2>2, <2>3
<1>3. \A a \in e.messages : b.pending \/ ~matchesPending(a, b) => a.id \in Ids(f.messages)
  <2> SUFFICES ASSUME NEW a \in e.messages, b.pending \/ ~matchesPending(a, b)
               PROVE  a.id \in Ids(f.messages)
    OBVIOUS
  <2>1. PICK d \in f.messages : Stays(a, d)
    BY DEF Restamped, Unconfirmed
  <2> QED BY <2>1 DEF Stays, Ids
<1> QED BY <1>2, <1>3 DEF Shown

\* A tombstone of the pin comes.
LEMMA PinDeleted ==
  ASSUME NEW c, NEW ps, WorldFine(c, ps), NEW e, ThreadFine(c, ps, e),
         NEW b, GoodBubble(c, ps, b), b.msg.kind = "tombstone", b.msg.parent = e.maxPinId
  PROVE  IngestStep(c, ps, e, b, ingest(e, b))
<1> DEFINE g == Confirmed(e, b)
           f == ingest(e, b)
<1>1. /\ ThreadFine(c, ps, g) /\ g.messages = Unconfirmed(e.messages, b)
      /\ g.pendingTombstones = e.pendingTombstones
      /\ g.pinnedId = e.pinnedId /\ g.maxPinId = e.maxPinId /\ g.pinPending = e.pinPending
      /\ g.reactionRecords = e.reactionRecords
  BY ConfirmedIs
<1>2. f = ingestTombstone(g, b)
  BY DEF ingest, Confirmed
<1> HIDE DEF g, f
<1>3. f = Unpinned(g)
  BY <1>1, <1>2 DEF ingestTombstone, Unpinned
<1>4. /\ f.messages = g.messages /\ f.pendingTombstones = e.pendingTombstones
      /\ f.pinnedId = 0 /\ f.maxPinId = e.maxPinId /\ f.pinPending = e.pinPending
      /\ f.reactionRecords = e.reactionRecords /\ f \in ThreadEntry
  BY <1>1, <1>3, WithoutPin DEF ThreadFine
<1>5. ThreadFine(c, ps, f)
  BY <1>1, <1>4 DEF ThreadFine, PinFine
<1>6. Shown(e, b, f)
  <2>1. Restamped(Unconfirmed(e.messages, b), f.messages)
    BY <1>1, <1>4 DEF Restamped, Stays
  <2>2. ASSUME NEW d \in f.messages PROVE d.id # b.msg.parent
    <3> SUFFICES ASSUME d.id = b.msg.parent PROVE FALSE
      OBVIOUS
    <3>1. GoodBubble(c, ps, d) /\ d.msg.kind \in {"text", "tombstone"}
      BY <1>5, <2>2 DEF ThreadFine, MessagesFine
    <3>2. d.id \in DOMAIN c /\ c[d.id].kind # "pin"
      <4>1. d.id \in DOMAIN c
        BY TombstoneUnhidden
      <4>2. c[d.id].kind = d.msg.kind
        BY <3>1, <4>1, BubbleFits
      <4> QED BY <3>1, <4>1, <4>2
    <3>3. PinFine(c, ps, e)
      BY DEF ThreadFine
    <3>4. \A k \in DOMAIN ps : MaxPosts + k \notin DOMAIN c
      BY IdsApart
    <3>5. 0 \notin DOMAIN c
      BY IdsApart
    <3> QED BY <3>2, <3>3, <3>4, <3>5 DEF PinFine
  <2> QED BY <2>1, <2>2, TombstoneElsewhere
<1>7. Awaited(e, b, f)
  BY <1>4 DEF Awaited
<1>8. RecordsStep(e, b, f)
  BY <1>4 DEF RecordsStep, SameRecords
<1>9. PinStep(e, b, f)
  BY <1>4 DEF PinStep
<1>10. ChipsStep(e, b, f)
  BY <1>1, <1>4 DEF ChipsStep, CurrentBut, Unconfirmed
<1> QED BY <1>5, <1>6, <1>7, <1>8, <1>9, <1>10 DEF IngestStep, f

\* A record taken back.
LEMMA TakenBackFine ==
  ASSUME NEW c, NEW ps, NEW rs, RecordsFine(c, ps, rs), NEW k \in DOMAIN rs
  PROVE  LET after == [rs EXCEPT ![k].tombstoned = TRUE] IN
         /\ RecordsFine(c, ps, after) /\ SameRecords(rs, after)
         /\ \A j \in DOMAIN rs \ {k} : after[j] = rs[j]
<1> DEFINE r == [rs[k] EXCEPT !.tombstoned = TRUE]
           after == [rs EXCEPT ![k] = r]
<1>1. GoodRecord(c, ps, rs[k]) /\ rs[k] \in ReactionRecord
  BY DEF RecordsFine, GoodRecord
<1>2. /\ r \in ReactionRecord /\ r.id = rs[k].id /\ r.parent = rs[k].parent
      /\ r.sender = rs[k].sender /\ r.pending = rs[k].pending
  BY <1>1 DEF ReactionRecord
<1>3. after = [rs EXCEPT ![k].tombstoned = TRUE]
  OBVIOUS
<1> HIDE DEF r
<1>4. GoodRecord(c, ps, r)
  BY <1>1, <1>2 DEF GoodRecord
<1>5. /\ DOMAIN after = DOMAIN rs /\ after[k] = r
      /\ \A j \in DOMAIN rs \ {k} : after[j] = rs[j]
      /\ after = [j \in DOMAIN after |-> after[j]]
  BY DEF RecordsFine
<1> HIDE DEF after
<1>6. RecordsFine(c, ps, after)
  <2>1. \A j \in DOMAIN rs : GoodRecord(c, ps, after[j])
    BY <1>4, <1>5 DEF RecordsFine
  <2> QED BY <1>5, <2>1 DEF RecordsFine
<1>7. SameRecords(rs, after)
  BY <1>2, <1>5 DEF SameRecords
<1> QED BY <1>3, <1>5, <1>6, <1>7

\* A tombstone of a reaction that is recorded comes.
LEMMA ReactionDeleted ==
  ASSUME NEW c, NEW ps, WorldFine(c, ps), NEW e, ThreadFine(c, ps, e),
         NEW b, GoodBubble(c, ps, b), b.msg.kind = "tombstone", b.msg.parent # e.maxPinId,
         \E k \in DOMAIN e.reactionRecords : e.reactionRecords[k].id = b.msg.parent
  PROVE  IngestStep(c, ps, e, b, ingest(e, b))
<1> DEFINE g == Confirmed(e, b)
           f == ingest(e, b)
           old == e.reactionRecords
           R == {k \in DOMAIN old : old[k].id = b.msg.parent}
           at == MinOf(R)
           rs == [old EXCEPT ![at].tombstoned = TRUE]
           m == rs[at].parent
           M == applyReactions(g.messages, m, rs)
<1>1. /\ ThreadFine(c, ps, g) /\ g.messages = Unconfirmed(e.messages, b)
      /\ g.pendingTombstones = e.pendingTombstones
      /\ g.pinnedId = e.pinnedId /\ g.maxPinId = e.maxPinId /\ g.pinPending = e.pinPending
      /\ g.reactionRecords = old
  BY ConfirmedIs
<1>2. f = ingestTombstone(g, b)
  BY DEF ingest, Confirmed
<1> HIDE DEF g, f
<1>3. RecordsFine(c, ps, old) /\ g \in ThreadEntry /\ MessagesFine(c, ps, g.messages)
  BY <1>1 DEF ThreadFine
<1> HIDE DEF old
<1>4. at \in DOMAIN old /\ old[at].id = b.msg.parent /\ R # {}
  <2>1. IsFiniteSet(R) /\ R \subseteq Int
    BY <1>3, FS_Subset DEF RecordsFine
  <2>2. R # {}
    BY DEF old
  <2> HIDE DEF R
  <2>3. at \in R
    BY <2>1, <2>2, LeastAndGreatest
  <2> QED BY <2>2, <2>3 DEF R
<1>5. f = Rerecorded(g, M, rs)
  <2>1. R = {k \in DOMAIN g.reactionRecords : g.reactionRecords[k].id = b.msg.parent}
    BY <1>1
  <2> HIDE DEF R
  <2>2. f = [g EXCEPT !.reactionRecords = rs, !.messages = applyReactions(@, m, rs)]
    BY <1>1, <1>2, <1>4, <2>1 DEF ingestTombstone
  <2> HIDE DEF at, rs, m
  <2> QED BY <1>3, <2>2 DEF Rerecorded, ThreadEntry
<1> HIDE DEF at
<1>6. /\ RecordsFine(c, ps, rs) /\ SameRecords(old, rs)
      /\ \A j \in DOMAIN old \ {at} : rs[j] = old[j]
  BY <1>3, <1>4, TakenBackFine
<1> HIDE DEF rs, m
<1>7. /\ MessagesFine(c, ps, M) /\ Restamped(g.messages, M)
      /\ \A d \in M : IF d.id = m THEN d.chips = summarizeReactions(rs, d.id) ELSE d \in g.messages
  BY <1>3, <1>6, ApplyReactionsFine DEF RecordsFine
<1> HIDE DEF M
<1>8. /\ f.messages = M /\ f.pendingTombstones = e.pendingTombstones
      /\ f.pinnedId = e.pinnedId /\ f.maxPinId = e.maxPinId /\ f.pinPending = e.pinPending
      /\ f.reactionRecords = rs /\ f \in ThreadEntry
  <2>1. M \in SUBSET Bubble
    BY <1>7 DEF MessagesFine, GoodBubble
  <2>2. rs \in ReactionRecords
    BY <1>6, RecordsTyped
  <2> QED BY <1>1, <1>3, <1>5, <2>1, <2>2, WithRecords
<1>9. ThreadFine(c, ps, f)
  BY <1>1, <1>6, <1>7, <1>8 DEF ThreadFine, PinFine
<1>10. Shown(e, b, f)
  <2>1. Restamped(Unconfirmed(e.messages, b), f.messages)
    BY <1>1, <1>7, <1>8
  <2>2. ASSUME NEW d \in f.messages PROVE d.id # b.msg.parent
    <3> SUFFICES ASSUME d.id = b.msg.parent PROVE FALSE
      OBVIOUS
    <3>1. GoodBubble(c, ps, d) /\ d.msg.kind \in {"text", "tombstone"}
      BY <1>9, <2>2 DEF ThreadFine, MessagesFine
    <3>2. d.id \in DOMAIN c /\ c[d.id].kind # "reaction"
      <4>1. d.id \in DOMAIN c
        BY TombstoneUnhidden
      <4>2. c[d.id].kind = d.msg.kind
        BY <3>1, <4>1, BubbleFits
      <4> QED BY <3>1, <4>1, <4>2
    <3>3. GoodRecord(c, ps, old[at]) /\ old[at].id = d.id
      BY <1>3, <1>4 DEF RecordsFine
    <3>4. \A k \in DOMAIN ps : MaxPosts + k \notin DOMAIN c
      BY IdsApart
    <3>5. SEED_ID \notin DOMAIN c
      BY IdsApart DEF SEED_ID
    <3> QED BY <3>2, <3>3, <3>4, <3>5 DEF GoodRecord
  <2> QED BY <2>1, <2>2, TombstoneElsewhere
<1>11. Awaited(e, b, f)
  BY <1>8 DEF Awaited
<1>12. RecordsStep(e, b, f)
  BY <1>6, <1>8 DEF RecordsStep, old
<1>13. PinStep(e, b, f)
  BY <1>8 DEF PinStep
<1>14. ChipsStep(e, b, f)
  <2> SUFFICES ASSUME NEW X, CurrentBut(e, X), NEW d \in f.messages, d.id \notin X
               PROVE  d.chips = summarizeReactions(f.reactionRecords, d.id)
    BY DEF ChipsStep, CurrentBut
  <2>1. CASE d.id = m
    BY <1>7, <1>8, <2>1
  <2>2. CASE d.id # m
    <3>1. d \in g.messages /\ d \in e.messages
      BY <1>1, <1>7, <1>8, <2>2 DEF Unconfirmed
    <3>2. d.chips = summarizeReactions(old, d.id)
      BY <3>1 DEF CurrentBut, old
    <3>3. \A k : k \in RecordsOf(old, d.id) <=> k \in RecordsOf(rs, d.id)
      BY <1>6 DEF RecordsOf, SameRecords
    <3>4. at \notin RecordsOf(old, d.id)
      BY <1>4, <1>6, <2>2 DEF RecordsOf, SameRecords, m
    <3>5. \A k \in RecordsOf(old, d.id) : rs[k] = old[k]
      BY <1>6, <3>4 DEF RecordsOf
    <3>6. summarizeReactions(rs, d.id) = summarizeReactions(old, d.id)
      BY <3>3, <3>5, SummaryLocal
    <3> QED BY <1>8, <3>2, <3>6
  <2> QED BY <2>1, <2>2
<1> QED BY <1>9, <1>10, <1>11, <1>12, <1>13, <1>14 DEF IngestStep, f

\* A tombstone that is inserted with the bubbles left of e, one of them hidden if
\* its target is there.
LEMMA TombstoneInserted ==
  ASSUME NEW c, NEW ps, WorldFine(c, ps), NEW e, ThreadFine(c, ps, e),
         NEW b, GoodBubble(c, ps, b), b.msg.kind = "tombstone",
         NEW N, N = Unconfirmed(e.messages, b)
  PROVE  LET M == insertSorted(Hide(N, b.msg.parent), b) IN
         /\ MessagesFine(c, ps, M)
         /\ \A f : f.messages = M => Shown(e, b, f)
         /\ \A f : f.messages = M /\ f.reactionRecords = e.reactionRecords => ChipsStep(e, b, f)
         /\ \A i : i \notin Ids(N) /\ i # b.id => i \notin Ids(M)
<1> DEFINE t == b.msg.parent
           H == Hide(N, t)
           M == insertSorted(H, b)
<1>1. /\ ~b.tombstoned /\ b.id \notin e.pendingTombstones
      /\ t \in DOMAIN c /\ t # b.id
      /\ \A d \in e.messages : d.id = b.id => d.pending = b.pending /\ ~d.tombstoned
  BY TombstoneUnhidden
<1>2. c[t].kind # "tombstone"
  BY BubbleFits
<1>3. N \in SUBSET e.messages /\ MessagesFine(c, ps, N)
  BY FewerFine DEF Unconfirmed, ThreadFine
<1>4. /\ MessagesFine(c, ps, H)
      /\ \A d \in H : \E a \in N :
            /\ d.id = a.id /\ d.pending = a.pending /\ d.chips = a.chips
            /\ IF d.id = t THEN d.tombstoned ELSE d = a
      /\ \A a \in N : \E d \in H :
            /\ d.id = a.id /\ d.pending = a.pending
            /\ a.id # t => d = a
  <2>1. t \in DOMAIN c
    BY <1>1
  <2> HIDE DEF t
  <2>2. MessagesFine(c, ps, H)
    BY <1>2, <1>3, <2>1, HideFine
  <2>3. \A d \in H : \E a \in N :
            /\ d.id = a.id /\ d.pending = a.pending /\ d.chips = a.chips
            /\ IF d.id = t THEN d.tombstoned ELSE d = a
    BY <1>2, <1>3, <2>1, HideFine
  <2>4. \A a \in N : \E d \in H :
            /\ d.id = a.id /\ d.pending = a.pending
            /\ a.id # t => d = a
    BY <1>2, <1>3, <2>1, HideFine
  <2> QED BY <2>2, <2>3, <2>4
<1> HIDE DEF H
<1>5. MessagesFine(c, ps, M) /\ \A d : d \in M <=> d = b \/ (d \in H /\ d.id # b.id)
  BY <1>4, InsertFine
<1> HIDE DEF M
<1>6. ASSUME NEW f, f.messages = M PROVE Shown(e, b, f)
  <2>1. ASSUME NEW d \in M
        PROVE  \/ /\ d.id = b.id /\ d.pending = b.pending
                  /\ d.tombstoned <=> (b.tombstoned \/ b.id \in e.pendingTombstones)
               \/ /\ \E a \in e.messages :
                        /\ d.id = a.id /\ d.pending = a.pending
                        /\ d.tombstoned <=>
                             (a.tombstoned \/ (b.msg.kind = "tombstone" /\ b.msg.parent = d.id))
                        /\ b.pending \/ ~matchesPending(a, b)
                  /\ d.id # b.id
    <3>1. CASE d = b
      BY <1>1, <3>1
    <3>2. CASE d \in H /\ d.id # b.id
      <4>1. PICK a \in N :
              /\ d.id = a.id /\ d.pending = a.pending /\ d.chips = a.chips
              /\ IF d.id = t THEN d.tombstoned ELSE d = a
        BY <1>4, <3>2
      <4>2. d.tombstoned <=> (a.tombstoned \/ (b.msg.kind = "tombstone" /\ b.msg.parent = d.id))
        BY <4>1
      <4>3. a \in e.messages /\ (b.pending \/ ~matchesPending(a, b))
        BY <4>1 DEF Unconfirmed
      <4> QED BY <3>2, <4>1, <4>2, <4>3
    <3> QED BY <1>5, <3>1, <3>2
  <2>2. ASSUME NEW a \in e.messages, b.pending \/ ~matchesPending(a, b)
        PROVE  a.id \in Ids(M)
    <3>1. CASE a.id = b.id
      <4>1. b \in M
        BY <1>5
      <4> QED BY <3>1, <4>1 DEF Ids
    <3>2. CASE a.id # b.id
      <4>1. a \in N
        BY <2>2 DEF Unconfirmed
      <4>2. PICK d \in H : d.id = a.id
        BY <1>4, <4>1
      <4>3. d \in M
        BY <1>5, <3>2, <4>2
      <4> QED BY <4>2, <4>3 DEF Ids
    <3> QED BY <3>1, <3>2
  <2> QED BY <1>6, <2>1, <2>2 DEF Shown
<1>7. ASSUME NEW f, f.messages = M, f.reactionRecords = e.reactionRecords
      PROVE  ChipsStep(e, b, f)
  <2> SUFFICES ASSUME NEW X, CurrentBut(e, X), b.id \notin X => b.chips = NoChips,
                      NEW d \in M, d.id \notin X
               PROVE  d.chips = summarizeReactions(e.reactionRecords, d.id)
    BY <1>7 DEF ChipsStep, CurrentBut
  <2>1. CASE d = b
    <3>1. RecordsOf(e.reactionRecords, b.id) = {}
      <4>1. RecordsFine(c, ps, e.reactionRecords)
        BY DEF ThreadFine
      <4>2. b.id \in DOMAIN c => c[b.id].kind = "tombstone"
        BY BubbleFits
      <4> QED BY <4>1, <4>2, RecordsOfTexts
    <3> QED BY <2>1, <3>1, SummaryOfNone
  <2>2. CASE d \in H
    <3>1. PICK a \in N : d.id = a.id /\ d.chips = a.chips
      BY <1>4, <2>2
    <3>2. a \in e.messages
      BY <3>1, <1>3
    <3> QED BY <3>1, <3>2 DEF CurrentBut
  <2> QED BY <1>5, <2>1, <2>2
<1>8. ASSUME NEW i, i \notin Ids(N), i # b.id PROVE i \notin Ids(M)
  <2> SUFFICES ASSUME NEW d \in M, d.id = i PROVE FALSE
    BY DEF Ids
  <2>1. d \in H
    BY <1>5, <1>8
  <2>2. PICK a \in N : d.id = a.id
    BY <1>4, <2>1
  <2> QED BY <1>8, <2>2 DEF Ids
<1> QED BY <1>5, <1>6, <1>7, <1>8 DEF M, H

\* A tombstone of neither the pin nor a recorded reaction comes.
LEMMA BubbleDeleted ==
  ASSUME NEW c, NEW ps, WorldFine(c, ps), NEW e, ThreadFine(c, ps, e),
         NEW b, GoodBubble(c, ps, b), b.msg.kind = "tombstone", b.msg.parent # e.maxPinId,
         ~\E k \in DOMAIN e.reactionRecords : e.reactionRecords[k].id = b.msg.parent
  PROVE  IngestStep(c, ps, e, b, ingest(e, b))
<1> DEFINE g == Confirmed(e, b)
           f == ingest(e, b)
           t == b.msg.parent
           N == Unconfirmed(e.messages, b)
           M == insertSorted(Hide(N, t), b)
           R == {k \in DOMAIN g.reactionRecords : g.reactionRecords[k].id = t}
<1>1. /\ ThreadFine(c, ps, g) /\ g.messages = N
      /\ g.pendingTombstones = e.pendingTombstones
      /\ g.pinnedId = e.pinnedId /\ g.maxPinId = e.maxPinId /\ g.pinPending = e.pinPending
      /\ g.reactionRecords = e.reactionRecords
  BY ConfirmedIs
<1>2. f = ingestTombstone(g, b)
  BY DEF ingest, Confirmed
<1> HIDE DEF g, f
<1>3. R = {} /\ t # g.maxPinId /\ g \in ThreadEntry
  BY <1>1 DEF ThreadFine
<1>4. /\ t \in DOMAIN c /\ t # b.id /\ t \in ChainIds /\ c[t].kind # "tombstone"
  BY TombstoneUnhidden, IdsApart, BubbleFits
<1>5. /\ MessagesFine(c, ps, M)
      /\ \A h : h.messages = M => Shown(e, b, h)
      /\ \A h : h.messages = M /\ h.reactionRecords = e.reactionRecords => ChipsStep(e, b, h)
      /\ \A i : i \notin Ids(N) /\ i # b.id => i \notin Ids(M)
  BY TombstoneInserted
<1>6. M \in SUBSET Bubble
  BY <1>5 DEF MessagesFine, GoodBubble
<1>7. /\ f.messages = M /\ f.pinnedId = e.pinnedId /\ f.maxPinId = e.maxPinId
      /\ f.pinPending = e.pinPending /\ f.reactionRecords = e.reactionRecords
      /\ f \in ThreadEntry /\ e.pendingTombstones \subseteq f.pendingTombstones
      /\ \A i \in f.pendingTombstones \ e.pendingTombstones : i = t /\ i \notin Ids(M)
  <2>1. CASE t \in Ids(g.messages)
    <3>1. f = Bubbled(g, M)
      <4>1. f = [g EXCEPT !.messages = insertSorted(Hide(g.messages, t), b)]
        BY <1>2, <1>3, <2>1 DEF ingestTombstone, Hide
      <4> QED BY <1>1, <4>1 DEF Bubbled
    <3> HIDE DEF M
    <3> QED BY <1>1, <1>3, <1>6, <3>1, WithMessages
  <2>2. CASE t \notin Ids(g.messages)
    <3>1. Hide(N, t) = N
      <4>1. \A d \in N : d.id # t
        BY <1>1, <2>2 DEF Ids
      <4> QED BY <4>1 DEF Hide
    <3>2. f = Warned(g, M, t)
      <4>1. f = [g EXCEPT !.messages = insertSorted(@, b), !.pendingTombstones = @ \cup {t}]
        BY <1>2, <1>3, <2>2 DEF ingestTombstone
      <4>2. insertSorted(g.messages, b) = M
        BY <1>1, <3>1
      <4> HIDE DEF M, t
      <4> QED BY <1>3, <4>1, <4>2 DEF Warned, ThreadEntry
    <3>3. t \notin Ids(M)
      BY <1>1, <1>4, <1>5, <2>2
    <3> HIDE DEF M
    <3> QED BY <1>1, <1>3, <1>4, <1>6, <3>2, <3>3, WithTombstone
  <2> QED BY <2>1, <2>2
<1> HIDE DEF M
<1>8. ThreadFine(c, ps, f)
  <2>1. \A i \in f.pendingTombstones : i \in DOMAIN c /\ c[i].kind # "tombstone"
    BY <1>1, <1>4, <1>7 DEF ThreadFine
  <2> QED BY <1>1, <1>5, <1>7, <2>1 DEF ThreadFine, PinFine
<1>9. Shown(e, b, f)
  BY <1>5, <1>7
<1>10. Awaited(e, b, f)
  BY <1>7 DEF Awaited
<1>11. RecordsStep(e, b, f)
  BY <1>7 DEF RecordsStep, SameRecords
<1>12. PinStep(e, b, f)
  BY <1>7 DEF PinStep
<1>13. ChipsStep(e, b, f)
  BY <1>5, <1>7
<1> QED BY <1>8, <1>9, <1>10, <1>11, <1>12, <1>13 DEF IngestStep, f

\* Whatever comes.
LEMMA Ingested ==
  ASSUME NEW c, NEW ps, WorldFine(c, ps), NEW e, ThreadFine(c, ps, e),
         NEW b, GoodBubble(c, ps, b)
  PROVE  IngestStep(c, ps, e, b, ingest(e, b))
<1>1. b.msg.kind \in {"text", "reaction", "tombstone", "pin"}
  BY BubbleFits DEF WtMessage
<1>2. CASE b.msg.kind = "tombstone"
  BY <1>2, PinDeleted, ReactionDeleted, BubbleDeleted
<1> QED BY <1>1, <1>2, TextIngested, ReactionIngested, PinIngested

-------------------------------------------------------------------------------
(* A batch, message by message *)

\* What a batch brings: tombstones, and pins.
Deleted(T) == {b.msg.parent : b \in {b \in T : b.msg.kind = "tombstone"}}
Pins(T) == {b.id : b \in {b \in T : b.msg.kind = "pin"}}

\* A bubble that came with the batch, and one that was there before.
Arrived(e, T, f, d) ==
    \E b \in T :
       /\ b.msg.kind \in {"text", "tombstone"} /\ d.id = b.id /\ ~d.pending
       /\ (b.tombstoned \/ b.id \in e.pendingTombstones \/ b.id \in Deleted(T)) => d.tombstoned
       /\ d.tombstoned => (b.tombstoned \/ b.id \in f.pendingTombstones \/ b.id \in Deleted(T))
Remained(e, T, d) ==
    /\ \E a \in e.messages :
          /\ d.id = a.id /\ d.pending = a.pending
          /\ d.tombstoned <=> (a.tombstoned \/ d.id \in Deleted(T))
          /\ \A b \in T : ~matchesPending(a, b)
    /\ \A b \in T : b.msg.kind \in {"text", "tombstone"} => d.id # b.id

ShownAll(e, T, f) ==
    /\ \A d \in f.messages : Arrived(e, T, f, d) \/ Remained(e, T, d)
    /\ \A a \in e.messages : (\A b \in T : ~matchesPending(a, b)) => a.id \in Ids(f.messages)
    /\ \A b \in T : b.msg.kind = "text" => b.id \in Ids(f.messages)

\* A tombstone that came first holds.
Early(e) == \A b \in e.messages : b.id \in e.pendingTombstones => b.tombstoned
AwaitedAll(e, f) ==
    /\ e.pendingTombstones \subseteq f.pendingTombstones
    /\ Early(e) => Early(f)

\* The pin that is shown is the latest of the pins seen, unless that was deleted.
PinOf(c, e, seen) ==
    ~e.pinPending =>
        IF seen = {} THEN e.maxPinId = 0
        ELSE /\ e.maxPinId = MaxOf(seen)
             /\ \/ e.pinnedId = c[MaxOf(seen)].parent
                \/ /\ e.pinnedId = 0
                   /\ \E i \in DOMAIN c : c[i].kind = "tombstone" /\ c[i].parent = MaxOf(seen)
SeenAfter(e, seen, T) ==
    IF e.pinPending /\ Pins(T) # {} THEN Pins(T) ELSE seen \cup Pins(T)
PinsStep(c, e, T, f) ==
    /\ f.pinPending <=> (e.pinPending /\ Pins(T) = {})
    /\ \A seen \in SUBSET DOMAIN c : PinOf(c, e, seen) => PinOf(c, f, SeenAfter(e, seen, T))

ChipsAll(e, T, f) ==
    \A X : CurrentBut(e, X) /\ (\A b \in T : b.id \notin X => b.chips = NoChips) => CurrentBut(f, X)

GoodBatch(c, ps, T) == IsFiniteSet(T) /\ \A b \in T : GoodBubble(c, ps, b) /\ ~b.pending

BatchStep(c, ps, e, T, f) ==
    /\ ThreadFine(c, ps, f)
    /\ ShownAll(e, T, f) /\ AwaitedAll(e, f) /\ PinsStep(c, e, T, f) /\ ChipsAll(e, T, f)

\* Echoes of two posts have two ids.
LEMMA EchoIdsApart ==
  ASSUME NEW n \in Int, NEW i \in Int, NEW j \in Int, n + i = n + j
  PROVE  i = j
OBVIOUS

\* Bubbles under one id are both echoes or neither, and echoes of the same post.
LEMMA SameEcho ==
  ASSUME NEW c, NEW ps, WorldFine(c, ps), NEW a, NEW b,
         GoodBubble(c, ps, a), GoodBubble(c, ps, b), a.id = b.id
  PROVE  a.pending = b.pending /\ (a.pending => a.msg = b.msg)
<1>1. a.pending = b.pending
  BY BubbleFits
<1>2. ASSUME a.pending PROVE a.msg = b.msg
  <2>1. PICK i \in DOMAIN ps : a.id = MaxPosts + i /\ a.msg = ps[i].msg
    BY <1>2 DEF GoodBubble
  <2>2. PICK j \in DOMAIN ps : b.id = MaxPosts + j /\ b.msg = ps[j].msg
    BY <1>1, <1>2 DEF GoodBubble
  <2>3. MaxPosts \in Int /\ i \in Int /\ j \in Int
    BY IdsApart DEF WorldFine, PostsFine
  <2>4. MaxPosts + i = MaxPosts + j
    BY <2>1, <2>2
  <2>5. i = j
    BY ONLY <2>3, <2>4, EchoIdsApart
  <2> QED BY <2>1, <2>2, <2>5
<1> QED BY <1>1, <1>2

\* A batch with one more message, later than the others: the bubbles.
LEMMA ShownGrows ==
  ASSUME NEW c, NEW ps, WorldFine(c, ps), NEW e, ThreadFine(c, ps, e),
         NEW T, GoodBatch(c, ps, T), NEW x \in T, \A b \in T : b.id <= x.id,
         NEW g, ThreadFine(c, ps, g), ShownAll(e, T \ {x}, g), AwaitedAll(e, g),
         NEW f, ThreadFine(c, ps, f), Shown(g, x, f), Awaited(g, x, f)
  PROVE  ShownAll(e, T, f)
<1> DEFINE U == T \ {x}
<1>1. \A i : i \in Deleted(T) <=> i \in Deleted(U) \/ (x.msg.kind = "tombstone" /\ x.msg.parent = i)
  BY DEF Deleted
<1>2. \A b \in T : GoodBubble(c, ps, b) /\ ~b.pending
  BY DEF GoodBatch
<1>3. x.id \notin Deleted(T)
  <2> SUFFICES ASSUME NEW t \in T, t.msg.kind = "tombstone", t.msg.parent = x.id PROVE FALSE
    BY DEF Deleted
  <2>1. t.msg.parent < t.id /\ t.id <= x.id /\ t.id \in Int /\ x.id \in Int
    BY <1>2, BubbleFits
  <2> QED BY <2>1
<1>4. e.pendingTombstones \subseteq g.pendingTombstones /\ g.pendingTombstones \subseteq f.pendingTombstones
  BY DEF AwaitedAll, Awaited
<1>5. /\ \A d \in g.messages : GoodBubble(c, ps, d)
      /\ \A d \in e.messages : GoodBubble(c, ps, d)
  BY DEF ThreadFine, MessagesFine
<1> HIDE DEF U
<1>6. ShownAll(e, U, g)
  BY DEF U
<1>7. ASSUME NEW d \in f.messages PROVE Arrived(e, T, f, d) \/ Remained(e, T, d)
  <2>1. CASE /\ x.msg.kind \in {"text", "tombstone"} /\ d.id = x.id /\ d.pending = x.pending
             /\ d.tombstoned <=> (x.tombstoned \/ x.id \in g.pendingTombstones)
    BY <1>2, <1>3, <1>4, <2>1 DEF Arrived
  <2>2. CASE /\ \E a \in g.messages :
                   /\ d.id = a.id /\ d.pending = a.pending
                   /\ d.tombstoned <=>
                        (a.tombstoned \/ (x.msg.kind = "tombstone" /\ x.msg.parent = d.id))
                   /\ x.pending \/ ~matchesPending(a, x)
             /\ x.msg.kind \in {"text", "tombstone"} => d.id # x.id
    <3>1. PICK a \in g.messages :
             /\ d.id = a.id /\ d.pending = a.pending
             /\ d.tombstoned <=> (a.tombstoned \/ (x.msg.kind = "tombstone" /\ x.msg.parent = d.id))
             /\ ~matchesPending(a, x)
      BY <1>2, <2>2
    <3>2. CASE Arrived(e, U, g, a)
      <4>1. PICK b \in U :
               /\ b.msg.kind \in {"text", "tombstone"} /\ a.id = b.id /\ ~a.pending
               /\ (b.tombstoned \/ b.id \in e.pendingTombstones \/ b.id \in Deleted(U)) => a.tombstoned
               /\ a.tombstoned => (b.tombstoned \/ b.id \in g.pendingTombstones \/ b.id \in Deleted(U))
        BY <3>2 DEF Arrived
      <4>2. b \in T
        BY DEF U
      <4>3. Arrived(e, T, f, d)
        BY <1>1, <1>4, <3>1, <4>1, <4>2 DEF Arrived
      <4> QED BY <4>3
    <3>3. CASE Remained(e, U, a)
      <4>1. PICK o \in e.messages :
               /\ a.id = o.id /\ a.pending = o.pending
               /\ a.tombstoned <=> (o.tombstoned \/ a.id \in Deleted(U))
               /\ \A b \in U : ~matchesPending(o, b)
        BY <3>3 DEF Remained
      <4>2. \A b \in U : b.msg.kind \in {"text", "tombstone"} => a.id # b.id
        BY <3>3 DEF Remained
      <4>3. a.pending => a.msg = o.msg
        BY <1>5, <4>1, SameEcho
      <4>4. ~matchesPending(o, x)
        BY <3>1, <4>1, <4>3 DEF matchesPending
      <4>5. \A b \in T : ~matchesPending(o, b)
        BY <4>1, <4>4 DEF U
      <4>6. \A b \in T : b.msg.kind \in {"text", "tombstone"} => d.id # b.id
        BY <2>2, <3>1, <4>2 DEF U
      <4>7. d.tombstoned <=> (o.tombstoned \/ d.id \in Deleted(T))
        BY <1>1, <3>1, <4>1
      <4>8. Remained(e, T, d)
        BY <3>1, <4>1, <4>5, <4>6, <4>7 DEF Remained
      <4> QED BY <4>8
    <3> QED BY <1>6, <3>2, <3>3 DEF ShownAll
  <2> QED BY <2>1, <2>2 DEF Shown
<1>8. ASSUME NEW a \in g.messages, ~matchesPending(a, x) PROVE a.id \in Ids(f.messages)
  BY <1>8 DEF Shown
<1>9. ASSUME NEW a \in e.messages, \A b \in T : ~matchesPending(a, b)
      PROVE  a.id \in Ids(f.messages)
  <2>1. a.id \in Ids(g.messages)
    BY <1>6, <1>9 DEF ShownAll, U
  <2>2. PICK o \in g.messages : o.id = a.id
    BY <2>1 DEF Ids
  <2>3. o.pending = a.pending /\ (o.pending => o.msg = a.msg)
    BY <1>5, <2>2, SameEcho
  <2>4. ~matchesPending(o, x)
    BY <1>9, <2>3 DEF matchesPending
  <2> QED BY <1>8, <2>2, <2>4
<1>10. ASSUME NEW b \in T, b.msg.kind = "text" PROVE b.id \in Ids(f.messages)
  <2>1. CASE b = x
    BY <1>10, <2>1 DEF Shown
  <2>2. CASE b # x
    <3>1. b.id \in Ids(g.messages)
      BY <1>6, <1>10, <2>2 DEF ShownAll, U
    <3>2. PICK o \in g.messages : o.id = b.id
      BY <3>1 DEF Ids
    <3>3. o.pending = b.pending
      BY <1>2, <1>5, <3>2, SameEcho
    <3>4. ~matchesPending(o, x)
      BY <1>2, <3>3 DEF matchesPending
    <3> QED BY <1>8, <3>2, <3>4
  <2> QED BY <2>1, <2>2
<1> QED BY <1>7, <1>9, <1>10 DEF ShownAll

\* A tombstone that came first holds when one more message has come.
LEMMA EarlyKept ==
  ASSUME NEW c, NEW ps, WorldFine(c, ps), NEW e, ThreadFine(c, ps, e),
         NEW b, NEW f, Shown(e, b, f), Awaited(e, b, f)
  PROVE  AwaitedAll(e, f)
<1>1. ASSUME Early(e), NEW d \in f.messages, d.id \in f.pendingTombstones PROVE d.tombstoned
  <2>1. d.id \in Ids(f.messages)
    BY DEF Ids
  <2>2. d.id \in e.pendingTombstones
    BY <1>1, <2>1 DEF Awaited
  <2> QED BY <1>1, <2>2 DEF Shown, Early
<1> QED BY <1>1 DEF AwaitedAll, Awaited, Early

\* The later of two sets of pins.
LEMMA LatestOfTwo ==
  ASSUME NEW S, IsFiniteSet(S), S \subseteq Int, NEW i \in Int
  PROVE  /\ MaxOf({i}) = i
         /\ S # {} /\ i > MaxOf(S) => MaxOf(S \cup {i}) = i
         /\ S # {} /\ ~(i > MaxOf(S)) => MaxOf(S \cup {i}) = MaxOf(S)
<1>1. IsFiniteSet({i}) /\ IsFiniteSet(S \cup {i})
  BY FS_Singleton, FS_Union
<1>2. MaxOf({i}) \in {i}
  BY <1>1, LeastAndGreatest
<1>3. MaxOf(S \cup {i}) \in S \cup {i} /\ \A x \in S \cup {i} : x <= MaxOf(S \cup {i})
  BY <1>1, LeastAndGreatest
<1>4. ASSUME S # {} PROVE MaxOf(S) \in S /\ \A x \in S : x <= MaxOf(S)
  BY <1>4, LeastAndGreatest
<1>5. ASSUME S # {}, i > MaxOf(S) PROVE MaxOf(S \cup {i}) = i
  <2>1. MaxOf(S) \in Int /\ MaxOf(S \cup {i}) \in Int
    BY <1>3, <1>4, <1>5
  <2>2. i <= MaxOf(S \cup {i})
    BY <1>3
  <2>3. CASE MaxOf(S \cup {i}) \in S
    <3>1. MaxOf(S \cup {i}) <= MaxOf(S)
      BY <1>4, <1>5, <2>3
    <3> QED BY <1>5, <2>1, <2>2, <3>1
  <2> QED BY <1>3, <2>3
<1>6. ASSUME S # {}, ~(i > MaxOf(S)) PROVE MaxOf(S \cup {i}) = MaxOf(S)
  <2>1. MaxOf(S) \in Int /\ MaxOf(S \cup {i}) \in Int
    BY <1>3, <1>4, <1>6
  <2>2. MaxOf(S) <= MaxOf(S \cup {i})
    BY <1>3, <1>4, <1>6
  <2>3. MaxOf(S \cup {i}) <= MaxOf(S)
    <3>1. CASE MaxOf(S \cup {i}) \in S
      BY <1>4, <1>6, <3>1
    <3>2. CASE MaxOf(S \cup {i}) = i
      BY <1>6, <2>1, <3>2
    <3> QED BY <1>3, <3>1, <3>2
  <2> QED BY <2>1, <2>2, <2>3
<1> QED BY <1>2, <1>5, <1>6

\* One message of the chain: the pin.
LEMMA PinKept ==
  ASSUME NEW c, NEW ps, WorldFine(c, ps), NEW e, ThreadFine(c, ps, e),
         NEW b, GoodBubble(c, ps, b), ~b.pending, NEW f, PinStep(e, b, f)
  PROVE  PinsStep(c, e, {b}, f)
<1>1. b.id \in DOMAIN c /\ b.id \in Int /\ b.id > 0
  BY BubbleFits
<1>2. b.msg.kind = "pin" => Pins({b}) = {b.id}
  BY DEF Pins
<1>3. b.msg.kind # "pin" => Pins({b}) = {}
  BY DEF Pins
<1>4. b.msg.kind = "pin" /\ e.pinPending => outranks(e, b)
  BY DEF outranks
<1>5. f.pinPending <=> (e.pinPending /\ Pins({b}) = {})
  <2>1. CASE b.msg.kind = "pin" /\ outranks(e, b)
    BY <1>2, <2>1 DEF PinStep
  <2>2. CASE ~(b.msg.kind = "pin" /\ outranks(e, b))
    BY <1>2, <1>3, <1>4, <2>2 DEF PinStep
  <2> QED BY <2>1, <2>2
<1>6. ASSUME NEW seen \in SUBSET DOMAIN c, PinOf(c, e, seen), ~f.pinPending
      PROVE  LET new == SeenAfter(e, seen, {b}) IN
             IF new = {} THEN f.maxPinId = 0
             ELSE /\ f.maxPinId = MaxOf(new)
                  /\ \/ f.pinnedId = c[MaxOf(new)].parent
                     \/ /\ f.pinnedId = 0
                        /\ \E i \in DOMAIN c : c[i].kind = "tombstone" /\ c[i].parent = MaxOf(new)
  <2> DEFINE new == SeenAfter(e, seen, {b})
  <2>1. IsFiniteSet(seen) /\ seen \subseteq Int
    <3>1. DOMAIN c = 1 .. Len(c) /\ Len(c) \in Nat
      BY IdsApart
    <3>2. IsFiniteSet(DOMAIN c)
      BY <3>1, FS_Interval
    <3> QED BY <3>1, <3>2, FS_Subset
  <2>2. CASE b.msg.kind = "pin" /\ outranks(e, b)
    <3>1. f.maxPinId = b.id /\ f.pinnedId = c[b.id].parent
      BY <2>2, BubbleFits DEF PinStep
    <3>2. CASE e.pinPending
      <4>1. new = {b.id}
        BY <1>2, <2>2, <3>2 DEF SeenAfter
      <4>2. MaxOf(new) = b.id
        BY <1>1, <2>1, <4>1, LatestOfTwo
      <4> QED BY <3>1, <4>1, <4>2
    <3>3. CASE ~e.pinPending
      <4>1. new = seen \cup {b.id}
        BY <1>2, <2>2, <3>3 DEF SeenAfter
      <4>2. CASE seen = {}
        <5>1. new = {b.id}
          BY <4>1, <4>2
        <5>2. MaxOf(new) = b.id
          BY <1>1, <2>1, <5>1, LatestOfTwo
        <5> QED BY <3>1, <5>1, <5>2
      <4>3. CASE seen # {}
        <5>1. b.id > MaxOf(seen)
          BY <1>6, <2>2, <3>3, <4>3 DEF PinOf, outranks
        <5>2. MaxOf(seen \cup {b.id}) = b.id
          BY <1>1, <2>1, <4>3, <5>1, LatestOfTwo
        <5> QED BY <3>1, <4>1, <5>2
      <4> QED BY <4>2, <4>3
    <3> QED BY <3>2, <3>3
  <2>3. CASE ~(b.msg.kind = "pin" /\ outranks(e, b))
    <3>1. /\ f.maxPinId = e.maxPinId /\ ~e.pinPending
          /\ \/ f.pinnedId = e.pinnedId
             \/ b.msg.kind = "tombstone" /\ b.msg.parent = e.maxPinId /\ f.pinnedId = 0
      BY <1>6, <2>3 DEF PinStep
    <3>2. IF seen = {} THEN e.maxPinId = 0
          ELSE /\ e.maxPinId = MaxOf(seen)
               /\ \/ e.pinnedId = c[MaxOf(seen)].parent
                  \/ /\ e.pinnedId = 0
                     /\ \E i \in DOMAIN c : c[i].kind = "tombstone" /\ c[i].parent = MaxOf(seen)
      BY <1>6, <3>1 DEF PinOf
    <3>3. b.msg.kind = "pin" => seen # {} /\ ~(b.id > MaxOf(seen))
      BY <1>1, <2>3, <3>1, <3>2 DEF outranks
    <3>4. (seen = {} <=> new = {}) /\ (seen # {} => MaxOf(new) = MaxOf(seen))
      <4>1. CASE b.msg.kind = "pin"
        <5>1. new = seen \cup {b.id}
          BY <1>2, <3>1, <4>1 DEF SeenAfter
        <5>2. MaxOf(seen \cup {b.id}) = MaxOf(seen)
          BY <1>1, <2>1, <3>3, <4>1, LatestOfTwo
        <5> QED BY <3>3, <4>1, <5>1, <5>2
      <4>2. CASE b.msg.kind # "pin"
        <5>1. new = seen
          BY <1>3, <4>2 DEF SeenAfter
        <5> QED BY <5>1
      <4> QED BY <4>1, <4>2
    <3>5. b.msg.kind = "tombstone" => c[b.id].kind = "tombstone" /\ c[b.id].parent = b.msg.parent
      BY BubbleFits
    <3> HIDE DEF new
    <3>6. CASE seen = {}
      BY <3>1, <3>2, <3>4, <3>6 DEF new
    <3>7. CASE seen # {}
      <4>1. f.maxPinId = MaxOf(new) /\ new # {}
        BY <3>1, <3>2, <3>4, <3>7
      <4>2. CASE f.pinnedId = e.pinnedId
        BY <3>2, <3>4, <3>7, <4>1, <4>2 DEF new
      <4>3. CASE b.msg.kind = "tombstone" /\ b.msg.parent = e.maxPinId /\ f.pinnedId = 0
        <5>1. c[b.id].kind = "tombstone" /\ c[b.id].parent = MaxOf(new)
          BY <3>1, <3>5, <4>1, <4>3
        <5> QED BY <1>1, <4>1, <4>3, <5>1 DEF new
      <4> QED BY <3>1, <4>2, <4>3
    <3> QED BY <3>6, <3>7
  <2> QED BY <2>2, <2>3
<1>7. \A seen \in SUBSET DOMAIN c : PinOf(c, e, seen) => PinOf(c, f, SeenAfter(e, seen, {b}))
  BY <1>6 DEF PinOf
<1> QED BY <1>5, <1>7 DEF PinsStep

\* A batch with one more message: the pin.
LEMMA PinsGrow ==
  ASSUME NEW c, NEW ps, NEW e, NEW T, GoodBatch(c, ps, T), NEW x \in T,
         NEW g, PinsStep(c, e, T \ {x}, g), NEW f, PinsStep(c, g, {x}, f)
  PROVE  PinsStep(c, e, T, f)
<1> DEFINE U == T \ {x}
<1>1. Pins(T) = Pins(U) \cup Pins({x})
  BY DEF Pins
<1>2. \A S \in SUBSET T : Pins(S) \subseteq DOMAIN c
  BY DEF Pins, GoodBatch, GoodBubble
<1> HIDE DEF U
<1>3. PinsStep(c, e, U, g)
  BY DEF U
<1>4. f.pinPending <=> (e.pinPending /\ Pins(T) = {})
  BY <1>1, <1>3 DEF PinsStep
<1>5. ASSUME NEW seen \in SUBSET DOMAIN c, PinOf(c, e, seen)
      PROVE  PinOf(c, f, SeenAfter(e, seen, T))
  <2>1. PinOf(c, g, SeenAfter(e, seen, U))
    BY <1>3, <1>5 DEF PinsStep
  <2>2. SeenAfter(e, seen, U) \in SUBSET DOMAIN c
    BY <1>2 DEF SeenAfter, U
  <2>3. PinOf(c, f, SeenAfter(g, SeenAfter(e, seen, U), {x}))
    BY <2>1, <2>2 DEF PinsStep
  <2>4. SeenAfter(g, SeenAfter(e, seen, U), {x}) = SeenAfter(e, seen, T)
    <3>1. g.pinPending <=> (e.pinPending /\ Pins(U) = {})
      BY <1>3 DEF PinsStep
    <3>2. CASE g.pinPending /\ Pins({x}) # {}
      BY <1>1, <3>1, <3>2 DEF SeenAfter
    <3>3. CASE ~(g.pinPending /\ Pins({x}) # {})
      BY <1>1, <3>1, <3>3 DEF SeenAfter
    <3> QED BY <3>2, <3>3
  <2> QED BY <2>3, <2>4
<1> QED BY <1>4, <1>5 DEF PinsStep

\* A batch with one more message, later than the others.
LEMMA BatchGrows ==
  ASSUME NEW c, NEW ps, WorldFine(c, ps), NEW e, ThreadFine(c, ps, e),
         NEW T, GoodBatch(c, ps, T), NEW x \in T, \A b \in T : b.id <= x.id,
         NEW g, BatchStep(c, ps, e, T \ {x}, g), NEW f, IngestStep(c, ps, g, x, f)
  PROVE  BatchStep(c, ps, e, T, f)
<1>1. ThreadFine(c, ps, g) /\ ThreadFine(c, ps, f) /\ GoodBubble(c, ps, x) /\ ~x.pending
  BY DEF BatchStep, IngestStep, GoodBatch
<1>2. ShownAll(e, T, f)
  BY <1>1, ShownGrows DEF BatchStep, IngestStep
<1>3. AwaitedAll(e, f)
  <2>1. AwaitedAll(g, f)
    BY <1>1, EarlyKept DEF IngestStep
  <2> QED BY <2>1 DEF AwaitedAll, BatchStep
<1>4. PinsStep(c, e, T, f)
  <2>1. PinsStep(c, g, {x}, f)
    BY <1>1, PinKept DEF IngestStep
  <2> QED BY <2>1, PinsGrow DEF BatchStep
<1>5. ChipsAll(e, T, f)
  BY DEF ChipsAll, BatchStep, ChipsStep, IngestStep
<1> QED BY <1>1, <1>2, <1>3, <1>4, <1>5 DEF BatchStep

\* Nothing comes.
LEMMA BatchEmpty ==
  ASSUME NEW c, NEW ps, NEW e, ThreadFine(c, ps, e)
  PROVE  BatchStep(c, ps, e, {}, e)
<1>1. Deleted({}) = {} /\ Pins({}) = {}
  BY DEF Deleted, Pins
<1>2. ShownAll(e, {}, e)
  BY <1>1 DEF ShownAll, Remained, Ids
<1>3. PinsStep(c, e, {}, e)
  <2>1. \A seen : SeenAfter(e, seen, {}) = seen
    BY <1>1 DEF SeenAfter
  <2> QED BY <1>1, <2>1 DEF PinsStep
<1> QED BY <1>2, <1>3 DEF BatchStep, AwaitedAll, ChipsAll

\* A batch comes, of messages of the chain.
LEMMA BatchIngested ==
  ASSUME NEW c, NEW ps, WorldFine(c, ps), NEW e, ThreadFine(c, ps, e),
         NEW B, GoodBatch(c, ps, B)
  PROVE  BatchStep(c, ps, e, B, ingestMessages(e, B))
<1> DEFINE Good == {T \in SUBSET B : BatchStep(c, ps, e, T, ingestMessages(e, T))}
<1>1. ASSUME NEW T \in SUBSET B, \A U \in SUBSET T : U # T => U \in Good PROVE T \in Good
  <2>1. GoodBatch(c, ps, T) /\ IsFiniteSet(T) /\ \A b \in T : b.id \in Int
    <3>1. IsFiniteSet(T)
      BY FS_Subset DEF GoodBatch
    <3> QED BY <3>1, BubbleFits DEF GoodBatch
  <2>2. CASE T = {}
    BY <2>1, <2>2, BatchUnfolds, BatchEmpty
  <2>3. CASE T # {}
    <3>1. PICK x \in T : /\ \A b \in T : b.id <= x.id
                         /\ ingestMessages(e, T) = ingest(ingestMessages(e, T \ {x}), x)
      BY <2>1, <2>3, BatchUnfolds
    <3> DEFINE g == ingestMessages(e, T \ {x})
    <3>2. T \ {x} \in SUBSET T /\ T \ {x} # T
      OBVIOUS
    <3>3. BatchStep(c, ps, e, T \ {x}, g)
      BY <1>1, <3>2
    <3> HIDE DEF g
    <3>4. ThreadFine(c, ps, g) /\ GoodBubble(c, ps, x)
      BY <2>1, <3>3 DEF BatchStep, GoodBatch
    <3>5. IngestStep(c, ps, g, x, ingest(g, x))
      BY <3>4, Ingested
    <3>6. BatchStep(c, ps, e, T, ingest(g, x))
      BY <2>1, <3>1, <3>3, <3>5, BatchGrows
    <3> QED BY <3>1, <3>6 DEF g
  <2> QED BY <2>2, <2>3
<1>2. IsFiniteSet(B)
  BY DEF GoodBatch
<1> HIDE DEF Good
<1>3. SUBSET B \subseteq Good
  BY <1>1, <1>2, SubsetInduction
<1> QED BY <1>3 DEF Good

-------------------------------------------------------------------------------
(* What the SDK hands over *)

\* Raw messages, and folded ones.
RawBubbles(ids) == {RawBubble(i, chain[i], FALSE) : i \in ids}

\* The messages with reactions in what was folded.
Chipped(ids) == {chain[i].parent : i \in Seeded(ids)}

\* A raw message of the chain.
LEMMA RawBubbleGood ==
  ASSUME NEW c, NEW ps, WorldFine(c, ps), NEW i \in DOMAIN c
  PROVE  LET b == RawBubble(i, c[i], FALSE) IN
         /\ GoodBubble(c, ps, b) /\ ~b.pending /\ ~b.tombstoned /\ b.id = i
         /\ b.chips = NoChips /\ b.msg = c[i]
<1> DEFINE b == RawBubble(i, c[i], FALSE)
<1>1. c[i] \in WtMessage /\ i \in ChainIds
  BY IdsApart
<1>2. NoChips \in Chips
  BY DEF NoChips, Chips
<1>3. b.id = i /\ b.msg = c[i] /\ b.pending = FALSE /\ b.tombstoned = FALSE /\ b.chips = NoChips
  BY DEF RawBubble
<1>4. b \in Bubble
  BY <1>1, <1>2 DEF RawBubble, Bubble
<1> HIDE DEF b
<1>5. GoodBubble(c, ps, b)
  BY <1>3, <1>4 DEF GoodBubble
<1> QED BY <1>3, <1>5 DEF b

\* A page of them.
LEMMA RawBatch ==
  ASSUME WorldFine(chain, posts), NEW ids \in SUBSET DOMAIN chain
  PROVE  /\ GoodBatch(chain, posts, RawBubbles(ids))
         /\ \A b \in RawBubbles(ids) :
               /\ b.id \in ids /\ ~b.tombstoned /\ b.chips = NoChips /\ b.msg = chain[b.id]
         /\ \A i \in ids : \E b \in RawBubbles(ids) : b.id = i
<1> DEFINE f == [i \in ids |-> RawBubble(i, chain[i], FALSE)]
<1>1. IsFiniteSet(ids)
  <2>1. DOMAIN chain = 1 .. Len(chain) /\ Len(chain) \in Nat
    BY IdsApart
  <2>2. IsFiniteSet(DOMAIN chain)
    BY <2>1, FS_Interval
  <2> QED BY <2>2, FS_Subset
<1>2. IsFiniteSet(RawBubbles(ids))
  <2>1. f \in Surjection(ids, RawBubbles(ids))
    BY DEF RawBubbles, Surjection
  <2> HIDE DEF f
  <2> QED BY <1>1, <2>1, FS_Surjection
<1>3. ASSUME NEW i \in ids
      PROVE  LET b == RawBubble(i, chain[i], FALSE) IN
             /\ GoodBubble(chain, posts, b) /\ ~b.pending /\ ~b.tombstoned /\ b.id = i
             /\ b.chips = NoChips /\ b.msg = chain[i]
  BY RawBubbleGood
<1>4. ASSUME NEW b \in RawBubbles(ids)
      PROVE  /\ GoodBubble(chain, posts, b) /\ ~b.pending
             /\ b.id \in ids /\ ~b.tombstoned /\ b.chips = NoChips /\ b.msg = chain[b.id]
  <2>1. PICK i \in ids : b = RawBubble(i, chain[i], FALSE)
    BY DEF RawBubbles
  <2>2. GoodBubble(chain, posts, b) /\ ~b.pending /\ ~b.tombstoned /\ b.id = i
        /\ b.chips = NoChips /\ b.msg = chain[i]
    BY <1>3, <2>1
  <2> QED BY <2>2
<1>5. \A i \in ids : \E b \in RawBubbles(ids) : b.id = i
  BY <1>3 DEF RawBubbles
<1> QED BY <1>2, <1>4, <1>5 DEF GoodBatch

\* The reactions that the SDK folds, and the chips it makes of them.
LEMMA AggregateIsChips ==
  ASSUME WorldFine(chain, posts), NEW ids \in SUBSET DOMAIN chain, NEW m
  PROVE  /\ IsFiniteSet(LiveReactions(m, ids)) /\ LiveReactions(m, ids) \subseteq ids
         /\ aggregateReactions(m, ids) \in Chips
         /\ LiveReactions(m, ids) = {} => aggregateReactions(m, ids) = NoChips
<1> DEFINE L == LiveReactions(m, ids)
           By(w) == {i \in L : chain[i].sender = w}
<1>1. IsFiniteSet(DOMAIN chain)
  <2>1. DOMAIN chain = 1 .. Len(chain) /\ Len(chain) \in Nat
    BY IdsApart
  <2> QED BY <2>1, FS_Interval
<1>2. L \subseteq ids
  BY DEF LiveReactions, OfKind
<1>3. IsFiniteSet(L)
  BY <1>1, <1>2, FS_Subset
<1> HIDE DEF L
<1>4. \A w : IsFiniteSet(By(w))
  BY <1>3, FS_Subset
<1>5. \A w : Cardinality(By(w)) \in Nat
  BY <1>4, FS_CardinalityType
<1>6. L = {} => \A w : Cardinality(By(w)) = 0
  <2>1. L = {} => \A w : By(w) = {}
    OBVIOUS
  <2> QED BY <2>1, FS_EmptySet
<1>7. aggregateReactions(m, ids) = [w \in Wallets |-> Cardinality(By(w))]
  BY DEF aggregateReactions, L
<1> HIDE DEF By
<1>8. aggregateReactions(m, ids) \in Chips
  BY <1>5, <1>7 DEF Chips
<1>9. L = {} => aggregateReactions(m, ids) = NoChips
  BY <1>6, <1>7 DEF NoChips
<1> QED BY <1>2, <1>3, <1>8, <1>9 DEF L

\* What the SDK folded of a text or a tombstone: hidden, if it was deleted.
LEMMA FoldedGood ==
  ASSUME WorldFine(chain, posts), NEW ids \in SUBSET DOMAIN chain,
         NEW i \in OfKind("text", ids) \cup OfKind("tombstone", ids)
  PROVE  LET b == FoldedBubble(i, ids) IN
         /\ GoodBubble(chain, posts, b) /\ ~b.pending /\ b.id = i
         /\ b.msg.kind = chain[i].kind /\ b.msg.parent = chain[i].parent
         /\ b.tombstoned <=> i \in Targets(ids)
         /\ b.chips = aggregateReactions(i, ids)
<1> DEFINE raw == RawBubble(i, chain[i], FALSE)
           x == aggregateReactions(i, ids)
           chipped == [raw EXCEPT !.chips = x]
           b == FoldedBubble(i, ids)
<1>1. i \in DOMAIN chain /\ chain[i].kind \in {"text", "tombstone"}
  BY DEF OfKind
<1>2. /\ GoodBubble(chain, posts, raw) /\ ~raw.pending /\ ~raw.tombstoned /\ raw.id = i
      /\ raw.msg = chain[i]
  BY <1>1, RawBubbleGood
<1>3. x \in Chips
  BY AggregateIsChips
<1> HIDE DEF raw, x
<1>4. /\ GoodBubble(chain, posts, chipped) /\ chipped.id = i /\ chipped.msg = chain[i]
      /\ ~chipped.tombstoned /\ ~chipped.pending /\ chipped.chips = x
  BY <1>2, <1>3, ChipsGood
<1>5. b = IF i \in Targets(ids) THEN Hidden(chipped) ELSE chipped
  BY DEF FoldedBubble, raw, x
<1> HIDE DEF chipped, b
<1>6. CASE i \in Targets(ids)
  <2>1. chain[i].kind = "text"
    <3>1. PICK t \in OfKind("tombstone", ids) : chain[t].parent = i
      BY <1>6 DEF Targets
    <3>2. chain[t].kind = "tombstone" /\ t \in DOMAIN chain
      BY <3>1 DEF OfKind
    <3>3. chain[i].kind # "tombstone"
      BY <3>1, <3>2 DEF WorldFine, ChainFine, Fits
    <3> QED BY <1>1, <3>3
  <2>2. /\ GoodBubble(chain, posts, Hidden(chipped)) /\ Hidden(chipped).id = i
        /\ Hidden(chipped).tombstoned /\ ~Hidden(chipped).pending
        /\ Hidden(chipped).chips = x /\ Hidden(chipped).msg.kind = "text"
        /\ Hidden(chipped).msg.parent = chain[i].parent
    BY <1>4, <2>1, HiddenGood
  <2> QED BY <1>5, <1>6, <2>1, <2>2 DEF b, x
<1>7. CASE i \notin Targets(ids)
  BY <1>4, <1>5, <1>7 DEF b, x
<1> QED BY <1>6, <1>7

\* What a reconcile folds in: the texts it read, and the tombstones of what it read
\* or the store has.
LEMMA FoldedBatch ==
  ASSUME WorldFine(chain, posts), NEW ids \in SUBSET DOMAIN chain, NEW e
  PROVE  LET B == Visible(e, foldThread(ids)) IN
         /\ GoodBatch(chain, posts, B) /\ Pins(B) = {}
         /\ \A b \in B :
               /\ b.id \in ids /\ (b.tombstoned <=> b.id \in Targets(ids))
               /\ b.msg.kind \in {"text", "tombstone"}
               /\ b.id \notin Chipped(ids) => b.chips = NoChips
         /\ \A i \in OfKind("text", ids) : \E b \in B : b.id = i /\ b.msg.kind = "text"
         /\ Deleted(B) \subseteq Targets(ids)
         /\ Targets(ids) \cap Ids(e.messages) \subseteq Deleted(B)
<1> DEFINE D == OfKind("text", ids) \cup OfKind("tombstone", ids)
           F == foldThread(ids)
           B == Visible(e, F)
           f == [i \in D |-> FoldedBubble(i, ids)]
<1>1. ASSUME NEW i \in D
      PROVE  /\ GoodBubble(chain, posts, f[i]) /\ ~f[i].pending /\ f[i].id = i
             /\ f[i].msg.kind = chain[i].kind /\ f[i].msg.parent = chain[i].parent
             /\ f[i].tombstoned <=> i \in Targets(ids)
             /\ f[i].chips = aggregateReactions(i, ids)
  <2>1. i \in OfKind("text", ids) \cup OfKind("tombstone", ids)
    OBVIOUS
  <2>2. f[i] = FoldedBubble(i, ids)
    OBVIOUS
  <2> HIDE DEF f, D
  <2> QED BY <2>1, <2>2, FoldedGood
<1>2. D \subseteq ids /\ \A i \in D : chain[i].kind \in {"text", "tombstone"} /\ i \in DOMAIN chain
  BY DEF OfKind
<1>3. F = {f[i] : i \in D}
  BY DEF foldThread
<1>4. IsFiniteSet(D)
  <2>1. DOMAIN chain = 1 .. Len(chain) /\ Len(chain) \in Nat
    BY IdsApart
  <2>2. IsFiniteSet(DOMAIN chain)
    BY <2>1, FS_Interval
  <2> QED BY <1>2, <2>2, FS_Subset
<1>5. \A i \in OfKind("text", ids) : i \in D /\ chain[i].kind = "text"
  BY DEF OfKind
<1>6. \A i \in OfKind("tombstone", ids) : i \in D /\ chain[i].kind = "tombstone"
  BY DEF OfKind
<1>7. DOMAIN f = D
  OBVIOUS
<1> HIDE DEF D, f, F
<1>8. IsFiniteSet(F)
  <2>1. f \in Surjection(D, F)
    BY <1>3, <1>7 DEF Surjection, f
  <2> QED BY <1>4, <2>1, FS_Surjection
<1>9. B \subseteq F /\ \A b \in F : b.msg.kind # "tombstone" => b \in B
  BY DEF Visible
<1>10. \A b \in F : b.msg.kind = "tombstone" /\ b.msg.parent \in Ids(e.messages) => b \in B
  BY DEF Visible
<1> HIDE DEF B
<1>11. ASSUME NEW b \in B
       PROVE  /\ GoodBubble(chain, posts, b) /\ ~b.pending
              /\ b.id \in ids /\ (b.tombstoned <=> b.id \in Targets(ids))
              /\ b.msg.kind \in {"text", "tombstone"} /\ b.msg.kind = chain[b.id].kind
              /\ b.msg.parent = chain[b.id].parent
              /\ b.id \notin Chipped(ids) => b.chips = NoChips
  <2>1. PICK i \in D : b = f[i]
    BY <1>3, <1>9
  <2>2. /\ GoodBubble(chain, posts, b) /\ ~b.pending /\ b.id = i
        /\ b.msg.kind = chain[i].kind /\ b.msg.parent = chain[i].parent
        /\ b.tombstoned <=> i \in Targets(ids)
        /\ b.chips = aggregateReactions(i, ids)
    BY <1>1, <2>1
  <2>3. ASSUME i \notin Chipped(ids) PROVE b.chips = NoChips
    <3>1. LiveReactions(i, ids) = {}
      <4> SUFFICES ASSUME NEW j \in LiveReactions(i, ids) PROVE FALSE
        OBVIOUS
      <4>1. j \in ids /\ chain[j].kind = "reaction" /\ chain[j].parent = i
        BY DEF LiveReactions, OfKind
      <4>2. chain[i].kind = "text"
        BY <4>1 DEF WorldFine, ChainFine, Fits
      <4>3. i \in OfKind("text", ids)
        BY <1>2, <4>2 DEF OfKind
      <4>4. j \in Seeded(ids)
        BY <4>3 DEF Seeded
      <4> QED BY <2>3, <4>1, <4>4 DEF Chipped
    <3> QED BY <2>2, <3>1, AggregateIsChips
  <2> QED BY <1>2, <2>2, <2>3
<1>12. GoodBatch(chain, posts, B)
  BY <1>8, <1>9, <1>11, FS_Subset DEF GoodBatch
<1>13. Pins(B) = {}
  BY <1>11 DEF Pins
<1>14. ASSUME NEW i \in OfKind("text", ids) PROVE \E b \in B : b.id = i /\ b.msg.kind = "text"
  <2>1. f[i] \in F /\ f[i].id = i /\ f[i].msg.kind = "text"
    BY <1>1, <1>3, <1>5
  <2> QED BY <1>9, <2>1
<1>15. Deleted(B) \subseteq Targets(ids)
  <2> SUFFICES ASSUME NEW b \in B, b.msg.kind = "tombstone" PROVE b.msg.parent \in Targets(ids)
    BY DEF Deleted
  <2>1. b.id \in OfKind("tombstone", ids)
    BY <1>11 DEF OfKind
  <2> QED BY <1>11, <2>1 DEF Targets
<1>16. Targets(ids) \cap Ids(e.messages) \subseteq Deleted(B)
  <2> SUFFICES ASSUME NEW i \in OfKind("tombstone", ids), chain[i].parent \in Ids(e.messages)
               PROVE  chain[i].parent \in Deleted(B)
    BY DEF Targets
  <2>1. f[i] \in F /\ f[i].msg.kind = "tombstone" /\ f[i].msg.parent = chain[i].parent
    BY <1>1, <1>3, <1>6
  <2>2. f[i] \in B
    BY <1>10, <2>1
  <2> QED BY <2>1, <2>2 DEF Deleted
<1> QED BY <1>11, <1>12, <1>13, <1>14, <1>15, <1>16 DEF B, F

-------------------------------------------------------------------------------
(* The invariants *)

\* A record that has the id of somebody else's reaction was rebuilt with the
\* reader's, so the reader's own reaction is recorded too.
KnowsMine(rs, m) == \E j \in RecordsOf(rs, m) : rs[j].sender = Me /\ ~rs[j].pending
Misnamed(c, r) == r.id \in DOMAIN c /\ c[r.id].sender # r.sender
MineKnown(c, rs) == \A k \in DOMAIN rs : Misnamed(c, rs[k]) => KnowsMine(rs, rs[k].parent)

\* The reader's records of a message: echoes, and those that are a post's.
MyRecords(rs, m) == {k \in RecordsOf(rs, m) : rs[k].sender = Me}
Reacting(ps, m) == {k \in DOMAIN ps : ps[k].msg = Message("reaction", Me, m, NoText)}
Echoes(rs, m) == {k \in MyRecords(rs, m) : rs[k].pending}
Linked(ps, rs, m) == {k \in MyRecords(rs, m) : \E j \in Reacting(ps, m) : ps[j].at = rs[k].id}

\* They have ids of their own, the echoes come last, and of every post there is one
\* at most, as far as numbers go.
CountedAt(ps, rs, m) ==
    /\ \A j, k \in MyRecords(rs, m) : rs[j].id = rs[k].id => j = k
    /\ \A j, k \in MyRecords(rs, m) : j < k /\ rs[j].pending => rs[k].pending
    /\ Cardinality(Echoes(rs, m)) + Cardinality(Linked(ps, rs, m)) <= Cardinality(Reacting(ps, m))

RebuiltAt(c, rs, m) == \E k \in RecordsOf(rs, m) : rs[k].id = SEED_ID \/ Misnamed(c, rs[k])
Counted(c, ps, rs) == \A m \in DOMAIN c : RebuiltAt(c, rs, m) \/ CountedAt(ps, rs, m)

\* An echo is gone once its copy is shown, and is shown until then.
Settled(c, ps, M) ==
    \A k \in DOMAIN ps :
       /\ \A b \in M : b.id = ps[k].at /\ ~b.tombstoned => MaxPosts + k \notin Ids(M)
       /\ ps[k].msg.kind = "text" /\ ~ps[k].failed =>
             \/ MaxPosts + k \in Ids(M)
             \/ \E b \in M : ~b.pending /\ c[b.id] = ps[k].msg

\* The reads that are under way are of the chain.
ReadFine(c, r) ==
    /\ r.kind \in {"seed", "older", "reconcile"}
    /\ r.lo \in Nat \ {0} /\ r.hi \in Nat /\ r.hi <= Len(c) /\ r.lo <= r.hi + 1

\* The thread.
StoreInv(c, ps, e, seen) ==
    /\ ThreadFine(c, ps, e)
    /\ CurrentBut(e, {}) /\ Early(e) /\ PinOf(c, e, seen) /\ Settled(c, ps, e.messages)
    /\ MineKnown(c, e.reactionRecords) /\ Counted(c, ps, e.reactionRecords)

WarTableInv ==
    /\ WorldFine(chain, posts)
    /\ posts \in Seq([msg : WtMessage, at : Nat, failed : BOOLEAN])
    /\ inflight \subseteq DOMAIN chain /\ pinsSeen \subseteq DOMAIN chain
    /\ \A r \in reads : ReadFine(chain, r)
    /\ olderCursor \in Int /\ olderCursor <= Len(chain)
    /\ StoreInv(chain, posts, thread, pinsSeen)

-------------------------------------------------------------------------------
(* Records rebuilt from the chips of a reconcile *)

\* The first record of the same reaction; and what joining a record leaves.
First(rs, s, k) ==
    /\ k \in DOMAIN rs /\ SameReaction(rs[k], s)
    /\ \A j \in DOMAIN rs : SameReaction(rs[j], s) => k <= j
Replaced(rs, k, s, after) ==
    /\ DOMAIN after = DOMAIN rs /\ after[k] = s
    /\ \A j \in DOMAIN rs \ {k} : after[j] = rs[j]
Joined(rs, s, after) ==
    \/ PushedTo(rs, s, after) /\ \A k \in DOMAIN rs : ~SameReaction(rs[k], s)
    \/ \E k : First(rs, s, k) /\ IF rs[k].pending THEN Replaced(rs, k, s, after) ELSE after = rs

\* A record joins the others.
LEMMA UnionFine ==
  ASSUME NEW c, NEW ps, NEW rs, RecordsFine(c, ps, rs), NEW s, GoodRecord(c, ps, s)
  PROVE  RecordsFine(c, ps, unionRecord(rs, s)) /\ Joined(rs, s, unionRecord(rs, s))
<1> DEFINE same == {k \in DOMAIN rs : SameReaction(rs[k], s)}
           first == MinOf(same)
           after == [rs EXCEPT ![first] = s]
<1>1. unionRecord(rs, s) = IF same = {} THEN Push(rs, s)
                           ELSE IF rs[first].pending THEN after ELSE rs
  BY DEF unionRecord
<1>2. CASE same = {}
  <2>1. RecordsFine(c, ps, Push(rs, s)) /\ PushedTo(rs, s, Push(rs, s))
    BY PushFine
  <2>2. \A k \in DOMAIN rs : ~SameReaction(rs[k], s)
    BY <1>2
  <2> QED BY <1>1, <1>2, <2>1, <2>2 DEF Joined
<1>3. CASE same # {}
  <2>1. first \in same /\ \A k \in same : first <= k
    <3>1. IsFiniteSet(same)
      BY FS_Subset DEF RecordsFine
    <3>2. same \subseteq Int
      BY DEF RecordsFine
    <3> HIDE DEF same
    <3> QED BY <1>3, <3>1, <3>2, LeastAndGreatest
  <2>2. First(rs, s, first)
    BY <2>1 DEF First
  <2>3. DOMAIN after = DOMAIN rs /\ after[first] = s /\ \A j \in DOMAIN rs \ {first} : after[j] = rs[j]
    <3> HIDE DEF first
    <3> QED BY <2>1
  <2>4. RecordsFine(c, ps, after)
    <3>1. after = [k \in DOMAIN after |-> after[k]]
      OBVIOUS
    <3>2. \A k \in DOMAIN after : GoodRecord(c, ps, after[k])
      <4> HIDE DEF after, first
      <4> QED BY <2>3 DEF RecordsFine
    <3> HIDE DEF after, first
    <3> QED BY <2>3, <3>1, <3>2 DEF RecordsFine
  <2> HIDE DEF after, first
  <2> QED BY <1>1, <1>3, <2>2, <2>3, <2>4 DEF Joined, Replaced
<1> QED BY <1>2, <1>3

\* The reactions of the reader among those of a chip.
Mine(m, ids) == {j \in LiveReactions(m, ids) : chain[j].sender = Me}

\* What is rebuilt of a reaction: a reaction of its sender, without an id, or with
\* that of the reader's, if it leads the chip.
LEMMA SeedGood ==
  ASSUME WorldFine(chain, posts), NEW ids \in SUBSET DOMAIN chain, NEW i \in Seeded(ids)
  PROVE  LET s == seedReactionRecords(i, ids)
             m == chain[i].parent IN
         /\ GoodRecord(chain, posts, s) /\ s.parent = m /\ s.sender = chain[i].sender
         /\ ~s.pending /\ ~s.tombstoned
         /\ i \in LiveReactions(m, ids) /\ MinOf(LiveReactions(m, ids)) <= i
         /\ MinOf(LiveReactions(m, ids)) \in LiveReactions(m, ids)
         /\ IF i = MinOf(LiveReactions(m, ids)) /\ Mine(m, ids) # {}
            THEN /\ s.id \in Mine(m, ids) /\ \A j \in Mine(m, ids) : s.id <= j
                 /\ s.id # SEED_ID
            ELSE s.id = SEED_ID
<1> DEFINE m == chain[i].parent
           L == LiveReactions(m, ids)
           s == seedReactionRecords(i, ids)
           M == Mine(m, ids)
<1>1. PICK n \in OfKind("text", ids) : i \in LiveReactions(n, ids)
  BY DEF Seeded
<1>2. n = m /\ i \in L /\ m \in DOMAIN chain /\ chain[m].kind = "text"
  BY <1>1 DEF LiveReactions, OfKind
<1>3. \A j \in L : j \in DOMAIN chain /\ chain[j].kind = "reaction" /\ chain[j].parent = m
  BY DEF LiveReactions, OfKind
<1>4. IsFiniteSet(L) /\ L \subseteq ids
  BY AggregateIsChips
<1>5. /\ DOMAIN chain \subseteq ChainIds /\ \A j \in DOMAIN chain : chain[j] \in WtMessage
      /\ DOMAIN chain = 1 .. Len(chain) /\ Len(chain) \in Nat
  BY IdsApart
<1>6. s = [id |-> IF i = MinOf(L) /\ M # {} THEN MinOf(M) ELSE SEED_ID,
           parent |-> m, sender |-> chain[i].sender, tombstoned |-> FALSE, pending |-> FALSE]
  BY DEF seedReactionRecords, Mine
<1>7. M \subseteq L /\ IsFiniteSet(M)
  <2>1. M \subseteq L
    BY DEF Mine
  <2> QED BY <1>4, <2>1, FS_Subset
<1> HIDE DEF s, L, M
<1>8. L \subseteq Int
  BY <1>3, <1>5
<1>9. MinOf(L) <= i /\ MinOf(L) \in L
  BY <1>2, <1>4, <1>8, LeastAndGreatest
<1>10. M # {} => MinOf(M) \in M /\ \A j \in M : MinOf(M) <= j
  BY <1>7, <1>8, LeastAndGreatest
<1>11. IF i = MinOf(L) /\ M # {} THEN /\ s.id \in M /\ \A j \in M : s.id <= j
                                     /\ s.id # SEED_ID
                                ELSE s.id = SEED_ID
  <2>1. \A j \in L : j # SEED_ID
    BY <1>3, <1>5 DEF SEED_ID
  <2> QED BY <1>6, <1>7, <1>10, <2>1
<1>12. s.parent = m /\ s.sender = chain[i].sender /\ s.pending = FALSE /\ s.tombstoned = FALSE
  BY <1>6
<1>13. GoodRecord(chain, posts, s)
  <2>1. s.id = SEED_ID \/ s.id \in L
    BY <1>7, <1>11
  <2>2. s.id \in ChainIds \cup TempIds \cup {SEED_ID}
    BY <1>3, <1>5, <2>1
  <2>3. m \in ChainIds /\ chain[i].sender \in Wallets
    BY <1>2, <1>3, <1>5 DEF WtMessage
  <2>4. s \in ReactionRecord
    <3> DEFINE w == chain[i].sender
    <3>1. PICK x : s = [id |-> x, parent |-> m, sender |-> w,
                        tombstoned |-> FALSE, pending |-> FALSE]
      BY <1>6
    <3>2. x \in ChainIds \cup TempIds \cup {SEED_ID}
      BY <2>2, <3>1
    <3>3. w \in Wallets
      BY <2>3
    <3> HIDE DEF m, w
    <3> QED BY <2>3, <3>1, <3>2, <3>3 DEF ReactionRecord
  <2> QED BY <1>2, <1>3, <1>12, <2>1, <2>4 DEF GoodRecord
<1> QED BY <1>2, <1>9, <1>11, <1>12, <1>13 DEF s, L, M

\* The records of message m are the same.
SameAt(rs, after, m) ==
    RecordsOf(after, m) = RecordsOf(rs, m) /\ \A k \in RecordsOf(rs, m) : after[k] = rs[k]

\* The reader's own reaction is recorded, or is still to come in a chip that
\* somebody else leads.
MineUpto(ids, T, rs) ==
    \A k \in DOMAIN rs :
        Misnamed(chain, rs[k]) =>
            LET m == rs[k].parent IN
            \/ KnowsMine(rs, m)
            \/ /\ \E i \in Seeded(ids) \ T : chain[i].parent = m /\ chain[i].sender = Me
               /\ chain[MinOf(LiveReactions(m, ids))].sender # Me

\* The reactions to m of one wallet, and its records.
By(w, m, T) == {i \in T : chain[i].parent = m /\ chain[i].sender = w}
RecordsBy(rs, m, w) == {k \in RecordsOf(rs, m) : rs[k].sender = w}

\* A wallet of which nothing was recorded has one record, once one of its reactions
\* has been rebuilt.
Fresh(rs, m, w) == RecordsBy(rs, m, w) = {} /\ RecordsBy(rs, m, Me) = {}
CountsOne(T, m, w, after) ==
    IF By(w, m, T) = {} THEN RecordsBy(after, m, w) = {}
    ELSE \E k : RecordsBy(after, m, w) = {k} /\ ~after[k].tombstoned /\ ~after[k].pending
InOrder(ids, T) == \A i \in T, j \in Seeded(ids) : NotAfter(j, i) => j \in T

UnionStep(ids, rs, T, after) ==
    /\ RecordsFine(chain, posts, after)
    /\ \A m : (\A i \in T : chain[i].parent # m) => SameAt(rs, after, m)
    /\ MineKnown(chain, rs) => MineUpto(ids, T, after)
    /\ \A m, w : Fresh(rs, m, w) /\ MineKnown(chain, rs) /\ InOrder(ids, T) => CountsOne(T, m, w, after)
    /\ Counted(chain, posts, rs) => Counted(chain, posts, after)

\* One record joins: the records of the other messages.
LEMMA JoinedElsewhere ==
  ASSUME NEW rs, NEW s, NEW after, Joined(rs, s, after), NEW m, m # s.parent
  PROVE  SameAt(rs, after, m)
<1>1. CASE PushedTo(rs, s, after)
  <2>1. PICK p : /\ p \notin DOMAIN rs /\ DOMAIN after = DOMAIN rs \cup {p}
                 /\ after[p] = s /\ \A k \in DOMAIN rs : after[k] = rs[k]
    BY <1>1 DEF PushedTo
  <2> QED BY <2>1 DEF SameAt, RecordsOf
<1>2. ASSUME NEW k, First(rs, s, k), Replaced(rs, k, s, after) PROVE SameAt(rs, after, m)
  <2>1. k \in DOMAIN rs /\ rs[k].parent = s.parent
    BY <1>2 DEF First, SameReaction
  <2>2. DOMAIN after = DOMAIN rs /\ after[k] = s /\ \A j \in DOMAIN rs \ {k} : after[j] = rs[j]
    BY <1>2 DEF Replaced
  <2> QED BY <2>1, <2>2 DEF SameAt, RecordsOf
<1>3. CASE after = rs
  BY <1>3 DEF SameAt
<1> QED BY <1>1, <1>2, <1>3 DEF Joined

\* One record joins: the others stay, but for an echo.
LEMMA JoinedKeeps ==
  ASSUME NEW rs, NEW s, NEW after, Joined(rs, s, after)
  PROVE  /\ \A k \in DOMAIN after :
               after[k] = s \/ (k \in DOMAIN rs /\ after[k] = rs[k])
         /\ \A k \in DOMAIN rs : ~rs[k].pending => k \in DOMAIN after /\ after[k] = rs[k]
<1>1. CASE PushedTo(rs, s, after)
  BY <1>1 DEF PushedTo
<1>2. ASSUME NEW k, rs[k].pending, Replaced(rs, k, s, after)
      PROVE  /\ \A j \in DOMAIN after : after[j] = s \/ (j \in DOMAIN rs /\ after[j] = rs[j])
             /\ \A j \in DOMAIN rs : ~rs[j].pending => j \in DOMAIN after /\ after[j] = rs[j]
  BY <1>2 DEF Replaced
<1>3. CASE after = rs
  BY <1>3
<1> QED BY <1>1, <1>2, <1>3 DEF Joined

\* One record joins: whether the reader's own are known.
LEMMA MineGrows ==
  ASSUME WorldFine(chain, posts), NEW ids \in SUBSET DOMAIN chain,
         NEW T \in SUBSET Seeded(ids), NEW x \in T, \A j \in T : NotAfter(j, x),
         NEW rs, RecordsFine(chain, posts, rs), MineUpto(ids, T \ {x}, rs),
         NEW after, Joined(rs, seedReactionRecords(x, ids), after)
  PROVE  MineUpto(ids, T, after)
<1> DEFINE s == seedReactionRecords(x, ids)
           m0 == chain[x].parent
           L == LiveReactions(m0, ids)
           M == Mine(m0, ids)
<1>1. /\ s.parent = m0 /\ s.sender = chain[x].sender /\ ~s.pending
      /\ x \in L /\ MinOf(L) <= x
      /\ IF x = MinOf(L) /\ M # {} THEN s.id \in M /\ \A j \in M : s.id <= j
                                   ELSE s.id = SEED_ID
  BY SeedGood
<1>2. \A j \in L : j \in ids /\ j \in DOMAIN chain /\ chain[j].kind = "reaction" /\ chain[j].parent = m0
  BY DEF LiveReactions, OfKind
<1>3. L \subseteq Seeded(ids)
  <2>1. x \in Seeded(ids)
    OBVIOUS
  <2>2. PICK n \in OfKind("text", ids) : x \in LiveReactions(n, ids)
    BY <2>1 DEF Seeded
  <2>3. n = m0
    BY <2>2 DEF LiveReactions
  <2> QED BY <2>2, <2>3 DEF Seeded
<1>4. M = {j \in L : chain[j].sender = Me}
  BY DEF Mine
<1>5. /\ DOMAIN chain \subseteq Int /\ SEED_ID \notin DOMAIN chain
      /\ L \subseteq Int /\ m0 \in Int
  <2>1. DOMAIN chain = 1 .. Len(chain) /\ Len(chain) \in Nat
    BY IdsApart
  <2>2. m0 \in DOMAIN chain
    BY <1>1, SeedGood DEF GoodRecord
  <2> QED BY <1>2, <2>1, <2>2 DEF SEED_ID
<1> HIDE DEF s, L, M
<1>6. Joined(rs, s, after)
  BY DEF s
<1>7. ASSUME NEW m, KnowsMine(rs, m) PROVE KnowsMine(after, m)
  <2>1. PICK j \in RecordsOf(rs, m) : rs[j].sender = Me /\ ~rs[j].pending
    BY <1>7 DEF KnowsMine
  <2>2. j \in DOMAIN after /\ after[j] = rs[j]
    BY <1>6, <2>1, JoinedKeeps DEF RecordsOf
  <2> QED BY <2>1, <2>2 DEF KnowsMine, RecordsOf
<1>8. ASSUME chain[x].sender = Me
      PROVE  \/ KnowsMine(after, m0)
             \/ /\ x = MinOf(L)
                /\ \E k \in DOMAIN rs : Misnamed(chain, rs[k]) /\ rs[k].parent = m0
  <2>1. CASE PushedTo(rs, s, after)
    BY <1>1, <1>8, <2>1 DEF PushedTo, KnowsMine, RecordsOf
  <2>2. ASSUME NEW k, First(rs, s, k), rs[k].pending, Replaced(rs, k, s, after)
        PROVE  KnowsMine(after, m0)
    BY <1>1, <1>8, <2>2 DEF Replaced, First, KnowsMine, RecordsOf
  <2>3. ASSUME NEW k, First(rs, s, k), ~rs[k].pending, after = rs
        PROVE  \/ KnowsMine(after, m0)
               \/ /\ x = MinOf(L)
                  /\ \E j \in DOMAIN rs : Misnamed(chain, rs[j]) /\ rs[j].parent = m0
    <3>1. /\ k \in DOMAIN rs /\ rs[k].parent = m0
          /\ rs[k].sender = Me \/ (rs[k].id = s.id /\ s.id # SEED_ID)
      BY <1>1, <1>8, <2>3 DEF First, SameReaction
    <3>2. CASE rs[k].sender = Me
      BY <2>3, <3>1, <3>2 DEF KnowsMine, RecordsOf
    <3>3. CASE rs[k].sender # Me
      <4>1. x = MinOf(L) /\ s.id \in M
        BY <1>1, <3>1, <3>3
      <4>2. rs[k].id \in DOMAIN chain /\ chain[rs[k].id].sender = Me
        BY <1>2, <1>4, <3>1, <3>3, <4>1
      <4> QED BY <3>1, <3>3, <4>1, <4>2 DEF Misnamed
    <3> QED BY <3>2, <3>3
  <2> QED BY <1>6, <2>1, <2>2, <2>3 DEF Joined
<1>9. ASSUME NEW k \in DOMAIN rs, Misnamed(chain, rs[k])
      PROVE  LET m == rs[k].parent IN
             \/ KnowsMine(after, m)
             \/ /\ \E i \in Seeded(ids) \ T : chain[i].parent = m /\ chain[i].sender = Me
                /\ chain[MinOf(LiveReactions(m, ids))].sender # Me
  <2> DEFINE m == rs[k].parent
  <2>1. CASE KnowsMine(rs, m)
    BY <1>7, <2>1
  <2>2. ASSUME NEW i \in Seeded(ids) \ (T \ {x}), chain[i].parent = m, chain[i].sender = Me,
               chain[MinOf(LiveReactions(m, ids))].sender # Me
        PROVE  \/ KnowsMine(after, m)
               \/ /\ \E j \in Seeded(ids) \ T : chain[j].parent = m /\ chain[j].sender = Me
                  /\ chain[MinOf(LiveReactions(m, ids))].sender # Me
    <3>1. CASE i = x
      <4>1. m = m0 /\ chain[MinOf(L)].sender # Me
        BY <2>2, <3>1 DEF L
      <4>2. x # MinOf(L)
        BY <2>2, <3>1, <4>1
      <4>3. KnowsMine(after, m0)
        BY <1>8, <2>2, <3>1, <4>2
      <4> QED BY <4>1, <4>3
    <3>2. CASE i # x
      BY <2>2, <3>2
    <3> QED BY <3>1, <3>2
  <2> QED BY <1>9, <2>1, <2>2 DEF MineUpto
<1>10. ASSUME Misnamed(chain, s)
       PROVE  \/ KnowsMine(after, m0)
              \/ /\ \E i \in Seeded(ids) \ T : chain[i].parent = m0 /\ chain[i].sender = Me
                 /\ chain[MinOf(L)].sender # Me
  <2>1. x = MinOf(L) /\ s.id \in M /\ chain[x].sender # chain[s.id].sender
    BY <1>1, <1>5, <1>10 DEF Misnamed
  <2>2. s.id \in L /\ chain[s.id].sender = Me
    BY <1>4, <2>1
  <2>3. s.id \notin T
    <3>1. SUFFICES ASSUME s.id \in T PROVE FALSE
      OBVIOUS
    <3>2. s.id <= x
      <4>1. chain[s.id].parent = m0
        BY <1>2, <2>2
      <4>2. NotAfter(s.id, x)
        BY <3>1
      <4> QED BY <1>5, <4>1, <4>2 DEF NotAfter
    <3>3. MinOf(L) <= s.id
      <4>1. IsFiniteSet(L)
        BY AggregateIsChips DEF L
      <4> QED BY <1>5, <2>2, <4>1, LeastAndGreatest
    <3>4. s.id \in Int /\ x \in Int
      BY <1>1, <1>5, <2>2
    <3>5. s.id = x
      BY <2>1, <3>2, <3>3, <3>4
    <3> QED BY <2>1, <3>5
  <2> QED BY <1>2, <1>3, <2>1, <2>2, <2>3
<1>11. ASSUME NEW k \in DOMAIN after, Misnamed(chain, after[k])
       PROVE  LET m == after[k].parent IN
              \/ KnowsMine(after, m)
              \/ /\ \E i \in Seeded(ids) \ T : chain[i].parent = m /\ chain[i].sender = Me
                 /\ chain[MinOf(LiveReactions(m, ids))].sender # Me
  <2>1. after[k] = s \/ (k \in DOMAIN rs /\ after[k] = rs[k])
    BY <1>6, JoinedKeeps
  <2>2. CASE after[k] = s
    BY <1>1, <1>10, <1>11, <2>2 DEF L
  <2>3. CASE k \in DOMAIN rs /\ after[k] = rs[k]
    BY <1>9, <1>11, <2>3
  <2> QED BY <2>1, <2>2, <2>3
<1> QED BY <1>11 DEF MineUpto

\* One record joins: how many there are of a wallet.
LEMMA CountsGrow ==
  ASSUME WorldFine(chain, posts), NEW ids \in SUBSET DOMAIN chain,
         NEW T \in SUBSET Seeded(ids), NEW x \in T, \A j \in T : NotAfter(j, x),
         InOrder(ids, T),
         NEW rs, MineKnown(chain, rs), NEW m, NEW w, Fresh(rs, m, w),
         NEW g, RecordsFine(chain, posts, g), CountsOne(T \ {x}, m, w, g),
         (\A j \in T \ {x} : chain[j].parent # m) => SameAt(rs, g, m),
         NEW after, Joined(g, seedReactionRecords(x, ids), after)
  PROVE  CountsOne(T, m, w, after)
<1> DEFINE s == seedReactionRecords(x, ids)
           m0 == chain[x].parent
           L == LiveReactions(m0, ids)
           M == Mine(m0, ids)
           U == T \ {x}
<1>1. /\ s.parent = m0 /\ s.sender = chain[x].sender /\ ~s.pending /\ ~s.tombstoned
      /\ x \in L /\ MinOf(L) <= x
      /\ IF x = MinOf(L) /\ M # {} THEN s.id \in M /\ s.id # SEED_ID ELSE s.id = SEED_ID
      /\ m0 \in DOMAIN chain
  BY SeedGood DEF GoodRecord
<1>2. /\ IsFiniteSet(L) /\ L \subseteq Int /\ m0 \in Int
      /\ \A j \in L : j \in DOMAIN chain /\ chain[j].parent = m0
  <2>1. DOMAIN chain = 1 .. Len(chain) /\ Len(chain) \in Nat
    BY IdsApart
  <2>2. IsFiniteSet(L)
    BY AggregateIsChips
  <2>3. \A j \in L : j \in DOMAIN chain /\ chain[j].parent = m0
    BY DEF LiveReactions, OfKind
  <2> QED BY <1>1, <2>1, <2>2, <2>3
<1>3. \A j \in L : MinOf(L) <= j
  <2> HIDE DEF L
  <2> QED BY <1>1, <1>2, LeastAndGreatest
<1>4. MinOf(L) \in L
  <2> HIDE DEF L
  <2> QED BY <1>1, <1>2, LeastAndGreatest
<1>5. \A j \in Seeded(ids) : chain[j].parent = m0 => j \in L
  BY DEF Seeded, LiveReactions
<1>6. L \subseteq Seeded(ids)
  <2>1. PICK n \in OfKind("text", ids) : x \in LiveReactions(n, ids)
    BY DEF Seeded
  <2>2. n = m0
    BY <2>1 DEF LiveReactions
  <2> QED BY <2>1, <2>2 DEF Seeded
<1>7. ASSUME x # MinOf(L) PROVE MinOf(L) \in U
  <2>1. NotAfter(MinOf(L), x)
    BY <1>1, <1>2, <1>4 DEF NotAfter
  <2> QED BY <1>4, <1>6, <1>7, <2>1 DEF InOrder
<1>8. ASSUME x = MinOf(L), NEW j \in U PROVE chain[j].parent # m0
  <2>1. SUFFICES ASSUME chain[j].parent = m0 PROVE FALSE
    OBVIOUS
  <2>2. j \in L /\ MinOf(L) <= j
    BY <1>3, <1>5, <2>1
  <2>3. j <= x
    BY <1>2, <2>1 DEF NotAfter
  <2> QED BY <1>1, <1>2, <1>8, <2>2, <2>3
<1>9. M = {j \in L : chain[j].sender = Me}
  BY DEF Mine
<1>10. \A i : i \in By(w, m, T) <=> i \in By(w, m, U) \/ (i = x /\ m = m0 /\ chain[x].sender = w)
  BY DEF By
<1> HIDE DEF s, L, M, U
<1>11. Joined(g, s, after) /\ CountsOne(U, m, w, g)
       /\ ((\A j \in U : chain[j].parent # m) => SameAt(rs, g, m))
  BY DEF s, U
<1>12. CASE m # m0
  <2>1. SameAt(g, after, m)
    BY <1>1, <1>11, <1>12, JoinedElsewhere
  <2>2. RecordsBy(after, m, w) = RecordsBy(g, m, w)
        /\ \A k \in RecordsBy(g, m, w) : after[k] = g[k]
    BY <2>1 DEF SameAt, RecordsBy
  <2>3. By(w, m, T) = {} <=> By(w, m, U) = {}
    BY <1>10, <1>12
  <2> QED BY <1>11, <2>2, <2>3 DEF CountsOne
<1>13. ASSUME m = m0, s.sender # w PROVE CountsOne(T, m, w, after)
  <2>1. RecordsBy(after, m, w) = RecordsBy(g, m, w)
        /\ \A k \in RecordsBy(g, m, w) : after[k] = g[k]
    <3>1. CASE PushedTo(g, s, after)
      <4>1. PICK p : /\ p \notin DOMAIN g /\ DOMAIN after = DOMAIN g \cup {p}
                     /\ after[p] = s /\ \A k \in DOMAIN g : after[k] = g[k]
        BY <3>1 DEF PushedTo
      <4> QED BY <1>13, <4>1 DEF RecordsBy, RecordsOf
    <3>2. ASSUME NEW k, First(g, s, k), g[k].pending, Replaced(g, k, s, after)
          PROVE  /\ RecordsBy(after, m, w) = RecordsBy(g, m, w)
                 /\ \A j \in RecordsBy(g, m, w) : after[j] = g[j]
      <4>1. k \in DOMAIN g /\ (g[k].sender = s.sender \/ (g[k].id = s.id /\ s.id # SEED_ID))
        BY <3>2 DEF First, SameReaction
      <4>2. g[k].id \notin DOMAIN chain
        <5>1. GoodRecord(chain, posts, g[k])
          BY <4>1 DEF RecordsFine
        <5> QED BY <3>2, <5>1, IdsApart DEF GoodRecord
      <4>3. s.id # SEED_ID => s.id \in DOMAIN chain
        BY <1>1, <1>2, <1>9
      <4>4. g[k].sender # w
        BY <1>13, <4>1, <4>2, <4>3
      <4>5. DOMAIN after = DOMAIN g /\ after[k] = s /\ \A j \in DOMAIN g \ {k} : after[j] = g[j]
        BY <3>2 DEF Replaced
      <4> QED BY <1>13, <4>4, <4>5 DEF RecordsBy, RecordsOf
    <3>3. CASE after = g
      BY <3>3
    <3> QED BY <1>11, <3>1, <3>2, <3>3 DEF Joined
  <2>2. By(w, m, T) = {} <=> By(w, m, U) = {}
    BY <1>1, <1>10, <1>13
  <2> QED BY <1>11, <2>1, <2>2 DEF CountsOne
<1>14. ASSUME m = m0, s.sender = w PROVE CountsOne(T, m, w, after)
  <2>1. By(w, m, T) # {}
    BY <1>1, <1>10, <1>14
  <2>2. CASE By(w, m, U) = {}
    <3>1. \A k \in DOMAIN g : g[k].parent = m => g[k].sender # w
      BY <1>11, <2>2 DEF CountsOne, RecordsBy, RecordsOf
    <3>2. ASSUME s.id # SEED_ID, NEW k \in DOMAIN g, g[k].parent = m, g[k].id = s.id PROVE FALSE
      <4>1. x = MinOf(L) /\ s.id \in M
        BY <1>1, <3>2
      <4>2. SameAt(rs, g, m)
        BY <1>8, <1>11, <1>14, <4>1
      <4>3. k \in RecordsOf(rs, m) /\ rs[k].id = s.id
        BY <3>2, <4>2 DEF SameAt, RecordsOf
      <4>4. s.id \in DOMAIN chain /\ chain[s.id].sender = Me
        BY <1>2, <1>9, <4>1
      <4>5. RecordsBy(rs, m, Me) = {}
        BY DEF Fresh
      <4>6. Misnamed(chain, rs[k])
        BY <4>3, <4>4, <4>5 DEF Misnamed, RecordsBy
      <4>7. KnowsMine(rs, m)
        BY <4>3, <4>6 DEF MineKnown, RecordsOf
      <4> QED BY <4>5, <4>7 DEF KnowsMine, RecordsBy
    <3>3. \A k \in DOMAIN g : ~SameReaction(g[k], s)
      BY <1>1, <1>14, <3>1, <3>2 DEF SameReaction
    <3>4. PushedTo(g, s, after)
      BY <1>11, <3>3 DEF Joined, First
    <3>5. PICK p : /\ p \notin DOMAIN g /\ DOMAIN after = DOMAIN g \cup {p}
                   /\ after[p] = s /\ \A k \in DOMAIN g : after[k] = g[k]
      BY <3>4 DEF PushedTo
    <3>6. RecordsBy(after, m, w) = {p}
      BY <1>1, <1>14, <3>1, <3>5 DEF RecordsBy, RecordsOf
    <3> QED BY <1>1, <2>1, <3>5, <3>6 DEF CountsOne
  <2>3. CASE By(w, m, U) # {}
    <3>1. PICK k : RecordsBy(g, m, w) = {k} /\ ~g[k].tombstoned /\ ~g[k].pending
      BY <1>11, <2>3 DEF CountsOne
    <3>2. k \in DOMAIN g /\ g[k].parent = m /\ g[k].sender = w
      BY <3>1 DEF RecordsBy, RecordsOf
    <3>3. x # MinOf(L)
      BY <1>8, <1>14, <2>3 DEF By
    <3>4. s.id = SEED_ID
      BY <1>1, <3>3
    <3>5. SameReaction(g[k], s)
      BY <1>1, <1>14, <3>2 DEF SameReaction
    <3>6. \A j \in DOMAIN g : SameReaction(g[j], s) => j = k
      BY <1>1, <1>14, <3>1, <3>4 DEF SameReaction, RecordsBy, RecordsOf
    <3>7. after = g
      BY <1>11, <3>1, <3>2, <3>5, <3>6 DEF Joined, First
    <3> QED BY <2>1, <3>1, <3>7 DEF CountsOne
  <2> QED BY <2>2, <2>3
<1> QED BY <1>12, <1>13, <1>14

-------------------------------------------------------------------------------
(* Counting the reader's records *)

\* They are finitely many.
LEMMA CountsFinite ==
  ASSUME NEW c, NEW ps, WorldFine(c, ps), NEW rs, RecordsFine(c, ps, rs), NEW m
  PROVE  /\ IsFiniteSet(Echoes(rs, m)) /\ Cardinality(Echoes(rs, m)) \in Nat
         /\ IsFiniteSet(Linked(ps, rs, m)) /\ Cardinality(Linked(ps, rs, m)) \in Nat
         /\ IsFiniteSet(Reacting(ps, m)) /\ Cardinality(Reacting(ps, m)) \in Nat
         /\ IsFiniteSet(MyRecords(rs, m)) /\ Cardinality(MyRecords(rs, m)) \in Nat
<1>1. Echoes(rs, m) \subseteq DOMAIN rs /\ Linked(ps, rs, m) \subseteq DOMAIN rs
      /\ MyRecords(rs, m) \subseteq DOMAIN rs
  BY DEF Echoes, Linked, MyRecords, RecordsOf
<1>2. IsFiniteSet(DOMAIN rs)
  BY DEF RecordsFine
<1>3. IsFiniteSet(DOMAIN ps)
  <2>1. DOMAIN ps = 1 .. Len(ps) /\ Len(ps) \in Nat
    BY DEF WorldFine, PostsFine
  <2> QED BY <2>1, FS_Interval
<1>4. Reacting(ps, m) \subseteq DOMAIN ps
  BY DEF Reacting
<1>5. /\ IsFiniteSet(Echoes(rs, m)) /\ IsFiniteSet(Linked(ps, rs, m))
      /\ IsFiniteSet(MyRecords(rs, m)) /\ IsFiniteSet(Reacting(ps, m))
  BY <1>1, <1>2, <1>3, <1>4, FS_Subset
<1> QED BY <1>5, FS_CardinalityType

\* A post's record is of the chain, and an echo is not.
LEMMA LinkedLanded ==
  ASSUME NEW c, NEW ps, WorldFine(c, ps), NEW rs, RecordsFine(c, ps, rs), NEW m
  PROVE  /\ \A k \in Linked(ps, rs, m) : ~rs[k].pending /\ rs[k].id \in DOMAIN c
         /\ \A k \in Echoes(rs, m) : rs[k].id \notin DOMAIN c
<1>1. ASSUME NEW k \in DOMAIN rs PROVE GoodRecord(c, ps, rs[k])
  BY DEF RecordsFine
<1>2. \A k \in MyRecords(rs, m) : k \in DOMAIN rs
  BY DEF MyRecords, RecordsOf
<1>3. ASSUME NEW k \in DOMAIN rs, rs[k].pending PROVE rs[k].id \notin DOMAIN c /\ rs[k].id # 0
  <2>1. PICK j \in DOMAIN ps : rs[k].id = MaxPosts + j
    BY <1>1, <1>3 DEF GoodRecord
  <2>2. rs[k].id \in TempIds /\ rs[k].id \notin ChainIds
    BY <2>1, IdsApart
  <2> QED BY <2>2, IdsApart DEF TempIds
<1>4. ASSUME NEW k \in Linked(ps, rs, m) PROVE ~rs[k].pending /\ rs[k].id \in DOMAIN c
  <2>1. PICK j \in Reacting(ps, m) : ps[j].at = rs[k].id
    BY DEF Linked
  <2>2. k \in DOMAIN rs /\ j \in DOMAIN ps
    BY <1>2 DEF Linked, Reacting
  <2>3. PostFine(c, ps[j])
    BY <2>2 DEF WorldFine, PostsFine
  <2>4. rs[k].id # 0
    <3>1. CASE rs[k].pending
      BY <1>3, <2>2, <3>1
    <3>2. CASE ~rs[k].pending /\ rs[k].id # SEED_ID
      BY <1>1, <2>2, <3>2, IdsApart DEF GoodRecord
    <3> QED BY <3>1, <3>2 DEF SEED_ID
  <2>5. rs[k].id \in DOMAIN c
    BY <2>1, <2>3, <2>4 DEF PostFine
  <2> QED BY <1>3, <2>2, <2>5
<1>5. \A k \in Echoes(rs, m) : rs[k].id \notin DOMAIN c
  BY <1>2, <1>3 DEF Echoes
<1> QED BY <1>4, <1>5

\* Records with ids of their own are a post's only as often as there are posts.
LEMMA LinkedUpTo ==
  ASSUME NEW c, NEW ps, WorldFine(c, ps), NEW rs, RecordsFine(c, ps, rs), NEW m,
         \A j, k \in MyRecords(rs, m) : rs[j].id = rs[k].id => j = k
  PROVE  Cardinality(Linked(ps, rs, m)) <= Cardinality(Reacting(ps, m))
<1> DEFINE S == Linked(ps, rs, m)
           R == Reacting(ps, m)
           f == [k \in S |-> CHOOSE j \in R : ps[j].at = rs[k].id]
<1>1. \A k \in S : f[k] \in R /\ ps[f[k]].at = rs[k].id
  BY DEF Linked
<1>2. S \subseteq MyRecords(rs, m)
  BY DEF Linked
<1>3. f \in [S -> R]
  BY <1>1
<1> HIDE DEF f, S, R
<1>4. f \in Injection(S, R)
  BY <1>1, <1>2, <1>3 DEF Injection, IsInjective
<1>5. IsFiniteSet(R)
  BY CountsFinite DEF R
<1> QED BY <1>4, <1>5, FS_Injection DEF S, R

\* Records that only differ in whether they were taken back count the same.
LEMMA CountedAlike ==
  ASSUME NEW ps, NEW m, NEW rs, CountedAt(ps, rs, m),
         NEW after, MyRecords(after, m) = MyRecords(rs, m),
         \A k \in MyRecords(rs, m) : after[k].id = rs[k].id /\ after[k].pending = rs[k].pending
  PROVE  CountedAt(ps, after, m)
<1>1. Echoes(after, m) = Echoes(rs, m) /\ Linked(ps, after, m) = Linked(ps, rs, m)
  BY DEF Echoes, Linked
<1> QED BY <1>1 DEF CountedAt

\* One record joins: the reader's own still count.
LEMMA CountedGrows ==
  ASSUME WorldFine(chain, posts), NEW ids \in SUBSET DOMAIN chain, NEW x \in Seeded(ids),
         NEW g, RecordsFine(chain, posts, g), Counted(chain, posts, g),
         NEW after, RecordsFine(chain, posts, after), Joined(g, seedReactionRecords(x, ids), after)
  PROVE  Counted(chain, posts, after)
<1> DEFINE s == seedReactionRecords(x, ids)
           m0 == chain[x].parent
           M == Mine(m0, ids)
<1>1. /\ s.parent = m0 /\ s.sender = chain[x].sender /\ ~s.pending
      /\ s.id = SEED_ID \/ s.id \in M
      /\ s.id # SEED_ID => s.id \in DOMAIN chain /\ chain[s.id].sender = Me
  <2>1. \A j \in M : j \in DOMAIN chain /\ chain[j].sender = Me
    BY DEF Mine, LiveReactions, OfKind
  <2>2. /\ s.parent = m0 /\ s.sender = chain[x].sender /\ ~s.pending
        /\ s.id = SEED_ID \/ s.id \in M
    BY SeedGood
  <2> QED BY <2>1, <2>2
<1> HIDE DEF s, M, m0
<1>2. Joined(g, s, after)
  BY DEF s
<1> SUFFICES ASSUME NEW m \in DOMAIN chain, ~RebuiltAt(chain, after, m)
             PROVE  CountedAt(posts, after, m)
  BY DEF Counted
<1>3. CASE m # m0
  <2>1. SameAt(g, after, m)
    BY <1>1, <1>2, <1>3, JoinedElsewhere
  <2>2. ~RebuiltAt(chain, g, m)
    BY <2>1 DEF SameAt, RebuiltAt
  <2>3. MyRecords(after, m) = MyRecords(g, m)
    BY <2>1 DEF SameAt, MyRecords
  <2>4. \A k \in MyRecords(g, m) : after[k].id = g[k].id /\ after[k].pending = g[k].pending
    BY <2>1 DEF SameAt, MyRecords
  <2>5. CountedAt(posts, g, m)
    BY <2>2 DEF Counted
  <2> QED BY <2>3, <2>4, <2>5, CountedAlike
<1>4. CASE m = m0
  <2>1. ASSUME PushedTo(g, s, after), \A k \in DOMAIN g : ~SameReaction(g[k], s)
        PROVE  CountedAt(posts, after, m)
    <3>1. PICK p : /\ p \notin DOMAIN g /\ DOMAIN after = DOMAIN g \cup {p}
                   /\ after[p] = s /\ \A k \in DOMAIN g : after[k] = g[k]
      BY <2>1 DEF PushedTo
    <3>2. p \in RecordsOf(after, m)
      BY <1>1, <1>4, <3>1 DEF RecordsOf
    <3>3. s.id # SEED_ID /\ ~Misnamed(chain, s)
      BY <3>1, <3>2 DEF RebuiltAt
    <3>4. s.sender = Me
      BY <1>1, <3>3 DEF Misnamed
    <3>5. MyRecords(after, m) = {p}
      BY <1>1, <1>4, <2>1, <3>1, <3>4 DEF MyRecords, RecordsOf, SameReaction
    <3>6. Echoes(after, m) = {}
      BY <1>1, <3>1, <3>5 DEF Echoes
    <3>7. Cardinality(Echoes(after, m)) = 0
      BY <3>6, FS_EmptySet
    <3>8. Cardinality(Linked(posts, after, m)) <= Cardinality(Reacting(posts, m))
      BY <3>5, LinkedUpTo
    <3> QED BY <3>5, <3>7, <3>8, CountsFinite DEF CountedAt
  <2>2. ASSUME NEW k, First(g, s, k), g[k].pending, Replaced(g, k, s, after)
        PROVE  CountedAt(posts, after, m)
    <3>1. k \in DOMAIN g /\ DOMAIN after = DOMAIN g /\ after[k] = s
          /\ \A j \in DOMAIN g \ {k} : after[j] = g[j]
      BY <2>2 DEF First, Replaced
    <3>2. GoodRecord(chain, posts, g[k])
      BY <3>1 DEF RecordsFine
    <3>3. g[k].id \notin DOMAIN chain /\ g[k].id # SEED_ID
      <4>1. g[k].id \in TempIds /\ g[k].id \notin ChainIds
        BY <2>2, <3>2, IdsApart DEF GoodRecord
      <4> QED BY <4>1, IdsApart DEF TempIds, SEED_ID
    <3>4. k \in RecordsOf(after, m)
      BY <1>1, <1>4, <3>1 DEF RecordsOf
    <3>5. s.id # SEED_ID /\ ~Misnamed(chain, s)
      BY <3>1, <3>4 DEF RebuiltAt
    <3>6. s.sender = Me /\ s.id \in DOMAIN chain
      BY <1>1, <3>5 DEF Misnamed
    <3>7. g[k].parent = m /\ g[k].sender = Me
      BY <1>1, <1>4, <2>2, <3>3, <3>6 DEF First, SameReaction
    <3>8. \A j \in MyRecords(g, m) : k <= j
      BY <1>1, <1>4, <2>2, <3>6 DEF First, SameReaction, MyRecords, RecordsOf
    <3>9. ~RebuiltAt(chain, g, m)
      <4> SUFFICES ASSUME NEW j \in RecordsOf(g, m), g[j].id = SEED_ID \/ Misnamed(chain, g[j])
                   PROVE  FALSE
        BY DEF RebuiltAt
      <4>1. j # k
        BY <3>3 DEF Misnamed
      <4>2. j \in RecordsOf(after, m) /\ after[j] = g[j]
        BY <3>1, <4>1 DEF RecordsOf
      <4> QED BY <4>2 DEF RebuiltAt
    <3>10. CountedAt(posts, g, m)
      BY <3>9 DEF Counted
    <3>11. k \in MyRecords(g, m) /\ MyRecords(after, m) = MyRecords(g, m)
      BY <1>1, <1>4, <3>1, <3>6, <3>7 DEF MyRecords, RecordsOf
    <3>12. \A j \in MyRecords(g, m) : g[j].pending /\ j \in Int /\ j \in DOMAIN g
      <4>1. MyRecords(g, m) \subseteq DOMAIN g /\ DOMAIN g \subseteq Nat
        BY DEF MyRecords, RecordsOf, RecordsFine
      <4>2. ASSUME NEW j \in MyRecords(g, m), j # k PROVE g[j].pending
        <5>1. k < j
          BY <3>1, <3>8, <4>1, <4>2
        <5> QED BY <2>2, <3>10, <3>11, <5>1 DEF CountedAt
      <4> QED BY <2>2, <4>1, <4>2
    <3>13. Echoes(g, m) = MyRecords(g, m)
      BY <3>12 DEF Echoes
    <3>14. \A j \in MyRecords(g, m) \ {k} :
             after[j] = g[j] /\ g[j].id \notin DOMAIN chain
      BY <3>1, <3>12, <3>13, LinkedLanded
    <3>15. Echoes(after, m) = Echoes(g, m) \ {k}
      BY <1>1, <3>1, <3>11, <3>12, <3>13, <3>14 DEF Echoes
    <3>16. Linked(posts, after, m) \subseteq {k}
      <4>1. \A j \in Linked(posts, after, m) : after[j].id \in DOMAIN chain /\ j \in MyRecords(after, m)
        BY LinkedLanded DEF Linked
      <4> QED BY <3>11, <3>14, <4>1
    <3>17. Cardinality(Linked(posts, after, m)) <= 1
      <4>1. IsFiniteSet({k}) /\ Cardinality({k}) = 1
        BY FS_Singleton
      <4> QED BY <3>16, <4>1, FS_Subset
    <3>18. Cardinality(Echoes(after, m)) = Cardinality(Echoes(g, m)) - 1
      <4>1. k \in Echoes(g, m) /\ IsFiniteSet(Echoes(g, m))
        BY <3>11, <3>13, CountsFinite
      <4>2. \A E : IsFiniteSet(E) /\ k \in E => Cardinality(E \ {k}) = Cardinality(E) - 1
        BY FS_RemoveElement
      <4> QED BY ONLY <3>15, <4>1, <4>2
    <3>19. Cardinality(Echoes(g, m)) <= Cardinality(Reacting(posts, m))
      BY <3>10, CountsFinite DEF CountedAt
    <3>20. Cardinality(Echoes(after, m)) + Cardinality(Linked(posts, after, m))
             <= Cardinality(Reacting(posts, m))
      BY <3>17, <3>18, <3>19, CountsFinite
    <3>21. \A i, j \in MyRecords(after, m) : after[i].id = after[j].id => i = j
      BY <3>1, <3>6, <3>10, <3>11, <3>14 DEF CountedAt
    <3>22. \A i, j \in MyRecords(after, m) : i < j /\ after[i].pending => after[j].pending
      <4> SUFFICES ASSUME NEW i \in MyRecords(g, m), NEW j \in MyRecords(g, m), i < j
                   PROVE  after[j].pending
        BY <3>11
      <4>1. j # k
        BY <3>8, <3>12
      <4> QED BY <3>12, <3>14, <4>1
    <3> QED BY <3>20, <3>21, <3>22 DEF CountedAt
  <2>3. ASSUME after = g PROVE CountedAt(posts, after, m)
    BY <2>3 DEF Counted
  <2> QED BY <1>2, <2>1, <2>2, <2>3 DEF Joined
<1> QED BY <1>3, <1>4

\* The records that are rebuilt, one by one.
LEMMA UnionOfSeeds ==
  ASSUME WorldFine(chain, posts), NEW ids \in SUBSET DOMAIN chain,
         NEW rs, RecordsFine(chain, posts, rs)
  PROVE  UnionStep(ids, rs, Seeded(ids), unionRecords(rs, ids))
<1> DEFINE S == Seeded(ids)
           U(T) == Folded("records", ids, rs, T)
           Good == {T \in SUBSET S : UnionStep(ids, rs, T, U(T))}
<1>1. S \subseteq ids /\ IsFiniteSet(S)
      /\ \A i \in S : i \in Int /\ chain[i].parent \in Int /\ chain[i].parent \in DOMAIN chain
  <2>1. S \subseteq ids
    BY DEF Seeded, LiveReactions, OfKind
  <2>2. DOMAIN chain = 1 .. Len(chain) /\ Len(chain) \in Nat
    BY IdsApart
  <2>3. IsFiniteSet(DOMAIN chain)
    BY <2>2, FS_Interval
  <2>4. IsFiniteSet(S)
    BY <2>1, <2>3, FS_Subset
  <2>5. \A i \in S : chain[i].parent \in DOMAIN chain
    BY SeedGood DEF GoodRecord
  <2> QED BY <2>1, <2>2, <2>4, <2>5
<1>2. ASSUME NEW T \in SUBSET S, \A V \in SUBSET T : V # T => V \in Good PROVE T \in Good
  <2>1. IsFiniteSet(T) /\ \A i \in T : i \in Int /\ chain[i].parent \in Int
    BY <1>1, FS_Subset
  <2>2. CASE T = {}
    <3>1. U(T) = rs
      BY <2>1, <2>2, SeedsUnfold
    <3> HIDE DEF U
    <3>2. \A m : SameAt(rs, rs, m)
      BY DEF SameAt
    <3>3. MineKnown(chain, rs) => MineUpto(ids, T, rs)
      BY DEF MineKnown, MineUpto
    <3>4. \A m, w : Fresh(rs, m, w) => CountsOne(T, m, w, rs)
      BY <2>2 DEF Fresh, CountsOne, By
    <3> QED BY <3>1, <3>2, <3>3, <3>4 DEF UnionStep
  <2>3. CASE T # {}
    <3>1. PICK x \in T :
             /\ \A j \in T : NotAfter(j, x)
             /\ U(T) = unionRecord(U(T \ {x}), seedReactionRecords(x, ids))
      BY <2>1, <2>3, SeedsUnfold
    <3> DEFINE V == T \ {x}
               g == U(V)
               s == seedReactionRecords(x, ids)
               after == unionRecord(g, s)
    <3>2. UnionStep(ids, rs, V, g)
      <4>1. V \in SUBSET T /\ V # T
        OBVIOUS
      <4> QED BY <1>2, <4>1
    <3>3. x \in S /\ U(T) = after
      BY <3>1
    <3> HIDE DEF U
    <3>4. GoodRecord(chain, posts, s) /\ s.parent = chain[x].parent
      BY <3>3, SeedGood
    <3> HIDE DEF s, g
    <3>5. RecordsFine(chain, posts, g)
      BY <3>2 DEF UnionStep
    <3>6. RecordsFine(chain, posts, after) /\ Joined(g, s, after)
      BY <3>4, <3>5, UnionFine
    <3> HIDE DEF after
    <3>7. ASSUME NEW m, \A i \in T : chain[i].parent # m PROVE SameAt(rs, after, m)
      <4>1. SameAt(rs, g, m)
        BY <3>2, <3>7 DEF UnionStep
      <4>2. m # s.parent
        BY <3>4, <3>7
      <4>3. SameAt(g, after, m)
        BY <3>6, <4>2, JoinedElsewhere
      <4> QED BY <4>1, <4>3 DEF SameAt
    <3>8. ASSUME MineKnown(chain, rs) PROVE MineUpto(ids, T, after)
      <4>1. MineUpto(ids, T \ {x}, g)
        BY <3>2, <3>8 DEF UnionStep
      <4>2. Joined(g, seedReactionRecords(x, ids), after)
        BY <3>6 DEF s
      <4> HIDE DEF S
      <4> QED BY <3>1, <3>5, <4>1, <4>2, MineGrows DEF S
    <3>9. ASSUME NEW m, NEW w, Fresh(rs, m, w), MineKnown(chain, rs), InOrder(ids, T)
          PROVE  CountsOne(T, m, w, after)
      <4>1. InOrder(ids, V)
        <5> SUFFICES ASSUME NEW i \in V, NEW j \in S, NotAfter(j, i) PROVE j \in V
          BY DEF InOrder
        <5>1. j \in T
          BY <3>9 DEF InOrder
        <5>2. j # x
          <6> SUFFICES ASSUME j = x PROVE FALSE
            OBVIOUS
          <6>1. NotAfter(i, x) /\ NotAfter(x, i) /\ i # x
            BY <3>1
          <6> QED BY <1>1, <3>3, <6>1 DEF NotAfter
        <5> QED BY <5>1, <5>2
      <4>2. CountsOne(V, m, w, g)
        BY <3>2, <3>9, <4>1 DEF UnionStep
      <4>3. (\A j \in V : chain[j].parent # m) => SameAt(rs, g, m)
        BY <3>2 DEF UnionStep
      <4>4. Joined(g, seedReactionRecords(x, ids), after)
        BY <3>6 DEF s
      <4> QED BY <3>1, <3>5, <3>9, <4>2, <4>3, <4>4, CountsGrow
    <3>10. ASSUME Counted(chain, posts, rs) PROVE Counted(chain, posts, after)
      <4>1. Counted(chain, posts, g)
        BY <3>2, <3>10 DEF UnionStep
      <4>2. Joined(g, seedReactionRecords(x, ids), after)
        BY <3>6 DEF s
      <4> QED BY <3>3, <3>5, <3>6, <4>1, <4>2, CountedGrows
    <3>11. UnionStep(ids, rs, T, after)
      BY <3>6, <3>7, <3>8, <3>9, <3>10 DEF UnionStep
    <3> QED BY <3>3, <3>11
  <2> QED BY <2>2, <2>3
<1> HIDE DEF Good
<1>3. SUBSET S \subseteq Good
  <2>1. IsFiniteSet(S)
    BY <1>1
  <2> HIDE DEF S
  <2> QED BY <1>2, <2>1, SubsetInduction
<1>4. unionRecords(rs, ids) = U(S)
  BY FoldsAreFolded
<1>5. S \in Good
  BY <1>3
<1> QED BY <1>4, <1>5 DEF Good

\* A rebuilt record is no echo, so it stays where the echoes alone may go.
LEMMA RebuiltStays ==
  ASSUME NEW c, NEW ps, WorldFine(c, ps), NEW rs, RecordsFine(c, ps, rs), NEW m, NEW after,
         \A k \in RecordsOf(rs, m) :
            ~rs[k].pending => /\ k \in RecordsOf(after, m)
                              /\ after[k].id = rs[k].id /\ after[k].sender = rs[k].sender,
         RebuiltAt(c, rs, m)
  PROVE  RebuiltAt(c, after, m)
<1>1. PICK k \in RecordsOf(rs, m) : rs[k].id = SEED_ID \/ Misnamed(c, rs[k])
  BY DEF RebuiltAt
<1>2. ~rs[k].pending
  <2> SUFFICES ASSUME rs[k].pending PROVE FALSE
    OBVIOUS
  <2>1. GoodRecord(c, ps, rs[k])
    BY DEF RecordsOf, RecordsFine
  <2>2. rs[k].id \in TempIds /\ rs[k].id \notin ChainIds
    BY <2>1, IdsApart DEF GoodRecord
  <2> QED BY <1>1, <2>2, IdsApart DEF TempIds, SEED_ID, Misnamed
<1> QED BY <1>1, <1>2 DEF RebuiltAt, Misnamed

\* What one message of the chain, or a batch of them, leaves of the records.
RecordsKept(c, ps, e, T, f) ==
    /\ MineKnown(c, e.reactionRecords) => MineKnown(c, f.reactionRecords)
    /\ Counted(c, ps, e.reactionRecords) => Counted(c, ps, f.reactionRecords)
    /\ (\A b \in T : b.msg.kind # "reaction") => SameRecords(e.reactionRecords, f.reactionRecords)

\* Records of which some are taken back.
LEMMA SameRecordsKept ==
  ASSUME NEW c, NEW ps, WorldFine(c, ps), NEW rs, RecordsFine(c, ps, rs),
         NEW after, SameRecords(rs, after)
  PROVE  /\ MineKnown(c, rs) => MineKnown(c, after)
         /\ Counted(c, ps, rs) => Counted(c, ps, after)
<1>1. /\ DOMAIN after = DOMAIN rs
      /\ \A k \in DOMAIN rs : /\ after[k].id = rs[k].id /\ after[k].parent = rs[k].parent
                              /\ after[k].sender = rs[k].sender /\ after[k].pending = rs[k].pending
  BY DEF SameRecords
<1>2. \A m : KnowsMine(rs, m) => KnowsMine(after, m)
  BY <1>1 DEF KnowsMine, RecordsOf
<1>3. ASSUME MineKnown(c, rs) PROVE MineKnown(c, after)
  BY <1>1, <1>2, <1>3 DEF MineKnown, Misnamed
<1>4. ASSUME Counted(c, ps, rs), NEW m \in DOMAIN c, ~RebuiltAt(c, after, m)
      PROVE  CountedAt(ps, after, m)
  <2>1. \A k : k \in RecordsOf(after, m) <=> k \in RecordsOf(rs, m)
    BY <1>1 DEF RecordsOf
  <2>2. \A k \in RecordsOf(rs, m) : k \in DOMAIN rs
    BY DEF RecordsOf
  <2>3. ~RebuiltAt(c, rs, m)
    BY <1>1, <1>4, <2>1, <2>2, RebuiltStays
  <2>4. MyRecords(after, m) = MyRecords(rs, m)
    BY <1>1, <2>1, <2>2 DEF MyRecords
  <2>5. \A k \in MyRecords(rs, m) : after[k].id = rs[k].id /\ after[k].pending = rs[k].pending
    BY <1>1, <2>2 DEF MyRecords
  <2>6. CountedAt(ps, rs, m)
    BY <1>4, <2>3 DEF Counted
  <2> QED BY <2>4, <2>5, <2>6, CountedAlike
<1> QED BY <1>3, <1>4 DEF Counted

\* A reaction of the chain comes.
LEMMA ReactionKept ==
  ASSUME NEW c, NEW ps, WorldFine(c, ps), NEW rs, RecordsFine(c, ps, rs), NEW early,
         NEW b, GoodBubble(c, ps, b), b.msg.kind = "reaction", ~b.pending
  PROVE  /\ MineKnown(c, rs) => MineKnown(c, Recorded(rs, early, b))
         /\ Counted(c, ps, rs) => Counted(c, ps, Recorded(rs, early, b))
<1> DEFINE new == RecordFor(early, b)
           after == Recorded(rs, early, b)
           m0 == b.msg.parent
<1>1. /\ RecordsFine(c, ps, after)
      /\ \A k \in DOMAIN after :
            \/ k \in DOMAIN rs /\ after[k] = rs[k] /\ ~confirmsEcho(rs[k], b)
            \/ /\ after[k] = new
               /\ \A j \in DOMAIN after \ {k} :
                     /\ j < k
                     /\ after[j].parent = new.parent => after[j].id # new.id
      /\ \A k \in DOMAIN rs : ~confirmsEcho(rs[k], b) => k \in DOMAIN after /\ after[k] = rs[k]
  BY RecordedFine
<1>2. /\ new.parent = m0 /\ new.sender = b.msg.sender /\ ~new.pending
      /\ new.id \in DOMAIN c /\ c[new.id].sender = new.sender
  BY BubbleFits DEF RecordFor
<1> HIDE DEF after, new
<1>3. \A k \in DOMAIN rs : ~rs[k].pending => k \in DOMAIN after /\ after[k] = rs[k]
  BY <1>1 DEF confirmsEcho
<1>4. ASSUME MineKnown(c, rs) PROVE MineKnown(c, after)
  <2>1. \A m : KnowsMine(rs, m) => KnowsMine(after, m)
    BY <1>3 DEF KnowsMine, RecordsOf
  <2> SUFFICES ASSUME NEW k \in DOMAIN after, Misnamed(c, after[k])
               PROVE  KnowsMine(after, after[k].parent)
    BY DEF MineKnown
  <2>2. after[k] # new
    BY <1>2 DEF Misnamed
  <2>3. k \in DOMAIN rs /\ after[k] = rs[k]
    BY <1>1, <2>2
  <2> QED BY <1>4, <2>1, <2>3 DEF MineKnown
<1>5. ASSUME Counted(c, ps, rs), NEW m \in DOMAIN c, ~RebuiltAt(c, after, m)
      PROVE  CountedAt(ps, after, m)
  <2>1. CountedAt(ps, rs, m)
    <3>1. \A k \in RecordsOf(rs, m) :
            ~rs[k].pending => /\ k \in RecordsOf(after, m)
                              /\ after[k].id = rs[k].id /\ after[k].sender = rs[k].sender
      BY <1>3 DEF RecordsOf
    <3> QED BY <1>5, <3>1, RebuiltStays DEF Counted
  <2>2. CASE m = m0 /\ b.msg.sender = Me
    <3>1. \A k \in MyRecords(after, m) : ~after[k].pending
      BY <1>1, <1>2, <2>2 DEF MyRecords, RecordsOf, confirmsEcho
    <3>2. Echoes(after, m) = {}
      BY <3>1 DEF Echoes
    <3>3. Cardinality(Echoes(after, m)) = 0
      BY <3>2, FS_EmptySet
    <3>4. ASSUME NEW j \in MyRecords(after, m), NEW k \in MyRecords(after, m),
                 after[j].id = after[k].id
          PROVE  j = k
      <4>1. /\ j \in DOMAIN after /\ after[j].parent = m /\ after[j].sender = Me
            /\ k \in DOMAIN after /\ after[k].parent = m /\ after[k].sender = Me
        BY DEF MyRecords, RecordsOf
      <4>2. ASSUME NEW i \in DOMAIN after, after[i].parent = m,
                   NEW l \in DOMAIN after, after[l].parent = m, after[i].id = after[l].id,
                   after[i] = new,
                   \A n \in DOMAIN after \ {i} : after[n].parent = new.parent => after[n].id # new.id
            PROVE  i = l
        BY <1>2, <2>2, <4>2
      <4>3. CASE j \notin DOMAIN rs \/ after[j] # rs[j]
        BY <1>1, <3>4, <4>1, <4>2, <4>3
      <4>4. CASE k \notin DOMAIN rs \/ after[k] # rs[k]
        BY <1>1, <3>4, <4>1, <4>2, <4>4
      <4>5. CASE /\ j \in DOMAIN rs /\ after[j] = rs[j]
                 /\ k \in DOMAIN rs /\ after[k] = rs[k]
        <5>1. j \in MyRecords(rs, m) /\ k \in MyRecords(rs, m)
          BY <4>1, <4>5 DEF MyRecords, RecordsOf
        <5> QED BY <2>1, <3>4, <4>5, <5>1 DEF CountedAt
      <4> QED BY <4>3, <4>4, <4>5
    <3>5. Cardinality(Linked(ps, after, m)) <= Cardinality(Reacting(ps, m))
      BY <1>1, <3>4, LinkedUpTo
    <3> QED BY <1>1, <3>1, <3>3, <3>4, <3>5, CountsFinite DEF CountedAt
  <2>3. CASE m # m0 \/ b.msg.sender # Me
    <3>1. MyRecords(after, m) = MyRecords(rs, m)
      BY <1>1, <1>2, <2>3 DEF MyRecords, RecordsOf, confirmsEcho
    <3>2. \A k \in MyRecords(rs, m) : after[k] = rs[k]
      BY <1>1, <1>2, <2>3 DEF MyRecords, RecordsOf, confirmsEcho
    <3> QED BY <2>1, <3>1, <3>2, CountedAlike
  <2> QED BY <2>2, <2>3
<1> QED BY <1>4, <1>5 DEF Counted, after

\* Whatever comes from the chain.
LEMMA IngestKept ==
  ASSUME NEW c, NEW ps, WorldFine(c, ps), NEW e, ThreadFine(c, ps, e),
         NEW b, GoodBubble(c, ps, b), ~b.pending, NEW f, RecordsStep(e, b, f)
  PROVE  RecordsKept(c, ps, e, {b}, f)
<1>1. RecordsFine(c, ps, e.reactionRecords)
  BY DEF ThreadFine
<1>2. b.msg.kind \in {"text", "reaction", "tombstone", "pin"}
  BY BubbleFits DEF WtMessage
<1>3. CASE b.msg.kind = "reaction"
  BY <1>1, <1>3, ReactionKept DEF RecordsStep, RecordsKept
<1>4. CASE b.msg.kind # "reaction"
  <2>1. SameRecords(e.reactionRecords, f.reactionRecords)
    BY <1>2, <1>4 DEF RecordsStep, SameRecords
  <2> QED BY <1>1, <2>1, SameRecordsKept DEF RecordsKept
<1> QED BY <1>3, <1>4

\* A batch from the chain: the records.
LEMMA BatchKept ==
  ASSUME NEW c, NEW ps, WorldFine(c, ps), NEW e, ThreadFine(c, ps, e),
         NEW B, GoodBatch(c, ps, B)
  PROVE  RecordsKept(c, ps, e, B, ingestMessages(e, B))
<1> DEFINE Good == {T \in SUBSET B : RecordsKept(c, ps, e, T, ingestMessages(e, T))}
<1>1. ASSUME NEW T \in SUBSET B, \A U \in SUBSET T : U # T => U \in Good PROVE T \in Good
  <2>1. GoodBatch(c, ps, T) /\ IsFiniteSet(T) /\ \A b \in T : b.id \in Int
    <3>1. IsFiniteSet(T)
      BY FS_Subset DEF GoodBatch
    <3> QED BY <3>1, BubbleFits DEF GoodBatch
  <2>2. CASE T = {}
    <3>1. ingestMessages(e, T) = e
      BY <2>1, <2>2, BatchUnfolds
    <3> QED BY <3>1 DEF RecordsKept, SameRecords
  <2>3. CASE T # {}
    <3>1. PICK x \in T : ingestMessages(e, T) = ingest(ingestMessages(e, T \ {x}), x)
      BY <2>1, <2>3, BatchUnfolds
    <3> DEFINE U == T \ {x}
               g == ingestMessages(e, U)
               f == ingest(g, x)
    <3>2. RecordsKept(c, ps, e, U, g)
      <4>1. U \in SUBSET T /\ U # T
        OBVIOUS
      <4> QED BY <1>1, <4>1
    <3>3. ThreadFine(c, ps, g)
      <4>1. GoodBatch(c, ps, U)
        BY <2>1, FS_Subset DEF GoodBatch
      <4> HIDE DEF U
      <4> QED BY <4>1, BatchIngested DEF BatchStep
    <3> HIDE DEF g
    <3>4. GoodBubble(c, ps, x) /\ ~x.pending
      BY <2>1 DEF GoodBatch
    <3>5. RecordsKept(c, ps, g, {x}, f)
      BY <3>3, <3>4, Ingested, IngestKept DEF IngestStep
    <3> HIDE DEF f
    <3>6. ASSUME \A b \in T : b.msg.kind # "reaction"
          PROVE  SameRecords(e.reactionRecords, f.reactionRecords)
      <4>1. SameRecords(e.reactionRecords, g.reactionRecords)
        BY <3>2, <3>6 DEF RecordsKept
      <4>2. SameRecords(g.reactionRecords, f.reactionRecords)
        BY <3>5, <3>6 DEF RecordsKept
      <4> QED BY <4>1, <4>2 DEF SameRecords
    <3>7. RecordsKept(c, ps, e, T, f)
      BY <3>2, <3>5, <3>6 DEF RecordsKept
    <3> QED BY <3>1, <3>7 DEF f, g
  <2> QED BY <2>2, <2>3
<1>2. IsFiniteSet(B)
  BY DEF GoodBatch
<1> HIDE DEF Good
<1>3. SUBSET B \subseteq Good
  BY <1>1, <1>2, SubsetInduction
<1> QED BY <1>3 DEF Good

-------------------------------------------------------------------------------
(* A reconcile *)

\* The thread that a reconcile leaves, from its parts.
Merged(g, M, rs, p) ==
    [g EXCEPT !.messages = M, !.reactionRecords = rs, !.pinnedId = p,
              !.maxPinId = ZERO_ID, !.pinPending = FALSE]

\* Its fields, and that it is a thread when its parts are.
LEMMA WithMerged ==
  ASSUME NEW e \in ThreadEntry, NEW M, NEW rs, NEW p
  PROVE  LET g == Merged(e, M, rs, p) IN
         /\ g.messages = M /\ g.pendingTombstones = e.pendingTombstones
         /\ g.pinnedId = p /\ g.maxPinId = 0 /\ g.pinPending = FALSE
         /\ g.reactionRecords = rs
         /\ M \in SUBSET Bubble /\ rs \in ReactionRecords /\ p \in ChainIds \cup {ZERO_ID}
               => g \in ThreadEntry
BY DEF Merged, ThreadEntry, ZERO_ID

\* The pin of what the SDK folded is a message of the chain, or none.
LEMMA FoldPinFine ==
  ASSUME WorldFine(chain, posts), NEW ids \in SUBSET DOMAIN chain
  PROVE  FoldPin(ids) \in {0} \cup DOMAIN chain
<1> DEFINE P == OfKind("pin", ids)
<1>1. FoldPin(ids) = IF P = {} \/ MaxOf(P) \in Targets(ids) THEN 0 ELSE chain[MaxOf(P)].parent
  BY DEF FoldPin, ZERO_ID
<1>2. P \subseteq ids /\ \A i \in P : i \in DOMAIN chain /\ chain[i].kind = "pin"
  BY DEF OfKind
<1>3. DOMAIN chain = 1 .. Len(chain) /\ Len(chain) \in Nat
  BY IdsApart
<1>4. IsFiniteSet(P)
  <2>1. IsFiniteSet(DOMAIN chain)
    BY <1>3, FS_Interval
  <2> QED BY <1>2, <2>1, FS_Subset
<1>5. P # {} => MaxOf(P) \in P
  <2>1. P \subseteq Int
    BY <1>2, <1>3
  <2> HIDE DEF P
  <2> QED BY <1>4, <2>1, LeastAndGreatest
<1> HIDE DEF P
<1>6. ASSUME P # {} PROVE chain[MaxOf(P)].parent \in {0} \cup DOMAIN chain
  <2> DEFINE i == MaxOf(P)
  <2>1. i \in DOMAIN chain /\ chain[i].kind = "pin"
    BY <1>2, <1>5, <1>6
  <2> HIDE DEF i
  <2>2. chain[i].parent \in 0 .. i - 1
    BY <2>1 DEF WorldFine, ChainFine, Fits
  <2> QED BY <1>3, <2>1, <2>2 DEF i
<1> QED BY <1>1, <1>6

\* Bubbles with other chips are shown alike.
LEMMA ShownRestamped ==
  ASSUME NEW e, NEW T, NEW g, ShownAll(e, T, g), NEW f, Restamped(g.messages, f.messages),
         f.pendingTombstones = g.pendingTombstones
  PROVE  /\ ShownAll(e, T, f)
         /\ AwaitedAll(e, g) => AwaitedAll(e, f)
<1>1. ASSUME NEW d \in f.messages PROVE Arrived(e, T, f, d) \/ Remained(e, T, d)
  <2>1. PICK a \in g.messages : Stays(a, d)
    BY DEF Restamped
  <2>2. Arrived(e, T, g, a) => Arrived(e, T, f, d)
    BY <2>1 DEF Stays, Arrived
  <2>3. Remained(e, T, a) => Remained(e, T, d)
    BY <2>1 DEF Stays, Remained
  <2> QED BY <2>2, <2>3 DEF ShownAll
<1>2. Ids(f.messages) = Ids(g.messages)
  BY DEF Ids, Restamped, Stays
<1>3. ShownAll(e, T, f)
  BY <1>1, <1>2 DEF ShownAll
<1>4. Early(g) => Early(f)
  BY DEF Early, Restamped, Stays
<1> QED BY <1>3, <1>4 DEF AwaitedAll

\* What a reconcile leaves.
LEMMA Reconciled ==
  ASSUME WorldFine(chain, posts), NEW ids \in SUBSET DOMAIN chain,
         NEW e, ThreadFine(chain, posts, e)
  PROVE  LET f == mergeThreadMessages(e, ids)
             B == Visible(e, foldThread(ids))
             g == ingestMessages(e, B) IN
         /\ ThreadFine(chain, posts, f) /\ ~f.pinPending /\ f.maxPinId = 0
         /\ f.pendingTombstones = g.pendingTombstones
         /\ ShownAll(e, B, f) /\ AwaitedAll(e, f)
         /\ RecordsKept(chain, posts, e, B, g)
         /\ UnionStep(ids, g.reactionRecords, Seeded(ids), f.reactionRecords)
         /\ CurrentBut(e, {}) => CurrentBut(f, {})
<1> DEFINE f == mergeThreadMessages(e, ids)
           B == Visible(e, foldThread(ids))
           g == ingestMessages(e, B)
           rs == unionRecords(g.reactionRecords, ids)
           M == Restamp(g.messages, Chipped(ids), rs)
           p == IF foldThread(ids) = {} THEN ZERO_ID ELSE FoldPin(ids)
<1>1. /\ GoodBatch(chain, posts, B)
      /\ \A b \in B : b.id \notin Chipped(ids) => b.chips = NoChips
  BY FoldedBatch
<1>2. f = Merged(g, M, rs, p)
  BY DEF mergeThreadMessages, Merged, Restamp, Chipped
<1> HIDE DEF B
<1>3. BatchStep(chain, posts, e, B, g) /\ RecordsKept(chain, posts, e, B, g)
  BY <1>1, BatchIngested, BatchKept
<1> HIDE DEF g
<1>4. ThreadFine(chain, posts, g) /\ MessagesFine(chain, posts, g.messages)
      /\ RecordsFine(chain, posts, g.reactionRecords) /\ g \in ThreadEntry
  BY <1>3 DEF BatchStep, ThreadFine
<1>5. UnionStep(ids, g.reactionRecords, Seeded(ids), rs)
  BY <1>4, UnionOfSeeds
<1>6. RecordsFine(chain, posts, rs) /\ IsFiniteSet(DOMAIN rs) /\ rs \in ReactionRecords
  BY <1>5, RecordsTyped DEF UnionStep, RecordsFine
<1> HIDE DEF rs
<1>7. /\ MessagesFine(chain, posts, M) /\ Restamped(g.messages, M)
      /\ \A d \in M : IF d.id \in Chipped(ids) THEN d.chips = summarizeReactions(rs, d.id)
                      ELSE d \in g.messages
  BY <1>4, <1>6, RestampFine
<1>8. p \in {0} \cup DOMAIN chain /\ p \in ChainIds \cup {ZERO_ID}
  BY FoldPinFine, IdsApart DEF ZERO_ID
<1> HIDE DEF M, p, f
<1>9. M \in SUBSET Bubble
  BY <1>7 DEF MessagesFine, GoodBubble
<1>10. /\ f.messages = M /\ f.pendingTombstones = g.pendingTombstones
       /\ f.pinnedId = p /\ f.maxPinId = 0 /\ f.pinPending = FALSE
       /\ f.reactionRecords = rs /\ f \in ThreadEntry
  <2> DEFINE h == Merged(g, M, rs, p)
  <2>1. /\ h.messages = M /\ h.pendingTombstones = g.pendingTombstones
        /\ h.pinnedId = p /\ h.maxPinId = 0 /\ h.pinPending = FALSE
        /\ h.reactionRecords = rs
        /\ (M \in SUBSET Bubble /\ rs \in ReactionRecords /\ p \in ChainIds \cup {ZERO_ID})
              => h \in ThreadEntry
    BY <1>4, WithMerged
  <2>2. h = f
    BY <1>2
  <2> HIDE DEF h
  <2> QED BY <1>6, <1>8, <1>9, <2>1, <2>2
<1>11. ThreadFine(chain, posts, f)
  BY <1>4, <1>6, <1>7, <1>8, <1>10 DEF ThreadFine, PinFine
<1>12. ShownAll(e, B, f) /\ AwaitedAll(e, f)
  BY <1>3, <1>7, <1>10, ShownRestamped DEF BatchStep
<1>13. ASSUME CurrentBut(e, {}) PROVE CurrentBut(f, {})
  <2>1. CurrentBut(e, Chipped(ids))
    BY <1>13 DEF CurrentBut
  <2>2. CurrentBut(g, Chipped(ids))
    BY <1>1, <1>3, <2>1 DEF BatchStep, ChipsAll
  <2> SUFFICES ASSUME NEW d \in M PROVE d.chips = summarizeReactions(rs, d.id)
    BY <1>10 DEF CurrentBut
  <2>3. CASE d.id \in Chipped(ids)
    BY <1>7, <2>3
  <2>4. CASE d.id \notin Chipped(ids)
    <3>1. d \in g.messages /\ d.chips = summarizeReactions(g.reactionRecords, d.id)
      BY <1>7, <2>2, <2>4 DEF CurrentBut
    <3>2. SameAt(g.reactionRecords, rs, d.id)
      BY <1>5, <2>4 DEF UnionStep, Chipped
    <3>3. summarizeReactions(rs, d.id) = summarizeReactions(g.reactionRecords, d.id)
      BY <3>2, SummaryLocal DEF SameAt
    <3> QED BY <3>1, <3>3
  <2> QED BY <2>3, <2>4
<1> QED BY <1>3, <1>5, <1>10, <1>11, <1>12, <1>13 DEF f, B, g

-------------------------------------------------------------------------------
(* What becomes of echoes *)

\* The bubble with the id of a post's echo is that echo.
LEMMA EchoOf ==
  ASSUME NEW c, NEW ps, WorldFine(c, ps), NEW b, GoodBubble(c, ps, b),
         NEW k \in DOMAIN ps, b.id = MaxPosts + k
  PROVE  b.pending /\ b.msg = ps[k].msg
<1>1. b.pending
  <2>1. b.id \notin DOMAIN c
    BY IdsApart
  <2> QED BY <2>1, BubbleFits
<1>2. PICK j \in DOMAIN ps : b.id = MaxPosts + j /\ b.msg = ps[j].msg
  BY <1>1 DEF GoodBubble
<1>3. MaxPosts \in Int /\ j \in Int /\ k \in Int
  BY IdsApart DEF WorldFine, PostsFine
<1>4. MaxPosts + j = MaxPosts + k
  BY <1>2
<1>5. j = k
  BY ONLY <1>3, <1>4, EchoIdsApart
<1> QED BY <1>1, <1>2, <1>5

\* A batch from the chain settles the echoes it confirms, and no others.
LEMMA SettledKept ==
  ASSUME NEW c, NEW ps, WorldFine(c, ps), NEW e, ThreadFine(c, ps, e), Settled(c, ps, e.messages),
         NEW T, GoodBatch(c, ps, T), NEW f, ThreadFine(c, ps, f), ShownAll(e, T, f)
  PROVE  Settled(c, ps, f.messages)
<1> SUFFICES ASSUME NEW k \in DOMAIN ps
             PROVE  /\ \A b \in f.messages :
                         b.id = ps[k].at /\ ~b.tombstoned => MaxPosts + k \notin Ids(f.messages)
                    /\ ps[k].msg.kind = "text" /\ ~ps[k].failed =>
                          \/ MaxPosts + k \in Ids(f.messages)
                          \/ \E b \in f.messages : ~b.pending /\ c[b.id] = ps[k].msg
  BY DEF Settled
<1>1. /\ \A b \in e.messages : GoodBubble(c, ps, b)
      /\ \A b \in f.messages : GoodBubble(c, ps, b)
      /\ \A b \in T : GoodBubble(c, ps, b) /\ ~b.pending
  BY DEF ThreadFine, MessagesFine, GoodBatch
<1>2. PostFine(c, ps[k])
  BY DEF WorldFine, PostsFine
<1>3. ASSUME NEW d \in f.messages, d.id = ps[k].at, ~d.tombstoned,
             NEW q \in f.messages, q.id = MaxPosts + k
      PROVE  FALSE
  <2>1. d.id \in DOMAIN c /\ c[d.id] = ps[k].msg
    BY <1>1, <1>2, <1>3, BubbleFits DEF PostFine
  <2>2. q.pending /\ q.msg = ps[k].msg
    BY <1>1, <1>3, EchoOf
  <2>3. Remained(e, T, q)
    BY <2>2 DEF ShownAll, Arrived
  <2>4. PICK a \in e.messages : q.id = a.id /\ q.pending = a.pending /\ \A b \in T : ~matchesPending(a, b)
    BY <2>3 DEF Remained
  <2>5. a.pending /\ a.msg = ps[k].msg
    BY <1>1, <1>3, <2>4, EchoOf
  <2>6. CASE Arrived(e, T, f, d)
    <3>1. PICK b \in T : d.id = b.id /\ ~b.tombstoned
      BY <1>3, <2>6 DEF Arrived
    <3>2. b.msg = ps[k].msg
      BY <1>1, <2>1, <3>1 DEF GoodBubble
    <3> QED BY <2>4, <2>5, <3>2 DEF matchesPending
  <2>7. CASE Remained(e, T, d)
    <3>1. PICK o \in e.messages : d.id = o.id /\ ~o.tombstoned
      BY <1>3, <2>7 DEF Remained
    <3>2. MaxPosts + k \notin Ids(e.messages)
      BY <1>3, <3>1 DEF Settled
    <3> QED BY <1>3, <2>4, <3>2 DEF Ids
  <2> QED BY <2>6, <2>7 DEF ShownAll
<1>4. ASSUME ps[k].msg.kind = "text", ~ps[k].failed, MaxPosts + k \notin Ids(f.messages)
      PROVE  \E b \in f.messages : ~b.pending /\ c[b.id] = ps[k].msg
  <2>1. CASE MaxPosts + k \in Ids(e.messages)
    <3>1. PICK a \in e.messages : a.id = MaxPosts + k
      BY <2>1 DEF Ids
    <3>2. a.pending /\ a.msg = ps[k].msg
      BY <1>1, <3>1, EchoOf
    <3>3. PICK b \in T : matchesPending(a, b)
      BY <1>4, <3>1 DEF ShownAll
    <3>4. b.msg = ps[k].msg
      BY <3>2, <3>3 DEF matchesPending
    <3>5. b.msg.body # NoText
      BY <1>2, <1>4, <3>4, WarTableAssumption DEF PostFine, Fits
    <3>6. c[b.id] = ps[k].msg
      <4>1. ~b.tombstoned
        <5> SUFFICES ASSUME b.tombstoned PROVE b.msg.body = NoText
          BY <3>5
        <5>1. b.msg = [c[b.id] EXCEPT !.body = NoText] /\ b.id \in DOMAIN c
          BY <1>1 DEF GoodBubble
        <5>2. c[b.id] \in WtMessage
          BY <5>1, IdsApart
        <5> QED BY <5>1, <5>2 DEF WtMessage
      <4> QED BY <1>1, <3>4, <4>1 DEF GoodBubble
    <3>7. b.id \in Ids(f.messages)
      BY <1>4, <3>4 DEF ShownAll
    <3>8. PICK o \in f.messages : o.id = b.id
      BY <3>7 DEF Ids
    <3>9. ~o.pending
      BY <1>1, <3>8, SameEcho
    <3> QED BY <3>6, <3>8, <3>9
  <2>2. ASSUME NEW b \in e.messages, ~b.pending, c[b.id] = ps[k].msg
        PROVE  \E o \in f.messages : ~o.pending /\ c[o.id] = ps[k].msg
    <3>1. b.id \in Ids(f.messages)
      BY <2>2 DEF ShownAll, matchesPending
    <3>2. PICK o \in f.messages : o.id = b.id
      BY <3>1 DEF Ids
    <3>3. ~o.pending
      BY <1>1, <2>2, <3>2, SameEcho
    <3> QED BY <2>2, <3>2, <3>3
  <2> QED BY <1>4, <2>1, <2>2 DEF Settled
<1> QED BY <1>3, <1>4 DEF Ids

\* The bubbles but one; and the pin goes with its echo.
But(M, id) == {b \in M : b.id # id}
PinDropped(e, id, f) ==
    IF e.pinPending /\ e.maxPinId = id
    THEN ~f.pinPending /\ f.maxPinId = 0
    ELSE f.pinPending = e.pinPending /\ f.maxPinId = e.maxPinId /\ f.pinnedId = e.pinnedId

\* An echo that goes.
LEMMA Removed ==
  ASSUME NEW c, NEW ps, WorldFine(c, ps), NEW e, ThreadFine(c, ps, e), NEW k \in DOMAIN ps
  PROVE  LET f == removeMessage(e, MaxPosts + k) IN
         /\ ThreadFine(c, ps, f)
         /\ f.pendingTombstones = e.pendingTombstones
         /\ Restamped(But(e.messages, MaxPosts + k), f.messages)
         /\ \E G : /\ \A j \in G \cap DOMAIN e.reactionRecords : e.reactionRecords[j].pending
                   /\ f.reactionRecords = Without(e.reactionRecords, G)
         /\ CurrentBut(e, {}) => CurrentBut(f, {})
         /\ PinDropped(e, MaxPosts + k, f)
<1> DEFINE id == MaxPosts + k
           G == {j \in DOMAIN e.reactionRecords : e.reactionRecords[j].id = id}
           rs == Without(e.reactionRecords, G)
           X == {e.reactionRecords[j].parent : j \in G}
           N == {b \in e.messages : b.id # id}
           M == Restamp(N, X, rs)
           kept == Rerecorded(e, M, rs)
           f == removeMessage(e, id)
<1>1. f = IF e.pinPending /\ e.maxPinId = id THEN Repinned(kept, 0, 0, FALSE) ELSE kept
  <2>1. f = IF e.pinPending /\ e.maxPinId = id
            THEN [kept EXCEPT !.pinnedId = ZERO_ID, !.maxPinId = ZERO_ID, !.pinPending = FALSE]
            ELSE kept
    BY DEF removeMessage, Rerecorded, Restamp
  <2>2. [kept EXCEPT !.pinnedId = ZERO_ID, !.maxPinId = ZERO_ID, !.pinPending = FALSE]
          = Repinned(kept, 0, 0, FALSE)
    <3> HIDE DEF kept
    <3> QED BY DEF Repinned, ZERO_ID
  <2> QED BY <2>1, <2>2
<1>2. /\ e \in ThreadEntry /\ MessagesFine(c, ps, e.messages)
      /\ RecordsFine(c, ps, e.reactionRecords)
  BY DEF ThreadFine
<1>3. id \notin DOMAIN c /\ id # SEED_ID
  <2>1. id \in TempIds /\ id \notin ChainIds
    BY IdsApart
  <2> QED BY <2>1, IdsApart DEF TempIds, SEED_ID
<1>4. \A j \in G : e.reactionRecords[j].pending
  BY <1>2, <1>3 DEF RecordsFine, GoodRecord
<1> HIDE DEF id
<1>5. /\ RecordsFine(c, ps, rs) /\ DOMAIN rs = DOMAIN e.reactionRecords \ G
      /\ \A j \in DOMAIN e.reactionRecords \ G : rs[j] = e.reactionRecords[j]
  <2> HIDE DEF G
  <2> QED BY <1>2, WithoutFine
<1>6. MessagesFine(c, ps, N)
  BY <1>2, FewerFine
<1> HIDE DEF rs, N
<1>7. IsFiniteSet(DOMAIN rs) /\ rs \in ReactionRecords
  BY <1>5, RecordsTyped DEF RecordsFine
<1> HIDE DEF G
<1>8. /\ MessagesFine(c, ps, M) /\ Restamped(N, M)
      /\ \A d \in M : IF d.id \in X THEN d.chips = summarizeReactions(rs, d.id) ELSE d \in N
  <2> HIDE DEF X
  <2> QED BY <1>6, <1>7, RestampFine
<1>9. ASSUME CurrentBut(e, {}), NEW d \in M PROVE d.chips = summarizeReactions(rs, d.id)
  <2>1. CASE d.id \in X
    BY <1>8, <2>1
  <2>2. CASE d.id \notin X
    <3>1. d \in e.messages
      BY <1>8, <2>2 DEF N
    <3>2. d.chips = summarizeReactions(e.reactionRecords, d.id)
      BY <1>9, <3>1 DEF CurrentBut
    <3>3. SameAt(e.reactionRecords, rs, d.id)
      BY <1>5, <2>2 DEF SameAt, RecordsOf, G
    <3>4. summarizeReactions(rs, d.id) = summarizeReactions(e.reactionRecords, d.id)
      BY <3>3, SummaryLocal DEF SameAt
    <3> QED BY <3>2, <3>4
  <2> QED BY <2>1, <2>2
<1> HIDE DEF M, X, f, kept
<1>10. M \in SUBSET Bubble
  BY <1>8 DEF MessagesFine, GoodBubble
<1>11. /\ kept.messages = M /\ kept.pendingTombstones = e.pendingTombstones
       /\ kept.pinnedId = e.pinnedId /\ kept.maxPinId = e.maxPinId /\ kept.pinPending = e.pinPending
       /\ kept.reactionRecords = rs /\ kept \in ThreadEntry
  <2> DEFINE h == Rerecorded(e, M, rs)
  <2>1. /\ h.messages = M /\ h.pendingTombstones = e.pendingTombstones
        /\ h.pinnedId = e.pinnedId /\ h.maxPinId = e.maxPinId /\ h.pinPending = e.pinPending
        /\ h.reactionRecords = rs
        /\ M \in SUBSET Bubble /\ rs \in ReactionRecords => h \in ThreadEntry
    BY <1>2, WithRecords
  <2>2. h = kept
    BY DEF kept
  <2> HIDE DEF h
  <2> QED BY <1>7, <1>10, <2>1, <2>2
<1>12. /\ f.messages = M /\ f.pendingTombstones = e.pendingTombstones
       /\ f.reactionRecords = rs /\ f \in ThreadEntry
       /\ IF e.pinPending /\ e.maxPinId = id
          THEN ~f.pinPending /\ f.maxPinId = 0 /\ f.pinnedId = 0
          ELSE /\ f.pinPending = e.pinPending /\ f.maxPinId = e.maxPinId
               /\ f.pinnedId = e.pinnedId
  <2>1. CASE e.pinPending /\ e.maxPinId = id
    <3> DEFINE h == Repinned(kept, 0, 0, FALSE)
    <3>1. /\ h.messages = M /\ h.pendingTombstones = e.pendingTombstones
          /\ h.pinnedId = 0 /\ h.maxPinId = 0 /\ h.pinPending = FALSE
          /\ h.reactionRecords = rs /\ h \in ThreadEntry
      <4>1. /\ h.messages = kept.messages /\ h.pendingTombstones = kept.pendingTombstones
            /\ h.pinnedId = 0 /\ h.maxPinId = 0 /\ h.pinPending = FALSE
            /\ h.reactionRecords = kept.reactionRecords
            /\ (0 \in ChainIds \cup TempIds \cup {ZERO_ID} /\ 0 \in ChainIds \cup {ZERO_ID}
                   /\ FALSE \in BOOLEAN) => h \in ThreadEntry
        BY <1>11, WithPin
      <4> HIDE DEF h
      <4> QED BY <1>11, <4>1 DEF ZERO_ID
    <3>2. h = f
      BY <1>1, <2>1
    <3> HIDE DEF h
    <3> QED BY <2>1, <3>1, <3>2
  <2>2. CASE ~(e.pinPending /\ e.maxPinId = id)
    <3>1. f = kept
      BY <1>1, <2>2
    <3> QED BY <1>11, <2>2, <3>1
  <2> QED BY <2>1, <2>2
<1>13. ThreadFine(c, ps, f)
  BY <1>5, <1>8, <1>12 DEF ThreadFine, PinFine
<1>14. CurrentBut(e, {}) => CurrentBut(f, {})
  BY <1>9, <1>12 DEF CurrentBut
<1>15. Restamped(But(e.messages, MaxPosts + k), f.messages)
  BY <1>8, <1>12 DEF N, id, But
<1>16. /\ \A j \in G \cap DOMAIN e.reactionRecords : e.reactionRecords[j].pending
       /\ f.reactionRecords = Without(e.reactionRecords, G)
  BY <1>4, <1>12 DEF rs
<1>17. PinDropped(e, MaxPosts + k, f)
  <2>1. PinDropped(e, id, f)
    BY <1>12 DEF PinDropped
  <2> QED BY <2>1 DEF id
<1> QED BY <1>12, <1>13, <1>14, <1>15, <1>16, <1>17 DEF f, id

-------------------------------------------------------------------------------
(* The chain grows, and the reader posts *)

\* The messages and the posts that there were are still there.
Grown(c, ps, d, qs) ==
    /\ \A i \in DOMAIN c : i \in DOMAIN d /\ d[i] = c[i]
    /\ \A k \in DOMAIN ps : k \in DOMAIN qs /\ qs[k].msg = ps[k].msg

\* Then the thread fits them as before.
LEMMA ThreadGrows ==
  ASSUME NEW c, NEW ps, WorldFine(c, ps), NEW d, NEW qs, WorldFine(d, qs), Grown(c, ps, d, qs),
         NEW e, ThreadFine(c, ps, e)
  PROVE  ThreadFine(d, qs, e)
<1>1. \A b : GoodBubble(c, ps, b) => GoodBubble(d, qs, b)
  <2> SUFFICES ASSUME NEW b, GoodBubble(c, ps, b) PROVE GoodBubble(d, qs, b)
    OBVIOUS
  <2>1. b.pending =>
          ~b.tombstoned /\ \E k \in DOMAIN qs : b.id = MaxPosts + k /\ b.msg = qs[k].msg
    BY DEF GoodBubble, Grown
  <2>2. ~b.pending => b.id \in DOMAIN d /\ d[b.id] = c[b.id]
    BY DEF GoodBubble, Grown
  <2> QED BY <2>1, <2>2 DEF GoodBubble
<1>2. \A r : GoodRecord(c, ps, r) => GoodRecord(d, qs, r)
  <2> SUFFICES ASSUME NEW r, GoodRecord(c, ps, r) PROVE GoodRecord(d, qs, r)
    OBVIOUS
  <2>1. r.pending =>
          \E k \in DOMAIN qs :
             /\ r.id = MaxPosts + k /\ qs[k].msg = Message("reaction", Me, r.parent, NoText)
             /\ r.sender = Me
    BY DEF GoodRecord, Grown
  <2>2. /\ r.parent \in DOMAIN d /\ d[r.parent].kind = "text"
        /\ ~r.pending /\ r.id # SEED_ID =>
              r.id \in DOMAIN d /\ d[r.id].kind = "reaction" /\ d[r.id].parent = r.parent
    BY DEF GoodRecord, Grown
  <2> QED BY <2>1, <2>2 DEF GoodRecord
<1>3. MessagesFine(d, qs, e.messages)
  BY <1>1 DEF ThreadFine, MessagesFine
<1>4. RecordsFine(d, qs, e.reactionRecords)
  BY <1>2 DEF ThreadFine, RecordsFine
<1>5. PinFine(d, qs, e)
  <2>1. PinFine(c, ps, e)
    BY DEF ThreadFine
  <2>2. e.pinnedId \in {0} \cup DOMAIN d
    BY <2>1 DEF PinFine, Grown
  <2>3. e.pinPending => \E k \in DOMAIN qs : e.maxPinId = MaxPosts + k
    BY <2>1 DEF PinFine, Grown
  <2>4. ~e.pinPending => e.maxPinId = 0 \/ (e.maxPinId \in DOMAIN d /\ d[e.maxPinId].kind = "pin")
    BY <2>1 DEF PinFine, Grown
  <2> QED BY <2>2, <2>3, <2>4 DEF PinFine
<1>6. \A i \in e.pendingTombstones : i \in DOMAIN d /\ d[i].kind # "tombstone"
  BY DEF ThreadFine, Grown
<1> QED BY <1>3, <1>4, <1>5, <1>6 DEF ThreadFine

\* Ids of records of the chain.
LEMMA RecordIds ==
  ASSUME NEW c, NEW ps, WorldFine(c, ps), NEW r, GoodRecord(c, ps, r)
  PROVE  /\ r.pending => r.id \in TempIds /\ r.id \notin ChainIds
         /\ ~r.pending => r.id \in DOMAIN c \/ r.id = SEED_ID
         /\ SEED_ID \notin TempIds /\ SEED_ID \notin ChainIds /\ SEED_ID # 0
<1>1. r.pending => r.id \in TempIds /\ r.id \notin ChainIds
  BY IdsApart DEF GoodRecord
<1>2. SEED_ID \notin TempIds /\ SEED_ID \notin ChainIds /\ SEED_ID # 0
  BY IdsApart DEF TempIds, ChainIds, SEED_ID
<1> QED BY <1>1, <1>2 DEF GoodRecord

\* The pin that is shown is still the latest.
LEMMA PinGrows ==
  ASSUME NEW c, NEW ps, WorldFine(c, ps), NEW d, NEW qs, Grown(c, ps, d, qs),
         NEW e, NEW seen \in SUBSET DOMAIN c, PinOf(c, e, seen)
  PROVE  PinOf(d, e, seen)
<1>1. seen # {} => MaxOf(seen) \in DOMAIN c
  <2>1. DOMAIN c = 1 .. Len(c) /\ Len(c) \in Nat
    BY IdsApart
  <2>2. IsFiniteSet(DOMAIN c)
    BY <2>1, FS_Interval
  <2>3. IsFiniteSet(seen)
    BY <2>2, FS_Subset
  <2>4. seen \subseteq Int
    BY <2>1
  <2> QED BY <2>3, <2>4, LeastAndGreatest
<1> SUFFICES ASSUME ~e.pinPending
             PROVE  IF seen = {} THEN e.maxPinId = 0
                    ELSE /\ e.maxPinId = MaxOf(seen)
                         /\ \/ e.pinnedId = d[MaxOf(seen)].parent
                            \/ /\ e.pinnedId = 0
                               /\ \E i \in DOMAIN d :
                                     d[i].kind = "tombstone" /\ d[i].parent = MaxOf(seen)
  BY DEF PinOf
<1>2. CASE seen = {}
  BY <1>2 DEF PinOf
<1>3. CASE seen # {}
  <2>1. /\ e.maxPinId = MaxOf(seen)
        /\ \/ e.pinnedId = c[MaxOf(seen)].parent
           \/ e.pinnedId = 0 /\ \E i \in DOMAIN c : c[i].kind = "tombstone" /\ c[i].parent = MaxOf(seen)
    BY <1>3 DEF PinOf
  <2>2. d[MaxOf(seen)] = c[MaxOf(seen)]
    BY <1>1, <1>3 DEF Grown
  <2>3. (\E i \in DOMAIN c : c[i].kind = "tombstone" /\ c[i].parent = MaxOf(seen))
          => \E i \in DOMAIN d : d[i].kind = "tombstone" /\ d[i].parent = MaxOf(seen)
    BY DEF Grown
  <2> QED BY <1>3, <2>1, <2>2, <2>3
<1> QED BY <1>2, <1>3

\* The reader's own reactions are known still.
LEMMA MineKnownGrows ==
  ASSUME NEW c, NEW ps, WorldFine(c, ps), NEW d, NEW qs, WorldFine(d, qs), Grown(c, ps, d, qs),
         NEW rs, RecordsFine(c, ps, rs), MineKnown(c, rs)
  PROVE  MineKnown(d, rs)
<1> SUFFICES ASSUME NEW k \in DOMAIN rs, Misnamed(d, rs[k]) PROVE KnowsMine(rs, rs[k].parent)
  BY DEF MineKnown
<1>1. GoodRecord(c, ps, rs[k])
  BY DEF RecordsFine
<1>2. rs[k].id \in DOMAIN d /\ d[rs[k].id].sender # rs[k].sender
  BY DEF Misnamed
<1>3. rs[k].id \in ChainIds
  BY <1>2, IdsApart
<1>4. rs[k].id \in DOMAIN c
  BY <1>1, <1>3, RecordIds
<1>5. Misnamed(c, rs[k])
  BY <1>2, <1>4 DEF Misnamed, Grown
<1> QED BY <1>5 DEF MineKnown

\* A post lands, or somebody else's message: the posts are the same, but for one
\* that is the chain's last message now.
LandsAt(ps, qs, n) ==
    /\ DOMAIN qs = DOMAIN ps
    /\ \A k \in DOMAIN ps : /\ qs[k].msg = ps[k].msg /\ qs[k].failed = ps[k].failed
                            /\ qs[k].at = ps[k].at \/ (ps[k].at = 0 /\ qs[k].at = n)

\* The reader's records still count.
LEMMA CountedLands ==
  ASSUME NEW c, NEW ps, WorldFine(c, ps), NEW d, NEW qs, WorldFine(d, qs), Grown(c, ps, d, qs),
         NEW n, n \notin DOMAIN c, DOMAIN d \subseteq DOMAIN c \cup {n}, LandsAt(ps, qs, n),
         NEW rs, RecordsFine(c, ps, rs), RecordsFine(d, qs, rs), Counted(c, ps, rs)
  PROVE  Counted(d, qs, rs)
<1> SUFFICES ASSUME NEW m \in DOMAIN d, ~RebuiltAt(d, rs, m) PROVE CountedAt(qs, rs, m)
  BY DEF Counted
<1>1. Reacting(qs, m) = Reacting(ps, m)
  BY DEF Reacting, LandsAt
<1>2. CASE m \in DOMAIN c
  <2>1. ~RebuiltAt(c, rs, m)
    BY DEF RebuiltAt, Misnamed, Grown
  <2>2. CountedAt(ps, rs, m)
    BY <1>2, <2>1 DEF Counted
  <2>3. Linked(qs, rs, m) \subseteq Linked(ps, rs, m)
    <3> SUFFICES ASSUME NEW k \in Linked(qs, rs, m) PROVE k \in Linked(ps, rs, m)
      OBVIOUS
    <3>1. PICK j \in Reacting(qs, m) : qs[j].at = rs[k].id
      BY DEF Linked
    <3>2. ~rs[k].pending /\ rs[k].id \in DOMAIN d
      BY LinkedLanded
    <3>3. k \in MyRecords(rs, m) /\ k \in DOMAIN rs
      BY DEF Linked, MyRecords, RecordsOf
    <3>4. rs[k].id \in DOMAIN c
      <4>1. GoodRecord(c, ps, rs[k])
        BY <3>3 DEF RecordsFine
      <4> QED BY <3>2, <4>1, RecordIds, IdsApart
    <3>5. j \in Reacting(ps, m) /\ ps[j].at = rs[k].id
      BY <1>1, <3>1, <3>4 DEF LandsAt, Reacting
    <3> QED BY <3>3, <3>5 DEF Linked
  <2>4. Cardinality(Linked(qs, rs, m)) <= Cardinality(Linked(ps, rs, m))
    BY <2>3, CountsFinite, FS_Subset
  <2>5. /\ Cardinality(Linked(qs, rs, m)) \in Nat /\ Cardinality(Linked(ps, rs, m)) \in Nat
        /\ Cardinality(Echoes(rs, m)) \in Nat /\ Cardinality(Reacting(ps, m)) \in Nat
    BY CountsFinite
  <2>6. Cardinality(Echoes(rs, m)) + Cardinality(Linked(qs, rs, m)) <= Cardinality(Reacting(qs, m))
    BY <1>1, <2>2, <2>4, <2>5 DEF CountedAt
  <2> QED BY <2>2, <2>6 DEF CountedAt
<1>3. CASE m \notin DOMAIN c
  <2>1. MyRecords(rs, m) = {}
    BY <1>3 DEF MyRecords, RecordsOf, RecordsFine, GoodRecord
  <2>2. Echoes(rs, m) = {} /\ Linked(qs, rs, m) = {}
    BY <2>1 DEF Echoes, Linked
  <2>3. Cardinality(Echoes(rs, m)) = 0 /\ Cardinality(Linked(qs, rs, m)) = 0
    BY <2>2, FS_EmptySet
  <2>4. Cardinality(Reacting(qs, m)) \in Nat
    BY CountsFinite
  <2> QED BY <2>1, <2>3, <2>4 DEF CountedAt
<1> QED BY <1>2, <1>3

\* Echoes are settled still: what has landed only now is not shown yet.
LEMMA SettledLands ==
  ASSUME NEW c, NEW ps, WorldFine(c, ps), NEW d, NEW qs, WorldFine(d, qs), Grown(c, ps, d, qs),
         NEW n \in ChainIds, n \notin DOMAIN c, LandsAt(ps, qs, n),
         NEW M, MessagesFine(c, ps, M), Settled(c, ps, M)
  PROVE  Settled(d, qs, M)
<1> SUFFICES ASSUME NEW k \in DOMAIN qs
             PROVE  /\ \A b \in M :
                         b.id = qs[k].at /\ ~b.tombstoned => MaxPosts + k \notin Ids(M)
                    /\ qs[k].msg.kind = "text" /\ ~qs[k].failed =>
                          \/ MaxPosts + k \in Ids(M)
                          \/ \E b \in M : ~b.pending /\ d[b.id] = qs[k].msg
  BY DEF Settled
<1>1. k \in DOMAIN ps /\ qs[k].msg = ps[k].msg /\ qs[k].failed = ps[k].failed
      /\ (qs[k].at = ps[k].at \/ qs[k].at = n)
  BY DEF LandsAt
<1>2. \A b \in M : b.id # n
  <2> SUFFICES ASSUME NEW b \in M, b.id = n PROVE FALSE
    OBVIOUS
  <2>1. GoodBubble(c, ps, b)
    BY DEF MessagesFine
  <2> QED BY <2>1, BubbleFits
<1>3. \A b \in M : ~b.pending => d[b.id] = c[b.id]
  BY DEF MessagesFine, GoodBubble, Grown
<1> QED BY <1>1, <1>2, <1>3 DEF Settled

\* A message lands: the thread does not change.
LEMMA Lands ==
  ASSUME NEW c, NEW ps, WorldFine(c, ps), NEW d, NEW qs, WorldFine(d, qs), Grown(c, ps, d, qs),
         NEW n \in ChainIds, n \notin DOMAIN c, DOMAIN d \subseteq DOMAIN c \cup {n},
         LandsAt(ps, qs, n),
         NEW e, NEW seen \in SUBSET DOMAIN c, StoreInv(c, ps, e, seen)
  PROVE  StoreInv(d, qs, e, seen)
<1>1. ThreadFine(c, ps, e) /\ ThreadFine(d, qs, e)
  BY ThreadGrows DEF StoreInv
<1>2. /\ RecordsFine(c, ps, e.reactionRecords) /\ RecordsFine(d, qs, e.reactionRecords)
      /\ MessagesFine(c, ps, e.messages)
  BY <1>1 DEF ThreadFine
<1>3. PinOf(d, e, seen)
  BY PinGrows DEF StoreInv
<1>4. MineKnown(d, e.reactionRecords)
  BY <1>2, MineKnownGrows DEF StoreInv
<1>5. Counted(d, qs, e.reactionRecords)
  BY <1>2, CountedLands DEF StoreInv
<1>6. Settled(d, qs, e.messages)
  BY <1>2, SettledLands DEF StoreInv
<1> QED BY <1>1, <1>3, <1>4, <1>5, <1>6 DEF StoreInv

\* The reader's posts with one more, that has not landed.
PostedAs(ps, qs, k, m) ==
    /\ k \notin DOMAIN ps /\ DOMAIN qs = DOMAIN ps \cup {k}
    /\ \A j \in DOMAIN ps : qs[j] = ps[j]
    /\ qs[k].msg = m /\ qs[k].at = 0

\* The echo of a post is a bubble.
LEMMA EchoGood ==
  ASSUME NEW c, NEW qs, WorldFine(c, qs), NEW k \in DOMAIN qs
  PROVE  LET b == RawBubble(MaxPosts + k, qs[k].msg, TRUE) IN
         /\ GoodBubble(c, qs, b) /\ b.pending /\ b.id = MaxPosts + k /\ b.msg = qs[k].msg
         /\ b.chips = NoChips /\ ~b.tombstoned
<1> DEFINE b == RawBubble(MaxPosts + k, qs[k].msg, TRUE)
<1>1. qs[k].msg \in WtMessage
  BY DEF WorldFine, PostsFine, PostFine
<1>2. MaxPosts + k \in TempIds
  BY IdsApart
<1>3. NoChips \in Chips
  BY DEF NoChips, Chips
<1>4. b.id = MaxPosts + k /\ b.msg = qs[k].msg /\ b.pending = TRUE /\ b.tombstoned = FALSE
      /\ b.chips = NoChips
  BY DEF RawBubble
<1>5. b \in Bubble
  <2> DEFINE i == MaxPosts + k
             x == qs[k].msg
  <2>1. b = [id |-> i, msg |-> x, tombstoned |-> FALSE, pending |-> TRUE, chips |-> NoChips]
    BY DEF RawBubble
  <2>2. i \in ChainIds \cup TempIds /\ x \in WtMessage
    BY <1>1, <1>2
  <2> HIDE DEF i, x, b
  <2> QED BY <1>3, <2>1, <2>2 DEF Bubble
<1> HIDE DEF b
<1>6. GoodBubble(c, qs, b)
  BY <1>4, <1>5 DEF GoodBubble
<1> QED BY <1>4, <1>6 DEF b

\* No record is the echo of a post that is new.
LEMMA EchoIsNew ==
  ASSUME NEW c, NEW ps, WorldFine(c, ps), NEW qs, WorldFine(c, qs), NEW k, NEW m,
         PostedAs(ps, qs, k, m), NEW r, GoodRecord(c, ps, r)
  PROVE  r.id # MaxPosts + k
<1> SUFFICES ASSUME r.id = MaxPosts + k PROVE FALSE
  OBVIOUS
<1>1. k \in DOMAIN qs /\ k \in Int /\ MaxPosts \in Int
  BY IdsApart DEF PostedAs, WorldFine, PostsFine
<1>2. r.id \in TempIds /\ r.id \notin ChainIds /\ r.id \notin DOMAIN c
  BY <1>1, IdsApart
<1>3. r.pending
  BY <1>2, RecordIds
<1>4. PICK j \in DOMAIN ps : r.id = MaxPosts + j
  BY <1>3 DEF GoodRecord
<1>5. j \in Int
  BY DEF WorldFine, PostsFine
<1>6. MaxPosts + j = MaxPosts + k
  BY <1>4
<1>7. j = k
  BY ONLY <1>1, <1>5, <1>6, EchoIdsApart
<1> QED BY <1>4, <1>7 DEF PostedAs

\* The records count as well with one more post, and leave room for its echo.
LEMMA RoomForOne ==
  ASSUME NEW c, NEW ps, WorldFine(c, ps), NEW qs, WorldFine(c, qs), NEW k, NEW x,
         PostedAs(ps, qs, k, x), NEW rs, RecordsFine(c, ps, rs), RecordsFine(c, qs, rs),
         NEW m, CountedAt(ps, rs, m)
  PROVE  /\ CountedAt(qs, rs, m)
         /\ x = Message("reaction", Me, m, NoText) =>
               Cardinality(Echoes(rs, m)) + Cardinality(Linked(qs, rs, m)) + 1
                 <= Cardinality(Reacting(qs, m))
<1>1. Reacting(ps, m) \subseteq Reacting(qs, m)
      /\ \A j \in Reacting(qs, m) : j = k \/ j \in Reacting(ps, m)
  BY DEF Reacting, PostedAs
<1>2. \A i \in MyRecords(rs, m) : rs[i].id # 0
  <2> SUFFICES ASSUME NEW i \in MyRecords(rs, m) PROVE rs[i].id # 0
    OBVIOUS
  <2>1. GoodRecord(c, ps, rs[i])
    BY DEF MyRecords, RecordsOf, RecordsFine
  <2>2. 0 \notin TempIds /\ 0 \notin DOMAIN c
    BY IdsApart DEF TempIds
  <2> QED BY <2>1, <2>2, RecordIds
<1>3. Linked(qs, rs, m) = Linked(ps, rs, m)
  <2>1. ASSUME NEW i \in MyRecords(rs, m)
        PROVE  (\E j \in Reacting(qs, m) : qs[j].at = rs[i].id)
                 <=> \E j \in Reacting(ps, m) : ps[j].at = rs[i].id
    <3>1. \A j \in Reacting(ps, m) : qs[j] = ps[j]
      BY DEF Reacting, PostedAs
    <3>2. k \in Reacting(qs, m) => qs[k].at # rs[i].id
      BY <1>2 DEF PostedAs
    <3> QED BY <1>1, <3>1, <3>2
  <2> QED BY <2>1 DEF Linked
<1>4. /\ IsFiniteSet(Reacting(qs, m)) /\ IsFiniteSet(Reacting(ps, m))
      /\ Cardinality(Reacting(qs, m)) \in Nat /\ Cardinality(Reacting(ps, m)) \in Nat
      /\ Cardinality(Echoes(rs, m)) \in Nat /\ Cardinality(Linked(ps, rs, m)) \in Nat
  BY CountsFinite
<1>5. Cardinality(Reacting(ps, m)) <= Cardinality(Reacting(qs, m))
  BY <1>1, <1>4, FS_Subset
<1>6. CountedAt(qs, rs, m)
  BY <1>3, <1>4, <1>5 DEF CountedAt
<1>7. ASSUME x = Message("reaction", Me, m, NoText)
      PROVE  Cardinality(Reacting(qs, m)) = Cardinality(Reacting(ps, m)) + 1
  <2>1. k \in Reacting(qs, m) /\ k \notin Reacting(ps, m)
    BY <1>7 DEF Reacting, PostedAs
  <2>2. Reacting(qs, m) = Reacting(ps, m) \cup {k}
    BY <1>1, <2>1
  <2>3. \A S : IsFiniteSet(S) /\ k \notin S => Cardinality(S \cup {k}) = Cardinality(S) + 1
    BY FS_AddElement
  <2> QED BY ONLY <1>4, <2>1, <2>2, <2>3
<1> QED BY <1>3, <1>4, <1>6, <1>7 DEF CountedAt

\* The echo of a reaction joins the records.
LEMMA EchoRecorded ==
  ASSUME NEW c, NEW ps, WorldFine(c, ps), NEW qs, WorldFine(c, qs), NEW k, NEW x,
         PostedAs(ps, qs, k, x), NEW rs, RecordsFine(c, ps, rs), RecordsFine(c, qs, rs),
         NEW early, NEW b, GoodBubble(c, qs, b), b.pending, b.id = MaxPosts + k, b.msg = x,
         x.kind = "reaction"
  PROVE  /\ MineKnown(c, rs) => MineKnown(c, Recorded(rs, early, b))
         /\ Counted(c, ps, rs) => Counted(c, qs, Recorded(rs, early, b))
<1> DEFINE new == RecordFor(early, b)
           after == Recorded(rs, early, b)
           m0 == b.msg.parent
<1>1. /\ RecordsFine(c, qs, after) /\ GoodRecord(c, qs, new)
      /\ \A i \in DOMAIN after :
            \/ i \in DOMAIN rs /\ after[i] = rs[i] /\ ~confirmsEcho(rs[i], b)
            \/ /\ after[i] = new
               /\ \A j \in DOMAIN after \ {i} :
                     /\ j < i
                     /\ after[j].parent = new.parent => after[j].id # new.id
      /\ \A i \in DOMAIN rs : ~confirmsEcho(rs[i], b) => i \in DOMAIN after /\ after[i] = rs[i]
      /\ \E i \in DOMAIN after : after[i].parent = new.parent /\ after[i].id = new.id
  BY RecordedFine
<1>2. /\ new.parent = m0 /\ new.sender = b.msg.sender /\ new.pending /\ new.id = MaxPosts + k
  BY DEF RecordFor
<1>3. k \in DOMAIN qs /\ qs[k].msg = x
  BY DEF PostedAs
<1>4. x = Message("reaction", Me, m0, NoText) /\ new.sender = Me
  <2>1. PostFine(c, qs[k])
    BY <1>3 DEF WorldFine, PostsFine
  <2>2. x \in WtMessage /\ x.sender = Me /\ x.body = NoText
    BY <1>3, <2>1 DEF PostFine, Fits
  <2> QED BY <1>2, <2>2 DEF Message, WtMessage
<1> HIDE DEF new, after, m0
<1>5. \A i \in DOMAIN rs : i \in DOMAIN after /\ after[i] = rs[i]
  BY <1>1 DEF confirmsEcho
<1>6. \A i \in DOMAIN rs : rs[i].id # new.id
  BY <1>2, EchoIsNew DEF RecordsFine
<1>7. PICK p \in DOMAIN after : after[p].parent = new.parent /\ after[p].id = new.id
  BY <1>1
<1>8. p \notin DOMAIN rs
  BY <1>5, <1>6, <1>7
<1>9. after[p] = new /\ \A j \in DOMAIN after \ {p} : j < p
  BY <1>1, <1>7, <1>8
<1>10. DOMAIN after = DOMAIN rs \cup {p}
  <2> SUFFICES ASSUME NEW i \in DOMAIN after, i \notin DOMAIN rs, i # p PROVE FALSE
    BY <1>5, <1>7
  <2>1. p < i /\ i < p
    BY <1>1, <1>7, <1>9
  <2>2. p \in Int /\ i \in Int
    BY <1>1, <1>7 DEF RecordsFine
  <2> QED BY <2>1, <2>2
<1>11. ASSUME MineKnown(c, rs) PROVE MineKnown(c, after)
  <2>1. \A m : KnowsMine(rs, m) => KnowsMine(after, m)
    BY <1>5 DEF KnowsMine, RecordsOf
  <2>2. ~Misnamed(c, new)
    <3>1. new.id \in TempIds /\ new.id \notin ChainIds
      BY <1>1, <1>2, RecordIds
    <3> QED BY <3>1, IdsApart DEF Misnamed
  <2> QED BY <1>5, <1>9, <1>10, <1>11, <2>1, <2>2 DEF MineKnown
<1>12. ASSUME Counted(c, ps, rs), NEW m \in DOMAIN c, ~RebuiltAt(c, after, m)
       PROVE  CountedAt(qs, after, m)
  <2>1. CountedAt(ps, rs, m)
    <3>1. ~RebuiltAt(c, rs, m)
      BY <1>5, <1>12 DEF RebuiltAt, RecordsOf
    <3> QED BY <1>12, <3>1 DEF Counted
  <2>2. /\ CountedAt(qs, rs, m)
        /\ m = m0 => Cardinality(Echoes(rs, m)) + Cardinality(Linked(qs, rs, m)) + 1
                       <= Cardinality(Reacting(qs, m))
    BY <1>4, <2>1, RoomForOne
  <2>3. CASE m # m0
    <3>1. MyRecords(after, m) = MyRecords(rs, m)
      BY <1>2, <1>5, <1>9, <1>10, <2>3 DEF MyRecords, RecordsOf
    <3>2. \A i \in MyRecords(rs, m) : after[i] = rs[i]
      BY <1>5 DEF MyRecords, RecordsOf
    <3> QED BY <2>2, <3>1, <3>2, CountedAlike
  <2>4. CASE m = m0
    <3>1. MyRecords(after, m) = MyRecords(rs, m) \cup {p} /\ p \notin MyRecords(rs, m)
      BY <1>2, <1>4, <1>5, <1>8, <1>9, <1>10, <2>4 DEF MyRecords, RecordsOf
    <3>2. \A i \in MyRecords(rs, m) : /\ i \in DOMAIN rs /\ after[i] = rs[i] /\ i \in DOMAIN after
                                      /\ i < p /\ rs[i].id # new.id
      BY <1>5, <1>6, <1>8, <1>9 DEF MyRecords, RecordsOf
    <3>3. Echoes(after, m) = Echoes(rs, m) \cup {p} /\ p \notin Echoes(rs, m)
      BY <1>2, <1>9, <3>1, <3>2 DEF Echoes
    <3>4. Linked(qs, after, m) = Linked(qs, rs, m)
      <4>1. p \notin Linked(qs, after, m)
        BY <1>1, <1>2, <1>9, LinkedLanded
      <4> QED BY <3>1, <3>2, <4>1 DEF Linked
    <3>5. Cardinality(Echoes(after, m)) = Cardinality(Echoes(rs, m)) + 1
      <4>1. IsFiniteSet(Echoes(rs, m))
        BY CountsFinite
      <4>2. \A S : IsFiniteSet(S) /\ p \notin S => Cardinality(S \cup {p}) = Cardinality(S) + 1
        BY FS_AddElement
      <4> QED BY ONLY <3>3, <4>1, <4>2
    <3>6. /\ Cardinality(Echoes(rs, m)) \in Nat /\ Cardinality(Linked(qs, rs, m)) \in Nat
          /\ Cardinality(Reacting(qs, m)) \in Nat
      BY CountsFinite
    <3>7. Cardinality(Echoes(after, m)) + Cardinality(Linked(qs, after, m))
            <= Cardinality(Reacting(qs, m))
      <4>1. Cardinality(Echoes(rs, m)) + Cardinality(Linked(qs, rs, m)) + 1
              <= Cardinality(Reacting(qs, m))
        BY <2>2, <2>4
      <4> QED BY ONLY <3>4, <3>5, <3>6, <4>1
    <3>8. \A i, j \in MyRecords(after, m) : after[i].id = after[j].id => i = j
      BY <1>9, <2>2, <3>1, <3>2 DEF CountedAt
    <3>9. \A i, j \in MyRecords(after, m) : i < j /\ after[i].pending => after[j].pending
      <4> SUFFICES ASSUME NEW i \in MyRecords(after, m), NEW j \in MyRecords(after, m), i < j,
                          after[i].pending
                   PROVE  after[j].pending
        OBVIOUS
      <4>1. CASE j = p
        BY <1>2, <1>9, <4>1
      <4>2. CASE j # p
        <5>1. j \in MyRecords(rs, m) /\ j < p
          BY <3>1, <3>2, <4>2
        <5>2. i # p
          <6>1. p \in Int /\ j \in Int
            BY <1>1, <1>7, <3>2, <5>1 DEF RecordsFine
          <6> QED BY <5>1, <6>1
        <5> QED BY <2>2, <3>1, <3>2, <5>1, <5>2 DEF CountedAt
      <4> QED BY <4>1, <4>2
    <3> QED BY <3>7, <3>8, <3>9 DEF CountedAt
  <2> QED BY <2>3, <2>4
<1> QED BY <1>11, <1>12 DEF Counted, after

-------------------------------------------------------------------------------
(* What each action does to the thread *)

\* The store takes in messages of the chain.
LEMMA TakeKept ==
  ASSUME WorldFine(chain, posts), NEW ids \in SUBSET DOMAIN chain,
         NEW e, NEW seen \in SUBSET DOMAIN chain, StoreInv(chain, posts, e, seen)
  PROVE  LET B == RawBubbles(ids)
             f == ingestMessages(e, B) IN
         /\ StoreInv(chain, posts, f, SeenAfter(e, seen, B)) /\ BatchStep(chain, posts, e, B, f)
         /\ SeenAfter(e, seen, B) \subseteq DOMAIN chain
<1> DEFINE B == RawBubbles(ids)
           f == ingestMessages(e, B)
<1>1. /\ GoodBatch(chain, posts, B)
      /\ \A b \in B : b.id \in ids /\ b.chips = NoChips
  BY RawBatch
<1> HIDE DEF B
<1>2. ThreadFine(chain, posts, e)
  BY DEF StoreInv
<1>3. BatchStep(chain, posts, e, B, f) /\ RecordsKept(chain, posts, e, B, f)
  BY <1>1, <1>2, BatchIngested, BatchKept
<1> HIDE DEF f
<1>4. ThreadFine(chain, posts, f) /\ ShownAll(e, B, f)
  BY <1>3 DEF BatchStep
<1>5. Settled(chain, posts, f.messages)
  BY <1>1, <1>2, <1>4, SettledKept DEF StoreInv
<1>6. CurrentBut(f, {}) /\ Early(f) /\ PinOf(chain, f, SeenAfter(e, seen, B))
  BY <1>1, <1>3 DEF StoreInv, BatchStep, ChipsAll, AwaitedAll, PinsStep
<1>7. MineKnown(chain, f.reactionRecords) /\ Counted(chain, posts, f.reactionRecords)
  BY <1>3 DEF StoreInv, RecordsKept
<1>8. SeenAfter(e, seen, B) \subseteq DOMAIN chain
  BY <1>1 DEF SeenAfter, Pins
<1> QED BY <1>3, <1>4, <1>5, <1>6, <1>7, <1>8 DEF StoreInv, f, B

\* A reconcile is merged.
LEMMA ReconcileKept ==
  ASSUME WorldFine(chain, posts), NEW ids \in SUBSET DOMAIN chain,
         NEW e, NEW seen \in SUBSET DOMAIN chain, StoreInv(chain, posts, e, seen)
  PROVE  StoreInv(chain, posts, mergeThreadMessages(e, ids), {})
<1> DEFINE f == mergeThreadMessages(e, ids)
           B == Visible(e, foldThread(ids))
           g == ingestMessages(e, B)
<1>1. ThreadFine(chain, posts, e)
  BY DEF StoreInv
<1>2. /\ ThreadFine(chain, posts, f) /\ ~f.pinPending /\ f.maxPinId = 0
      /\ ShownAll(e, B, f) /\ AwaitedAll(e, f)
      /\ RecordsKept(chain, posts, e, B, g)
      /\ UnionStep(ids, g.reactionRecords, Seeded(ids), f.reactionRecords)
      /\ CurrentBut(e, {}) => CurrentBut(f, {})
  BY <1>1, Reconciled
<1>3. GoodBatch(chain, posts, B)
  BY FoldedBatch
<1> HIDE DEF f, B, g
<1>4. Settled(chain, posts, f.messages)
  BY <1>1, <1>2, <1>3, SettledKept DEF StoreInv
<1>5. Early(f) /\ PinOf(chain, f, {})
  BY <1>2 DEF StoreInv, AwaitedAll, PinOf
<1>6. MineKnown(chain, g.reactionRecords) /\ Counted(chain, posts, g.reactionRecords)
  BY <1>2 DEF StoreInv, RecordsKept
<1>7. MineKnown(chain, f.reactionRecords) /\ Counted(chain, posts, f.reactionRecords)
  <2>1. MineUpto(ids, Seeded(ids), f.reactionRecords) /\ Counted(chain, posts, f.reactionRecords)
    BY <1>2, <1>6 DEF UnionStep
  <2>2. MineKnown(chain, f.reactionRecords)
    BY <2>1 DEF MineUpto, MineKnown
  <2> QED BY <2>1, <2>2
<1> QED BY <1>2, <1>4, <1>5, <1>7 DEF StoreInv, f

\* The echo of a post comes in: echoes are settled still.
LEMMA SettledPosted ==
  ASSUME NEW c, NEW ps, WorldFine(c, ps), NEW qs, WorldFine(c, qs), NEW k, NEW m,
         PostedAs(ps, qs, k, m), NEW e, ThreadFine(c, qs, e), Settled(c, ps, e.messages),
         NEW b, GoodBubble(c, qs, b), b.pending, b.id = MaxPosts + k, b.msg = m,
         NEW f, ThreadFine(c, qs, f), Shown(e, b, f)
  PROVE  Settled(c, qs, f.messages)
<1> SUFFICES ASSUME NEW j \in DOMAIN qs
             PROVE  /\ \A d \in f.messages :
                         d.id = qs[j].at /\ ~d.tombstoned => MaxPosts + j \notin Ids(f.messages)
                    /\ qs[j].msg.kind = "text" /\ ~qs[j].failed =>
                          \/ MaxPosts + j \in Ids(f.messages)
                          \/ \E d \in f.messages : ~d.pending /\ c[d.id] = qs[j].msg
  BY DEF Settled
<1>1. /\ \A d \in e.messages : GoodBubble(c, qs, d)
      /\ \A d \in f.messages : GoodBubble(c, qs, d)
  BY DEF ThreadFine, MessagesFine
<1>2. \A i \in Ids(e.messages) : i \in Ids(f.messages)
  BY DEF Shown, Ids
<1>3. ASSUME NEW d \in f.messages, d.id = qs[j].at, ~d.tombstoned,
             NEW q \in f.messages, q.id = MaxPosts + j
      PROVE  FALSE
  <2>1. d.id \in DOMAIN c /\ d.id # 0
    <3>1. d.id # 0
      BY <1>1, BubbleFits
    <3>2. PostFine(c, qs[j])
      BY DEF WorldFine, PostsFine
    <3> QED BY <1>3, <3>1, <3>2 DEF PostFine
  <2>2. j # k
    BY <1>3, <2>1 DEF PostedAs
  <2>3. j \in DOMAIN ps /\ qs[j] = ps[j]
    BY <2>2 DEF PostedAs
  <2>4. q.id # b.id
    <3>1. MaxPosts \in Int /\ j \in Int /\ k \in Int
      BY IdsApart DEF WorldFine, PostsFine, PostedAs
    <3>2. MaxPosts + j = MaxPosts + k => j = k
      BY ONLY <3>1, EchoIdsApart
    <3> QED BY <1>3, <2>2, <3>2
  <2>5. d.id # b.id
    <3>1. b.id \notin DOMAIN c
      BY IdsApart DEF PostedAs
    <3> QED BY <2>1, <3>1
  <2>6. PICK a \in e.messages : d.id = a.id /\ ~a.tombstoned
    BY <1>3, <2>5 DEF Shown
  <2>7. PICK o \in e.messages : q.id = o.id
    BY <2>4 DEF Shown
  <2> QED BY <1>3, <2>3, <2>6, <2>7 DEF Settled, Ids
<1>4. ASSUME qs[j].msg.kind = "text", ~qs[j].failed, MaxPosts + j \notin Ids(f.messages)
      PROVE  \E d \in f.messages : ~d.pending /\ c[d.id] = qs[j].msg
  <2>1. j # k
    BY <1>4 DEF Shown, PostedAs
  <2>2. j \in DOMAIN ps /\ qs[j] = ps[j]
    BY <2>1 DEF PostedAs
  <2>3. PICK a \in e.messages : ~a.pending /\ c[a.id] = ps[j].msg
    BY <1>2, <1>4, <2>2 DEF Settled
  <2>4. PICK d \in f.messages : d.id = a.id
    BY <1>2 DEF Ids
  <2>5. ~d.pending
    BY <1>1, <2>3, <2>4, SameEcho
  <2> QED BY <2>2, <2>3, <2>4, <2>5
<1> QED BY <1>3, <1>4 DEF Ids

\* The echo of a post comes in, which deletes no pin of the chain.
LEMMA PostKept ==
  ASSUME NEW c, NEW ps, WorldFine(c, ps), NEW qs, WorldFine(c, qs), NEW k, NEW m,
         PostedAs(ps, qs, k, m), NEW e, NEW seen \in SUBSET DOMAIN c, StoreInv(c, ps, e, seen),
         ~(m.kind = "tombstone" /\ m.parent = e.maxPinId /\ ~e.pinPending)
  PROVE  LET b == RawBubble(MaxPosts + k, m, TRUE)
             f == ingest(e, b) IN
         /\ StoreInv(c, qs, f, seen)
         /\ b.pending /\ ~b.tombstoned /\ b.id = MaxPosts + k /\ b.msg = m
         /\ Shown(e, b, f)
<1> DEFINE b == RawBubble(MaxPosts + k, m, TRUE)
           f == ingest(e, b)
<1>1. /\ GoodBubble(c, qs, b) /\ b.pending /\ b.id = MaxPosts + k /\ b.msg = m
      /\ b.chips = NoChips /\ ~b.tombstoned
  <2>1. k \in DOMAIN qs /\ qs[k].msg = m
    BY DEF PostedAs
  <2> DEFINE d == RawBubble(MaxPosts + k, qs[k].msg, TRUE)
  <2>2. /\ GoodBubble(c, qs, d) /\ d.pending /\ d.id = MaxPosts + k /\ d.msg = qs[k].msg
        /\ d.chips = NoChips /\ ~d.tombstoned
    BY <2>1, EchoGood
  <2>3. b = d
    BY <2>1
  <2> HIDE DEF b, d
  <2> QED BY <2>1, <2>2, <2>3
<1> HIDE DEF b
<1>2. ThreadFine(c, ps, e)
  BY DEF StoreInv
<1>3. ThreadFine(c, qs, e)
  <2>1. Grown(c, ps, c, qs)
    BY DEF Grown, PostedAs
  <2> QED BY <1>2, <2>1, ThreadGrows
<1>4. IngestStep(c, qs, e, b, f)
  BY <1>1, <1>3, Ingested
<1> HIDE DEF f
<1>5. ThreadFine(c, qs, f) /\ Shown(e, b, f) /\ Awaited(e, b, f)
  BY <1>4 DEF IngestStep
<1>6. Settled(c, qs, f.messages)
  BY <1>1, <1>3, <1>5, SettledPosted DEF StoreInv
<1>7. Early(f)
  <2>1. AwaitedAll(e, f)
    BY <1>3, <1>5, EarlyKept
  <2> QED BY <2>1 DEF AwaitedAll, StoreInv
<1>8. CurrentBut(f, {})
  BY <1>1, <1>4 DEF StoreInv, IngestStep, ChipsStep
<1>9. PinOf(c, f, seen)
  <2>1. PinStep(e, b, f) /\ PinOf(c, e, seen)
    BY <1>4 DEF IngestStep, StoreInv
  <2> QED BY <1>1, <2>1 DEF PinStep, PinOf
<1>10. MineKnown(c, f.reactionRecords) /\ Counted(c, qs, f.reactionRecords)
  <2>1. MineKnown(c, e.reactionRecords) /\ Counted(c, ps, e.reactionRecords)
    BY DEF StoreInv
  <2>2. RecordsFine(c, ps, e.reactionRecords) /\ RecordsFine(c, qs, e.reactionRecords)
    BY <1>2, <1>3 DEF ThreadFine
  <2>3. RecordsStep(e, b, f)
    BY <1>4 DEF IngestStep
  <2>4. CASE b.msg.kind = "reaction"
    BY <1>1, <2>1, <2>2, <2>3, <2>4, EchoRecorded DEF RecordsStep
  <2>5. CASE b.msg.kind # "reaction"
    <3>1. SameRecords(e.reactionRecords, f.reactionRecords)
      <4>1. b.msg.kind \in {"text", "reaction", "tombstone", "pin"}
        BY <1>1, BubbleFits DEF WtMessage
      <4> QED BY <2>3, <2>5, <4>1 DEF RecordsStep, SameRecords
    <3>2. Counted(c, qs, e.reactionRecords)
      BY <2>1, <2>2, RoomForOne DEF Counted
    <3> QED BY <2>1, <2>2, <3>1, <3>2, SameRecordsKept
  <2> QED BY <2>4, <2>5
<1> QED BY <1>1, <1>5, <1>6, <1>7, <1>8, <1>9, <1>10 DEF StoreInv, f, b

\* The reader's posts, of which the k-th has failed.
FailedAt(ps, qs, k) ==
    /\ k \in DOMAIN ps /\ DOMAIN qs = DOMAIN ps /\ qs[k].failed
    /\ \A j \in DOMAIN ps : /\ qs[j].msg = ps[j].msg /\ qs[j].at = ps[j].at
                            /\ j # k => qs[j].failed = ps[j].failed

\* A post fails, and its echo goes: the other echoes are settled still.
LEMMA SettledFails ==
  ASSUME NEW c, NEW ps, WorldFine(c, ps), NEW qs, WorldFine(c, qs), NEW k, FailedAt(ps, qs, k),
         NEW e, ThreadFine(c, ps, e), Settled(c, ps, e.messages),
         NEW N, Restamped(But(e.messages, MaxPosts + k), N)
  PROVE  Settled(c, qs, N)
<1> SUFFICES ASSUME NEW j \in DOMAIN qs
             PROVE  /\ \A d \in N :
                         d.id = qs[j].at /\ ~d.tombstoned => MaxPosts + j \notin Ids(N)
                    /\ qs[j].msg.kind = "text" /\ ~qs[j].failed =>
                          \/ MaxPosts + j \in Ids(N)
                          \/ \E d \in N : ~d.pending /\ c[d.id] = qs[j].msg
  BY DEF Settled
<1>1. \A d \in N : \E a \in e.messages : Stays(a, d)
  BY DEF Restamped, But
<1>2. \A a \in e.messages : a.id # MaxPosts + k => \E d \in N : Stays(a, d)
  BY DEF Restamped, But
<1>3. ASSUME NEW d \in N, d.id = qs[j].at, ~d.tombstoned, NEW q \in N, q.id = MaxPosts + j
      PROVE  FALSE
  <2>1. PICK a \in e.messages : d.id = a.id /\ ~a.tombstoned
    BY <1>1, <1>3 DEF Stays
  <2>2. PICK o \in e.messages : q.id = o.id
    BY <1>1 DEF Stays
  <2>3. j \in DOMAIN ps /\ ps[j].at = qs[j].at
    BY DEF FailedAt
  <2>4. MaxPosts + j \notin Ids(e.messages)
    BY <1>3, <2>1, <2>3 DEF Settled
  <2> QED BY <1>3, <2>2, <2>4 DEF Ids
<1>4. ASSUME qs[j].msg.kind = "text", ~qs[j].failed, MaxPosts + j \notin Ids(N)
      PROVE  \E d \in N : ~d.pending /\ c[d.id] = qs[j].msg
  <2>1. j # k /\ j \in DOMAIN ps /\ ps[j].msg = qs[j].msg /\ ~ps[j].failed
    BY <1>4 DEF FailedAt
  <2>2. MaxPosts + j # MaxPosts + k
    <3>1. MaxPosts \in Int /\ j \in Int /\ k \in Int
      BY <2>1, IdsApart DEF WorldFine, PostsFine, FailedAt
    <3> QED BY ONLY <2>1, <3>1, EchoIdsApart
  <2>3. MaxPosts + j \notin Ids(e.messages)
    BY <1>2, <1>4, <2>2 DEF Ids, Stays
  <2>4. PICK a \in e.messages : ~a.pending /\ c[a.id] = ps[j].msg
    BY <1>4, <2>1, <2>3 DEF Settled
  <2>5. a.id # MaxPosts + k
    <3>1. GoodBubble(c, ps, a) /\ MaxPosts + k \notin DOMAIN c
      BY IdsApart DEF ThreadFine, MessagesFine, FailedAt
    <3> QED BY <2>4, <3>1 DEF GoodBubble
  <2>6. PICK d \in N : Stays(a, d)
    BY <1>2, <2>5
  <2> QED BY <2>1, <2>4, <2>6 DEF Stays
<1> QED BY <1>3, <1>4 DEF Ids

\* The records without some of the echoes.
LEMMA EchoesGone ==
  ASSUME NEW c, NEW ps, WorldFine(c, ps), NEW qs, WorldFine(c, qs), NEW k, FailedAt(ps, qs, k),
         NEW rs, RecordsFine(c, ps, rs), NEW G, \A j \in G \cap DOMAIN rs : rs[j].pending,
         NEW after, after = Without(rs, G), RecordsFine(c, qs, after)
  PROVE  /\ MineKnown(c, rs) => MineKnown(c, after)
         /\ Counted(c, ps, rs) => Counted(c, qs, after)
<1>1. DOMAIN after = DOMAIN rs \ G /\ \A j \in DOMAIN after : after[j] = rs[j]
  <2>1. after = [j \in DOMAIN rs \ G |-> rs[j]]
    BY DEF Without, Restrict
  <2> QED BY <2>1
<1>2. \A j \in DOMAIN rs : ~rs[j].pending => j \in DOMAIN after /\ after[j] = rs[j]
  BY <1>1
<1>3. ASSUME MineKnown(c, rs) PROVE MineKnown(c, after)
  <2>1. \A m : KnowsMine(rs, m) => KnowsMine(after, m)
    BY <1>2 DEF KnowsMine, RecordsOf
  <2> QED BY <1>1, <1>3, <2>1 DEF MineKnown
<1>4. ASSUME Counted(c, ps, rs), NEW m \in DOMAIN c, ~RebuiltAt(c, after, m)
      PROVE  CountedAt(qs, after, m)
  <2>1. CountedAt(ps, rs, m)
    <3>1. \A j \in RecordsOf(rs, m) :
            ~rs[j].pending => /\ j \in RecordsOf(after, m)
                              /\ after[j].id = rs[j].id /\ after[j].sender = rs[j].sender
      BY <1>2 DEF RecordsOf
    <3> QED BY <1>4, <3>1, RebuiltStays DEF Counted
  <2>2. \A j \in MyRecords(after, m) : j \in MyRecords(rs, m) /\ after[j] = rs[j]
    BY <1>1 DEF MyRecords, RecordsOf
  <2>3. Reacting(qs, m) = Reacting(ps, m)
    BY DEF Reacting, FailedAt
  <2>4. Echoes(after, m) \subseteq Echoes(rs, m)
    BY <2>2 DEF Echoes
  <2>5. Linked(qs, after, m) \subseteq Linked(ps, rs, m)
    <3>1. \A i \in Reacting(qs, m) : i \in Reacting(ps, m) /\ qs[i].at = ps[i].at
      BY <2>3 DEF FailedAt, Reacting
    <3> QED BY <2>2, <3>1 DEF Linked
  <2>6. /\ IsFiniteSet(Echoes(rs, m)) /\ Cardinality(Echoes(rs, m)) \in Nat
        /\ IsFiniteSet(Linked(ps, rs, m)) /\ Cardinality(Linked(ps, rs, m)) \in Nat
        /\ Cardinality(Echoes(after, m)) \in Nat /\ Cardinality(Linked(qs, after, m)) \in Nat
        /\ Cardinality(Reacting(ps, m)) \in Nat
    BY CountsFinite
  <2>7. /\ Cardinality(Echoes(after, m)) <= Cardinality(Echoes(rs, m))
        /\ Cardinality(Linked(qs, after, m)) <= Cardinality(Linked(ps, rs, m))
    BY <2>4, <2>5, <2>6, FS_Subset
  <2>8. Cardinality(Echoes(rs, m)) + Cardinality(Linked(ps, rs, m)) <= Cardinality(Reacting(ps, m))
    BY <2>1 DEF CountedAt
  <2>9. Cardinality(Echoes(after, m)) + Cardinality(Linked(qs, after, m)) <= Cardinality(Reacting(qs, m))
    BY ONLY <2>3, <2>6, <2>7, <2>8
  <2> QED BY <2>1, <2>2, <2>9 DEF CountedAt
<1> QED BY <1>3, <1>4 DEF Counted

\* The client is told that a post failed.
LEMMA FailKept ==
  ASSUME NEW c, NEW ps, WorldFine(c, ps), NEW qs, WorldFine(c, qs), NEW k, FailedAt(ps, qs, k),
         NEW e, NEW seen, StoreInv(c, ps, e, seen)
  PROVE  LET f == removeMessage(e, MaxPosts + k) IN
         /\ StoreInv(c, qs, f,
                     IF e.pinPending /\ e.maxPinId = MaxPosts + k THEN {} ELSE seen)
         /\ Restamped(But(e.messages, MaxPosts + k), f.messages)
<1> DEFINE f == removeMessage(e, MaxPosts + k)
           rs == e.reactionRecords
<1>1. ThreadFine(c, ps, e) /\ Settled(c, ps, e.messages)
  BY DEF StoreInv
<1>2. ThreadFine(c, qs, e)
  <2>1. Grown(c, ps, c, qs)
    BY DEF Grown, FailedAt
  <2> QED BY <1>1, <2>1, ThreadGrows
<1>3. /\ ThreadFine(c, qs, f)
      /\ f.pendingTombstones = e.pendingTombstones
      /\ Restamped(But(e.messages, MaxPosts + k), f.messages)
      /\ CurrentBut(e, {}) => CurrentBut(f, {})
      /\ PinDropped(e, MaxPosts + k, f)
  <2>1. k \in DOMAIN qs
    BY DEF FailedAt
  <2>2. /\ ThreadFine(c, qs, f)
        /\ f.pendingTombstones = e.pendingTombstones
        /\ Restamped(But(e.messages, MaxPosts + k), f.messages)
        /\ CurrentBut(e, {}) => CurrentBut(f, {})
    BY <1>2, <2>1, Removed
  <2>3. PinDropped(e, MaxPosts + k, f)
    BY <1>2, <2>1, Removed
  <2> QED BY <2>2, <2>3
<1>4. PICK G : /\ \A j \in G \cap DOMAIN rs : rs[j].pending
               /\ f.reactionRecords = Without(rs, G)
  <2>1. k \in DOMAIN qs
    BY DEF FailedAt
  <2> QED BY <1>2, <2>1, Removed
<1> HIDE DEF f
<1>5. Settled(c, qs, f.messages)
  BY <1>1, <1>3, SettledFails
<1>6. MineKnown(c, f.reactionRecords) /\ Counted(c, qs, f.reactionRecords)
  <2>1. RecordsFine(c, ps, rs) /\ RecordsFine(c, qs, f.reactionRecords)
    BY <1>1, <1>3 DEF ThreadFine
  <2> QED BY <1>4, <2>1, EchoesGone DEF StoreInv
<1>7. Early(f)
  <2>1. \A d \in f.messages : \E a \in e.messages : Stays(a, d)
    BY <1>3 DEF Restamped, But
  <2> QED BY <1>3, <2>1 DEF StoreInv, Early, Stays
<1>8. PinOf(c, f, IF e.pinPending /\ e.maxPinId = MaxPosts + k THEN {} ELSE seen)
  <2>1. PinOf(c, e, seen)
    BY DEF StoreInv
  <2>2. CASE e.pinPending /\ e.maxPinId = MaxPosts + k
    BY <1>3, <2>2 DEF PinOf, PinDropped
  <2>3. CASE ~(e.pinPending /\ e.maxPinId = MaxPosts + k)
    BY <1>3, <2>1, <2>3 DEF PinOf, PinDropped
  <2> QED BY <2>2, <2>3
<1>9. CurrentBut(f, {})
  BY <1>3 DEF StoreInv
<1> QED BY <1>3, <1>5, <1>6, <1>7, <1>8, <1>9 DEF StoreInv, f

-------------------------------------------------------------------------------
(* The invariant *)

\* What fits a chain fits one that begins with it.
LEMMA FitsLonger ==
  ASSUME NEW c, NEW n \in Nat, NEW m, Fits(c, n, m), NEW d, NEW k \in Nat, n <= k,
         \A i \in 1 .. n : d[i] = c[i]
  PROVE  Fits(d, k, m)
<1>1. \A i \in 1 .. n : i \in 1 .. k
  OBVIOUS
<1>2. \A i \in 0 .. n : i \in 0 .. k
  OBVIOUS
<1> QED BY <1>1, <1>2 DEF Fits

\* What a wallet can post fits.
LEMMA PostableFits ==
  ASSUME NEW c \in Seq(WtMessage), Len(c) <= MaxPosts, NEW w \in Wallets, NEW m \in Postable(w, c)
  PROVE  Fits(c, Len(c), m) /\ m.sender = w
<1>1. DOMAIN c = 1 .. Len(c) /\ Len(c) \in Nat /\ MaxPosts \in Nat /\ DOMAIN c \subseteq ChainIds
  BY WarTableAssumption DEF ChainIds
<1>2. CASE \E b \in Bodies : m = Message("text", w, ZERO_ID, b)
  BY <1>2 DEF Message, Fits, WtMessage
<1>3. CASE \E i \in DOMAIN c : c[i].kind = "text" /\ m = Message("reaction", w, i, NoText)
  BY <1>1, <1>3 DEF Message, Fits, WtMessage
<1>4. CASE \E i \in {0} \cup DOMAIN c : m = Message("pin", w, i, NoText)
  <2>1. PICK i \in {0} \cup DOMAIN c : m = Message("pin", w, i, NoText)
    BY <1>4
  <2>2. i \in 0 .. Len(c) /\ i \in ChainIds \cup {ZERO_ID}
    BY <1>1 DEF ZERO_ID
  <2> QED BY <2>1, <2>2 DEF Message, Fits, WtMessage
<1>5. CASE \E i \in DOMAIN c : c[i].kind # "tombstone" /\ m = Message("tombstone", w, i, NoText)
  BY <1>1, <1>5 DEF Message, Fits, WtMessage
<1> QED BY <1>2, <1>3, <1>4, <1>5 DEF Postable, ZERO_ID

\* A history is a chain that the program can have.
LEMMA HistoryFine ==
  ASSUME NEW c \in Histories
  PROVE  ChainFine(c)
<1>1. /\ c \in Seq(WtMessage) /\ Len(c) <= MaxPosts /\ MaxPosts \in Nat
      /\ \A i \in DOMAIN c : c[i] \in Postable(c[i].sender, SubSeq(c, 1, i - 1))
  BY WarTableAssumption
<1>2. Len(c) \in Nat /\ DOMAIN c = 1 .. Len(c) /\ \A i \in DOMAIN c : c[i] \in WtMessage
  BY <1>1
<1>3. ASSUME NEW i \in DOMAIN c PROVE Fits(c, i - 1, c[i])
  <2> DEFINE s == SubSeq(c, 1, i - 1)
  <2>1. i \in Int /\ 1 <= i /\ i <= Len(c) /\ i - 1 \in Nat
    BY <1>2
  <2>2. /\ s \in Seq(WtMessage) /\ Len(s) = i - 1
        /\ \A j \in 1 .. i - 1 : s[j] = c[j]
    BY <1>1, <1>2, <2>1
  <2>3. Len(s) <= MaxPosts
    BY <1>1, <1>2, <2>1, <2>2
  <2>4. c[i].sender \in Wallets /\ c[i] \in Postable(c[i].sender, s)
    BY <1>1, <1>2 DEF WtMessage
  <2> HIDE DEF s
  <2>5. Fits(s, i - 1, c[i])
    BY <2>2, <2>3, <2>4, PostableFits
  <2> QED BY <2>1, <2>2, <2>5, FitsLonger
<1> QED BY <1>1, <1>3 DEF ChainFine

\* The chain takes one more message.
MadeOf(c, m, d) == d = Append(c, m)
LandedAs(c, m, d, n) ==
    /\ Len(d) = n /\ DOMAIN d = DOMAIN c \cup {n} /\ d[n] = m
    /\ \A i \in DOMAIN c : d[i] = c[i]
    /\ n \in ChainIds /\ n \notin DOMAIN c

\* It is then fine as well.
LEMMA ChainGrows ==
  ASSUME NEW c, NEW ps, WorldFine(c, ps), NEW m, Fits(c, Len(c), m), Len(c) < MaxPosts,
         NEW d, MadeOf(c, m, d)
  PROVE  WorldFine(d, ps) /\ LandedAs(c, m, d, Len(c) + 1)
<1> DEFINE n == Len(c) + 1
<1>1. /\ c \in Seq(WtMessage) /\ Len(c) \in Nat /\ DOMAIN c = 1 .. Len(c) /\ MaxPosts \in Nat
      /\ \A i \in DOMAIN c : Fits(c, i - 1, c[i])
  BY IdsApart DEF WorldFine, ChainFine
<1>2. m \in WtMessage
  BY DEF Fits
<1>3. /\ d \in Seq(WtMessage) /\ Len(d) = n /\ DOMAIN d = 1 .. n /\ d[n] = m
      /\ \A i \in DOMAIN c : d[i] = c[i]
  BY <1>1, <1>2 DEF MadeOf
<1>4. n \in ChainIds /\ n \notin DOMAIN c /\ DOMAIN d = DOMAIN c \cup {n} /\ n <= MaxPosts
  BY <1>1, <1>3 DEF ChainIds
<1>5. ASSUME NEW i \in DOMAIN d PROVE Fits(d, i - 1, d[i])
  <2>1. CASE i \in DOMAIN c
    <3>1. i - 1 \in Nat /\ \A j \in 1 .. i - 1 : j \in DOMAIN c
      BY <1>1, <2>1
    <3>2. \A j \in 1 .. i - 1 : d[j] = c[j]
      BY <1>3, <3>1
    <3>3. Fits(c, i - 1, c[i])
      BY <1>1, <2>1
    <3>4. i - 1 <= i - 1 /\ d[i] = c[i]
      BY <1>3, <2>1, <3>1
    <3>5. Fits(d, i - 1, c[i])
      BY ONLY <3>1, <3>2, <3>3, <3>4, FitsLonger
    <3> QED BY <3>4, <3>5
  <2>2. CASE i = n
    <3>1. i - 1 = Len(c)
      BY <1>1, <2>2
    <3>2. Fits(d, Len(c), m)
      <4>1. Len(c) <= Len(c) /\ \A j \in 1 .. Len(c) : d[j] = c[j]
        BY <1>1, <1>3
      <4>2. Fits(c, Len(c), m)
        OBVIOUS
      <4> QED BY ONLY <1>1, <4>1, <4>2, FitsLonger
    <3> QED BY <1>3, <2>2, <3>1, <3>2
  <2> QED BY <1>4, <2>1, <2>2
<1>6. ChainFine(d)
  BY <1>3, <1>4, <1>5 DEF ChainFine
<1>7. ASSUME NEW k \in DOMAIN ps PROVE PostFine(d, ps[k])
  <2>1. PostFine(c, ps[k])
    BY DEF WorldFine, PostsFine
  <2>2. Fits(d, Len(d), ps[k].msg)
    <3>1. Fits(c, Len(c), ps[k].msg)
      BY <2>1 DEF PostFine
    <3>2. Len(d) \in Nat /\ Len(c) <= Len(d)
      BY <1>1, <1>3
    <3> QED BY <1>1, <1>3, <3>1, <3>2, FitsLonger
  <2> QED BY <1>3, <1>4, <2>1, <2>2 DEF PostFine
<1>8. PostsFine(d, ps)
  BY <1>7 DEF WorldFine, PostsFine
<1> HIDE DEF n
<1> QED BY <1>3, <1>4, <1>6, <1>8 DEF WorldFine, LandedAs, n

\* A read that is made is of the chain.
LEMMA ReadIsFine ==
  ASSUME NEW c, NEW kind \in {"seed", "older", "reconcile"}, NEW limit \in Nat,
         NEW hi \in Nat, Len(c) \in Nat, hi <= Len(c)
  PROVE  ReadFine(c, Read(kind, limit, hi)) /\ Read(kind, limit, hi).kind = kind
<1> DEFINE lo == IF hi > limit THEN hi - limit + 1 ELSE 1
<1>1. Read(kind, limit, hi) = [kind |-> kind, lo |-> lo, hi |-> hi]
  BY DEF Read
<1>2. lo \in Nat \ {0} /\ lo <= hi + 1
  OBVIOUS
<1> HIDE DEF lo
<1> QED BY <1>1, <1>2 DEF ReadFine

\* What it is of.
LEMMA PageIds ==
  ASSUME NEW c, NEW ps, WorldFine(c, ps), NEW r, ReadFine(c, r)
  PROVE  r.lo .. r.hi \in SUBSET DOMAIN c
<1>1. DOMAIN c = 1 .. Len(c) /\ Len(c) \in Nat
  BY IdsApart
<1> QED BY <1>1 DEF ReadFine

\* The store when the thread is opened.
LEMMA NothingYet ==
  ASSUME NEW c, NEW ps, WorldFine(c, ps), ps = <<>>
  PROVE  StoreInv(c, ps, emptyThread, {})
<1> DEFINE e == emptyThread
<1>1. /\ e.messages = {} /\ e.pendingTombstones = {} /\ e.pinnedId = 0 /\ e.maxPinId = 0
      /\ e.pinPending = FALSE /\ e.reactionRecords = <<>>
  BY DEF emptyThread, ZERO_ID
<1>2. DOMAIN e.reactionRecords = {} /\ e.reactionRecords = [k \in {} |-> e.reactionRecords[k]]
  BY <1>1
<1>3. e \in ThreadEntry
  <2>1. e.reactionRecords \in [{} -> ReactionRecord]
    BY <1>2
  <2>2. e.reactionRecords \in ReactionRecords
    <3>1. {} \in SUBSET Nat
      OBVIOUS
    <3> HIDE DEF e
    <3> QED BY <2>1, <3>1 DEF ReactionRecords
  <2>3. <<>> \in ReactionRecords
    BY <1>1, <2>2
  <2> QED BY <2>3 DEF emptyThread, ThreadEntry, ZERO_ID
<1> HIDE DEF e
<1>4. \A m : RecordsOf(e.reactionRecords, m) = {}
  BY <1>2 DEF RecordsOf
<1>5. ThreadFine(c, ps, e)
  <2>1. MessagesFine(c, ps, e.messages)
    BY <1>1, FS_EmptySet DEF MessagesFine
  <2>2. RecordsFine(c, ps, e.reactionRecords)
    <3>1. IsFiniteSet({})
      BY FS_EmptySet
    <3> QED BY <1>2, <3>1 DEF RecordsFine
  <2> QED BY <1>1, <1>3, <2>1, <2>2 DEF ThreadFine, PinFine
<1>6. CurrentBut(e, {}) /\ Early(e) /\ PinOf(c, e, {})
  BY <1>1 DEF CurrentBut, Early, PinOf
<1>7. Settled(c, ps, e.messages)
  BY <1>1 DEF Settled
<1>8. MineKnown(c, e.reactionRecords)
  BY <1>2 DEF MineKnown
<1>9. Counted(c, ps, e.reactionRecords)
  <2> SUFFICES ASSUME NEW m \in DOMAIN c PROVE CountedAt(ps, e.reactionRecords, m)
    BY DEF Counted
  <2>1. MyRecords(e.reactionRecords, m) = {}
    BY <1>4 DEF MyRecords
  <2>2. Echoes(e.reactionRecords, m) = {} /\ Linked(ps, e.reactionRecords, m) = {}
    BY <2>1 DEF Echoes, Linked
  <2>3. Cardinality(Echoes(e.reactionRecords, m)) = 0 /\ Cardinality(Linked(ps, e.reactionRecords, m)) = 0
    BY <2>2, FS_EmptySet
  <2>4. RecordsFine(c, ps, e.reactionRecords)
    BY <1>5 DEF ThreadFine
  <2>5. Cardinality(Reacting(ps, m)) \in Nat
    BY <2>4, CountsFinite
  <2> QED BY <2>1, <2>3, <2>5 DEF CountedAt
<1> QED BY <1>5, <1>6, <1>7, <1>8, <1>9 DEF StoreInv, e

\* The invariant holds at first.
LEMMA InitInv == Init => WarTableInv
<1> SUFFICES ASSUME Init PROVE WarTableInv
  OBVIOUS
<1>1. chain \in Histories /\ ChainFine(chain)
  BY HistoryFine DEF Init
<1>2. Len(posts) = 0 /\ DOMAIN posts = {} /\ DOMAIN posts = 1 .. 0 /\ posts = <<>>
      /\ posts \in Seq([msg : WtMessage, at : Nat, failed : BOOLEAN])
  BY DEF Init
<1>3. WorldFine(chain, posts)
  BY <1>1, <1>2, WarTableAssumption DEF WorldFine, PostsFine
<1>4. Len(chain) \in Nat
  BY <1>3, IdsApart
<1>5. \A r \in reads : ReadFine(chain, r)
  <2>1. ReadFine(chain, Read("seed", PageLimit, Len(chain)))
    BY <1>4, ReadIsFine, WarTableAssumption
  <2> QED BY <2>1 DEF Init
<1>6. StoreInv(chain, posts, thread, pinsSeen)
  BY <1>2, <1>3, NothingYet DEF Init
<1> QED BY <1>2, <1>3, <1>4, <1>5, <1>6 DEF Init, WarTableInv

\* A message lands, of the reader or of somebody else.
LEMMA ChainStep ==
  ASSUME WarTableInv, NEW m, Fits(chain, Len(chain), m), Append1(m),
         reads' = reads, olderCursor' = olderCursor, thread' = thread, pinsSeen' = pinsSeen,
         posts' \in Seq([msg : WtMessage, at : Nat, failed : BOOLEAN]),
         WorldFine(chain', posts) => PostsFine(chain', posts'),
         LandsAt(posts, posts', Len(chain) + 1)
  PROVE  WarTableInv'
<1> DEFINE n == Len(chain) + 1
<1>1. /\ WorldFine(chain, posts) /\ StoreInv(chain, posts, thread, pinsSeen)
      /\ inflight \subseteq DOMAIN chain /\ pinsSeen \subseteq DOMAIN chain
      /\ \A r \in reads : ReadFine(chain, r)
      /\ olderCursor \in Int /\ olderCursor <= Len(chain)
  BY DEF WarTableInv
<1>2. /\ Len(chain) < MaxPosts /\ chain' = Append(chain, m)
      /\ inflight' \in {inflight, inflight \cup {n}}
  BY DEF Append1
<1>3. /\ WorldFine(chain', posts)
      /\ Len(chain') = n /\ DOMAIN chain' = DOMAIN chain \cup {n}
      /\ \A i \in DOMAIN chain : chain'[i] = chain[i]
      /\ n \in ChainIds /\ n \notin DOMAIN chain
  <2>1. WorldFine(chain, posts) /\ Fits(chain, Len(chain), m) /\ Len(chain) < MaxPosts
    BY <1>1, <1>2
  <2>2. MadeOf(chain, m, chain')
    BY <1>2 DEF MadeOf
  <2>3. WorldFine(chain', posts) /\ LandedAs(chain, m, chain', n)
    BY <2>1, <2>2, ChainGrows
  <2> HIDE DEF n
  <2> QED BY <2>3 DEF LandedAs
<1>4. Len(chain) \in Nat
  BY <1>1, IdsApart
<1>5. Len(chain) <= Len(chain') /\ Len(chain') \in Nat
  BY <1>3, <1>4
<1>6. \A r \in reads : ReadFine(chain', r)
  BY <1>1, <1>4, <1>5 DEF ReadFine
<1>7. olderCursor <= Len(chain')
  BY <1>1, <1>4, <1>5
<1>8. WorldFine(chain', posts')
  BY <1>3 DEF WorldFine
<1> HIDE DEF n
<1>9. Grown(chain, posts, chain', posts')
  BY <1>3 DEF Grown, LandsAt
<1>10. StoreInv(chain', posts', thread, pinsSeen)
  <2>1. LandsAt(posts, posts', n)
    BY DEF n
  <2> QED BY <1>1, <1>3, <1>8, <1>9, <2>1, Lands
<1>11. inflight' \subseteq DOMAIN chain' /\ pinsSeen' \subseteq DOMAIN chain'
  BY <1>1, <1>2, <1>3
<1> QED BY <1>1, <1>6, <1>7, <1>8, <1>10, <1>11 DEF WarTableInv

\* Somebody posts.
LEMMA PostElsewhereInv ==
  ASSUME WarTableInv, NEW w \in Wallets, NEW m \in Postable(w, chain), PostElsewhere(w, m)
  PROVE  WarTableInv'
<1>1. WorldFine(chain, posts) /\ posts \in Seq([msg : WtMessage, at : Nat, failed : BOOLEAN])
  BY DEF WarTableInv
<1>2. Fits(chain, Len(chain), m)
  BY <1>1, PostableFits DEF WorldFine, ChainFine
<1>3. /\ Append1(m) /\ reads' = reads /\ olderCursor' = olderCursor /\ thread' = thread
      /\ pinsSeen' = pinsSeen /\ posts' = posts
  BY DEF PostElsewhere
<1>4. LandsAt(posts, posts', Len(chain) + 1)
  BY <1>3 DEF LandsAt
<1>5. WorldFine(chain', posts) => PostsFine(chain', posts')
  BY <1>3 DEF WorldFine
<1> QED BY <1>1, <1>2, <1>3, <1>4, <1>5, ChainStep

\* A post of the reader's lands.
LEMMA LandInv ==
  ASSUME WarTableInv, NEW k \in DOMAIN posts, Land(k)
  PROVE  WarTableInv'
<1> DEFINE n == Len(chain) + 1
           m == posts[k].msg
<1>1. WorldFine(chain, posts) /\ posts \in Seq([msg : WtMessage, at : Nat, failed : BOOLEAN])
  BY DEF WarTableInv
<1>2. PostFine(chain, posts[k]) /\ Fits(chain, Len(chain), m)
  BY <1>1 DEF WorldFine, PostsFine, PostFine
<1>3. /\ posts[k].at = 0 /\ Append1(m) /\ posts' = [posts EXCEPT ![k].at = n]
      /\ reads' = reads /\ olderCursor' = olderCursor /\ thread' = thread /\ pinsSeen' = pinsSeen
  BY DEF Land
<1>4. Len(chain) \in Nat /\ n \in Nat
  BY <1>1, IdsApart
<1>5. Len(chain) < MaxPosts /\ MadeOf(chain, m, chain')
  BY <1>3 DEF Append1, MadeOf
<1>6. LandedAs(chain, m, chain', n)
  BY <1>1, <1>2, <1>5, ChainGrows
<1> HIDE DEF n
<1>7. posts[k] \in [msg : WtMessage, at : Nat, failed : BOOLEAN]
  BY <1>2 DEF PostFine
<1>8. /\ DOMAIN posts' = DOMAIN posts /\ Len(posts') = Len(posts)
      /\ posts' \in Seq([msg : WtMessage, at : Nat, failed : BOOLEAN])
      /\ \A j \in DOMAIN posts : j # k => posts'[j] = posts[j]
      /\ posts'[k].msg = m /\ posts'[k].failed = posts[k].failed /\ posts'[k].at = n
      /\ posts'[k] \in [msg : WtMessage, at : Nat, failed : BOOLEAN]
  BY <1>1, <1>3, <1>4, <1>7
<1>9. LandsAt(posts, posts', n)
  BY <1>3, <1>8 DEF LandsAt
<1> HIDE DEF m
<1>10. ASSUME WorldFine(chain', posts) PROVE PostsFine(chain', posts')
  <2>1. \A j \in DOMAIN posts : PostFine(chain', posts[j])
    BY <1>10 DEF WorldFine, PostsFine
  <2>2. PostFine(chain', posts'[k])
    <3>1. Fits(chain', Len(chain'), m) /\ m.sender = Me
      BY <2>1 DEF PostFine, m
    <3>2. n \in DOMAIN chain' /\ chain'[n] = m
      BY <1>6 DEF LandedAs
    <3> QED BY <1>8, <3>1, <3>2 DEF PostFine
  <2>3. \A j \in DOMAIN posts' : PostFine(chain', posts'[j])
    BY <1>8, <2>1, <2>2
  <2> QED BY <1>8, <1>10, <2>3 DEF WorldFine, PostsFine
<1> QED BY <1>2, <1>3, <1>8, <1>9, <1>10, ChainStep DEF n

\* The store takes in messages of the chain, and the rest is as it was.
LEMMA TakeInv ==
  ASSUME WarTableInv, NEW ids \in SUBSET DOMAIN chain, Take(RawBubbles(ids)),
         chain' = chain, posts' = posts, inflight' \subseteq inflight, reads' \subseteq reads,
         olderCursor' \in Int, olderCursor' <= Len(chain)
  PROVE  WarTableInv'
<1> DEFINE B == RawBubbles(ids)
<1>1. /\ WorldFine(chain, posts) /\ StoreInv(chain, posts, thread, pinsSeen)
      /\ inflight \subseteq DOMAIN chain /\ pinsSeen \in SUBSET DOMAIN chain
      /\ \A r \in reads : ReadFine(chain, r)
      /\ posts \in Seq([msg : WtMessage, at : Nat, failed : BOOLEAN])
  BY DEF WarTableInv
<1> HIDE DEF B
<1>2. thread' = ingestMessages(thread, B) /\ pinsSeen' = SeenAfter(thread, pinsSeen, B)
  BY DEF Take, SeenAfter, Pins, B
<1>3. /\ StoreInv(chain, posts, ingestMessages(thread, B), SeenAfter(thread, pinsSeen, B))
      /\ SeenAfter(thread, pinsSeen, B) \subseteq DOMAIN chain
  BY <1>1, TakeKept DEF B
<1> QED BY <1>1, <1>2, <1>3 DEF WarTableInv

\* The subscription hands over a message.
LEMMA DeliverInv ==
  ASSUME WarTableInv, NEW i \in inflight, Deliver(i)
  PROVE  WarTableInv'
<1>1. /\ i \in DOMAIN chain /\ olderCursor \in Int /\ olderCursor <= Len(chain)
  BY DEF WarTableInv
<1>2. /\ Take({RawBubble(i, chain[i], FALSE)}) /\ inflight' \subseteq inflight
      /\ chain' = chain /\ posts' = posts /\ reads' = reads /\ olderCursor' = olderCursor
  BY DEF Deliver
<1>3. {RawBubble(i, chain[i], FALSE)} = RawBubbles({i})
  BY DEF RawBubbles
<1>4. {i} \in SUBSET DOMAIN chain
  BY <1>1
<1> QED BY <1>1, <1>2, <1>3, <1>4, TakeInv

\* What a read brings is of the chain.
LEMMA AnswersFine ==
  ASSUME WarTableInv, NEW r \in reads, NEW page \in Answers(r)
  PROVE  ReadFine(chain, page) /\ page.kind = r.kind
<1>1. ReadFine(chain, r) /\ Len(chain) \in Nat
  BY IdsApart DEF WarTableInv
<1>2. CASE r.kind = "seed"
  <2>1. PICK hi \in r.hi .. Len(chain) : page = Read("seed", PageLimit, hi)
    BY <1>2 DEF Answers
  <2>2. hi \in Nat /\ hi <= Len(chain) /\ PageLimit \in Nat
    BY <1>1, WarTableAssumption DEF ReadFine
  <2> QED BY <1>1, <1>2, <2>1, <2>2, ReadIsFine
<1>3. CASE r.kind # "seed"
  BY <1>1, <1>3 DEF Answers
<1> QED BY <1>2, <1>3

\* A page comes.
LEMMA ApplyPageInv ==
  ASSUME WarTableInv, NEW r \in reads, ApplyPage(r)
  PROVE  WarTableInv'
<1>1. PICK page \in Answers(r) :
        /\ olderCursor' = page.lo - 1
        /\ Take({RawBubble(i, chain[i], FALSE) : i \in page.lo .. page.hi})
  BY DEF ApplyPage
<1>2. ReadFine(chain, page) /\ WorldFine(chain, posts)
  BY AnswersFine DEF WarTableInv
<1>3. page.lo .. page.hi \in SUBSET DOMAIN chain
  BY <1>2, PageIds
<1>4. Take(RawBubbles(page.lo .. page.hi))
  BY <1>1 DEF RawBubbles
<1>5. Len(chain) \in Nat
  BY <1>2, IdsApart
<1>6. olderCursor' \in Int /\ olderCursor' <= Len(chain)
  BY <1>1, <1>2, <1>5 DEF ReadFine
<1>7. chain' = chain /\ posts' = posts /\ inflight' \subseteq inflight /\ reads' \subseteq reads
  BY DEF ApplyPage
<1> QED BY <1>3, <1>4, <1>6, <1>7, TakeInv

\* A reconcile comes.
LEMMA ApplyReconcileInv ==
  ASSUME WarTableInv, NEW r \in reads, ApplyReconcile(r)
  PROVE  WarTableInv'
<1>1. /\ WorldFine(chain, posts) /\ StoreInv(chain, posts, thread, pinsSeen)
      /\ inflight \subseteq DOMAIN chain /\ pinsSeen \in SUBSET DOMAIN chain
      /\ \A s \in reads : ReadFine(chain, s)
      /\ olderCursor \in Int /\ olderCursor <= Len(chain)
      /\ posts \in Seq([msg : WtMessage, at : Nat, failed : BOOLEAN])
  BY DEF WarTableInv
<1>2. r.lo .. r.hi \in SUBSET DOMAIN chain
  BY <1>1, PageIds
<1>3. StoreInv(chain, posts, mergeThreadMessages(thread, r.lo .. r.hi), {})
  BY <1>1, <1>2, ReconcileKept
<1>4. /\ thread' = mergeThreadMessages(thread, r.lo .. r.hi) /\ pinsSeen' = {}
      /\ chain' = chain /\ posts' = posts /\ inflight' = inflight /\ olderCursor' = olderCursor
      /\ reads' = reads \ {r}
  BY DEF ApplyReconcile
<1> QED BY <1>1, <1>3, <1>4 DEF WarTableInv

\* Reads are made, or dropped.
LEMMA ReadsInv ==
  ASSUME WarTableInv,
         chain' = chain, posts' = posts, thread' = thread, pinsSeen' = pinsSeen,
         inflight' \subseteq inflight, \A r \in reads' : r \in reads \/ ReadFine(chain, r),
         olderCursor' \in Int, olderCursor' <= Len(chain)
  PROVE  WarTableInv'
<1>1. /\ WorldFine(chain, posts) /\ StoreInv(chain, posts, thread, pinsSeen)
      /\ inflight \subseteq DOMAIN chain /\ pinsSeen \subseteq DOMAIN chain
      /\ \A r \in reads : ReadFine(chain, r)
      /\ posts \in Seq([msg : WtMessage, at : Nat, failed : BOOLEAN])
  BY DEF WarTableInv
<1>2. \A r \in reads' : ReadFine(chain, r)
  BY <1>1
<1> QED BY <1>1, <1>2 DEF WarTableInv

\* Each way to make one.
LEMMA AskInv ==
  ASSUME WarTableInv, LoadOlder \/ Reconcile \/ Reopen
  PROVE  WarTableInv'
<1>1. /\ olderCursor \in Int /\ olderCursor <= Len(chain) /\ Len(chain) \in Nat
      /\ PageLimit \in Nat /\ Window \in Nat
  BY IdsApart, WarTableAssumption DEF WarTableInv
<1>2. CASE LoadOlder
  <2>1. /\ chain' = chain /\ posts' = posts /\ thread' = thread /\ pinsSeen' = pinsSeen
        /\ inflight' = inflight /\ olderCursor' = olderCursor /\ olderCursor > 0
        /\ reads' = reads \cup {Read("older", PageLimit, olderCursor)}
    BY <1>2 DEF LoadOlder
  <2>2. olderCursor \in Nat
    BY <1>1, <2>1
  <2>3. ReadFine(chain, Read("older", PageLimit, olderCursor))
    BY <1>1, <2>2, ReadIsFine
  <2> QED BY <1>1, <2>1, <2>3, ReadsInv
<1>3. CASE Reconcile
  <2>1. /\ chain' = chain /\ posts' = posts /\ thread' = thread /\ pinsSeen' = pinsSeen
        /\ inflight' = inflight /\ olderCursor' = olderCursor
        /\ reads' = reads \cup {Read("reconcile", Window, Len(chain))}
    BY <1>3 DEF Reconcile
  <2>2. ReadFine(chain, Read("reconcile", Window, Len(chain)))
    BY <1>1, ReadIsFine
  <2> QED BY <1>1, <2>1, <2>2, ReadsInv
<1>4. CASE Reopen
  <2>1. /\ chain' = chain /\ posts' = posts /\ thread' = thread /\ pinsSeen' = pinsSeen
        /\ inflight' = {} /\ olderCursor' = -1
        /\ reads' = {r \in reads : r.kind = "older"} \cup {Read("seed", PageLimit, Len(chain))}
    BY <1>4 DEF Reopen
  <2>2. ReadFine(chain, Read("seed", PageLimit, Len(chain)))
    BY <1>1, ReadIsFine
  <2>3. inflight' \subseteq inflight /\ olderCursor' \in Int /\ olderCursor' <= Len(chain)
        /\ \A r \in reads' : r \in reads \/ ReadFine(chain, r)
    BY <1>1, <2>1, <2>2
  <2> QED BY <2>1, <2>3, ReadsInv
<1> QED BY <1>2, <1>3, <1>4

\* The reader is not offered to delete a pin.
LEMMA PinsStay ==
  ASSUME WarTableInv, NEW m, Fits(chain, Len(chain), m), Offered(m)
  PROVE  ~(m.kind = "tombstone" /\ m.parent = thread.maxPinId /\ ~thread.pinPending)
<1> SUFFICES ASSUME m.kind = "tombstone", m.parent = thread.maxPinId, ~thread.pinPending
             PROVE  FALSE
  OBVIOUS
<1> DEFINE rs == thread.reactionRecords
<1>1. WorldFine(chain, posts) /\ ThreadFine(chain, posts, thread)
  BY DEF WarTableInv, StoreInv
<1>2. /\ DOMAIN chain = 1 .. Len(chain) /\ Len(chain) \in Nat
      /\ DOMAIN chain \subseteq ChainIds
  BY <1>1, IdsApart
<1>3. m.parent \in DOMAIN chain /\ m.parent # 0
  BY <1>2 DEF Fits
<1>4. chain[m.parent].kind = "pin"
  BY <1>1, <1>3 DEF ThreadFine, PinFine
<1>5. PICK b \in thread.messages :
        /\ ~b.tombstoned /\ ~b.pending /\ b.msg.kind = "text"
        /\ b.id = m.parent \/ myReactionId(b.id) = m.parent
  BY DEF Offered
<1>6. CASE b.id = m.parent
  <2>1. GoodBubble(chain, posts, b)
    BY <1>1 DEF ThreadFine, MessagesFine
  <2> QED BY <1>4, <1>5, <1>6, <2>1 DEF GoodBubble
<1>7. CASE myReactionId(b.id) = m.parent
  <2> DEFINE mine == {k \in RecordsOf(rs, b.id) : rs[k].sender = Me /\ ~rs[k].tombstoned}
             k == MinOf(mine)
  <2>1. myReactionId(b.id) = IF mine = {} THEN 0 ELSE rs[k].id
    BY DEF myReactionId, ZERO_ID
  <2>2. mine # {}
    BY <1>3, <1>7, <2>1
  <2>3. RecordsFine(chain, posts, rs)
    BY <1>1 DEF ThreadFine
  <2>4. k \in mine
    <3>1. mine \subseteq DOMAIN rs
      BY DEF RecordsOf
    <3>2. IsFiniteSet(mine) /\ mine \subseteq Int
      BY <2>3, <3>1, FS_Subset DEF RecordsFine
    <3> HIDE DEF mine
    <3> QED BY <2>2, <3>2, LeastAndGreatest
  <2>5. GoodRecord(chain, posts, rs[k])
    <3>1. k \in DOMAIN rs
      BY <2>4 DEF RecordsOf
    <3> HIDE DEF k
    <3> QED BY <2>3, <3>1 DEF RecordsFine
  <2>6. rs[k].id = m.parent
    BY <1>7, <2>1, <2>2
  <2> HIDE DEF mine, k, rs
  <2>7. ~rs[k].pending /\ rs[k].id # SEED_ID
    BY <1>1, <1>2, <1>3, <2>5, <2>6, RecordIds
  <2> QED BY <1>4, <2>5, <2>6, <2>7 DEF GoodRecord
<1> QED BY <1>5, <1>6, <1>7

\* The reader posts.
LEMMA PostInv ==
  ASSUME WarTableInv, NEW m \in Postable(Me, chain), Post(m)
  PROVE  WarTableInv'
<1> DEFINE k == Len(posts) + 1
           p == [msg |-> m, at |-> 0, failed |-> FALSE]
<1>1. /\ WorldFine(chain, posts) /\ StoreInv(chain, posts, thread, pinsSeen)
      /\ inflight \subseteq DOMAIN chain /\ pinsSeen \in SUBSET DOMAIN chain
      /\ \A r \in reads : ReadFine(chain, r)
      /\ olderCursor \in Int /\ olderCursor <= Len(chain)
      /\ posts \in Seq([msg : WtMessage, at : Nat, failed : BOOLEAN])
  BY DEF WarTableInv
<1>2. Fits(chain, Len(chain), m) /\ m.sender = Me
  <2>1. Me \in Wallets
    BY DEF Wallets
  <2> QED BY <1>1, <2>1, PostableFits DEF WorldFine, ChainFine
<1>3. /\ k <= MaxEchoes /\ Offered(m) /\ posts' = Append(posts, p)
      /\ thread' = ingest(thread, RawBubble(MaxPosts + k, m, TRUE))
      /\ chain' = chain /\ inflight' = inflight /\ reads' = reads
      /\ olderCursor' = olderCursor /\ pinsSeen' = pinsSeen
  BY DEF Post
<1>4. /\ p \in [msg : WtMessage, at : Nat, failed : BOOLEAN] /\ p.msg = m /\ p.at = 0
  BY <1>2 DEF Fits
<1> HIDE DEF p
<1>5. /\ posts' \in Seq([msg : WtMessage, at : Nat, failed : BOOLEAN])
      /\ Len(posts') = k /\ DOMAIN posts' = DOMAIN posts \cup {k} /\ k \notin DOMAIN posts
      /\ \A j \in DOMAIN posts : posts'[j] = posts[j]
      /\ posts'[k] = p /\ k \in Nat /\ DOMAIN posts' = 1 .. Len(posts')
  BY <1>1, <1>3, <1>4
<1> HIDE DEF k
<1>6. PostedAs(posts, posts', k, m)
  BY <1>4, <1>5 DEF PostedAs
<1>7. WorldFine(chain, posts')
  <2>1. PostFine(chain, p)
    BY <1>2, <1>4 DEF PostFine
  <2>2. \A j \in DOMAIN posts' : PostFine(chain, posts'[j])
    BY <1>1, <1>5, <2>1 DEF WorldFine, PostsFine
  <2> QED BY <1>1, <1>3, <1>5, <2>2 DEF WorldFine, PostsFine
<1>8. ~(m.kind = "tombstone" /\ m.parent = thread.maxPinId /\ ~thread.pinPending)
  BY <1>2, <1>3, PinsStay
<1>9. StoreInv(chain, posts', ingest(thread, RawBubble(MaxPosts + k, m, TRUE)), pinsSeen)
  BY <1>1, <1>6, <1>7, <1>8, PostKept
<1> QED BY <1>1, <1>3, <1>5, <1>7, <1>9 DEF WarTableInv

\* The reader is told that a post failed.
LEMMA FailInv ==
  ASSUME WarTableInv, NEW k \in DOMAIN posts, Fail(k)
  PROVE  WarTableInv'
<1>1. /\ WorldFine(chain, posts) /\ StoreInv(chain, posts, thread, pinsSeen)
      /\ inflight \subseteq DOMAIN chain /\ pinsSeen \subseteq DOMAIN chain
      /\ \A r \in reads : ReadFine(chain, r)
      /\ olderCursor \in Int /\ olderCursor <= Len(chain)
      /\ posts \in Seq([msg : WtMessage, at : Nat, failed : BOOLEAN])
  BY DEF WarTableInv
<1>2. /\ posts' = [posts EXCEPT ![k].failed = TRUE]
      /\ thread' = removeMessage(thread, MaxPosts + k)
      /\ pinsSeen' = IF thread.pinPending /\ thread.maxPinId = MaxPosts + k THEN {} ELSE pinsSeen
      /\ chain' = chain /\ inflight' = inflight /\ reads' = reads /\ olderCursor' = olderCursor
  BY DEF Fail
<1>3. PostFine(chain, posts[k])
  BY <1>1 DEF WorldFine, PostsFine
<1>4. posts[k] \in [msg : WtMessage, at : Nat, failed : BOOLEAN]
  BY <1>3 DEF PostFine
<1>5. /\ DOMAIN posts' = DOMAIN posts /\ Len(posts') = Len(posts)
      /\ posts' \in Seq([msg : WtMessage, at : Nat, failed : BOOLEAN])
      /\ \A j \in DOMAIN posts : j # k => posts'[j] = posts[j]
      /\ posts'[k].msg = posts[k].msg /\ posts'[k].failed = TRUE /\ posts'[k].at = posts[k].at
      /\ posts'[k] \in [msg : WtMessage, at : Nat, failed : BOOLEAN]
  <2> DEFINE q == [posts[k] EXCEPT !.failed = TRUE]
  <2>1. posts' = [posts EXCEPT ![k] = q]
    BY <1>2
  <2>2. /\ q \in [msg : WtMessage, at : Nat, failed : BOOLEAN]
        /\ q.msg = posts[k].msg /\ q.failed = TRUE /\ q.at = posts[k].at
    BY <1>4
  <2> HIDE DEF q
  <2>3. posts \in Seq([msg : WtMessage, at : Nat, failed : BOOLEAN]) /\ k \in DOMAIN posts
    BY <1>1
  <2> QED BY ONLY <2>1, <2>2, <2>3
<1>6. FailedAt(posts, posts', k)
  BY <1>5 DEF FailedAt
<1>7. WorldFine(chain, posts')
  <2>1. PostFine(chain, posts'[k])
    BY <1>3, <1>5 DEF PostFine
  <2>2. \A j \in DOMAIN posts' : PostFine(chain, posts'[j])
    BY <1>1, <1>5, <2>1 DEF WorldFine, PostsFine
  <2> QED BY <1>1, <1>5, <2>2 DEF WorldFine, PostsFine
<1>8. StoreInv(chain, posts', thread', pinsSeen')
  <2>1. StoreInv(chain, posts', removeMessage(thread, MaxPosts + k),
                 IF thread.pinPending /\ thread.maxPinId = MaxPosts + k THEN {} ELSE pinsSeen)
    BY <1>1, <1>6, <1>7, FailKept
  <2> QED BY <1>2, <2>1
<1> QED BY <1>1, <1>2, <1>5, <1>7, <1>8 DEF WarTableInv

\* Every step keeps it.
LEMMA NextInv == WarTableInv /\ [Next]_vars => WarTableInv'
<1> SUFFICES ASSUME WarTableInv, [Next]_vars PROVE WarTableInv'
  OBVIOUS
<1>1. CASE \E w \in Wallets : \E m \in Postable(w, chain) : PostElsewhere(w, m)
  BY <1>1, PostElsewhereInv
<1>2. CASE \E m \in Postable(Me, chain) : Post(m)
  BY <1>2, PostInv
<1>3. CASE \E i \in inflight : Deliver(i)
  BY <1>3, DeliverInv
<1>4. CASE \E r \in reads : ApplyPage(r) \/ ApplyReconcile(r)
  BY <1>4, ApplyPageInv, ApplyReconcileInv
<1>5. CASE LoadOlder \/ Reconcile \/ Reopen
  BY <1>5, AskInv
<1>6. CASE \E k \in DOMAIN posts : Land(k) \/ Fail(k)
  BY <1>6, LandInv, FailInv
<1>7. CASE UNCHANGED vars
  BY <1>7 DEF vars, WarTableInv
<1> QED BY <1>1, <1>2, <1>3, <1>4, <1>5, <1>6, <1>7 DEF Next

\* The chain, the posts, the reads and the store stay in step, in every behavior.
THEOREM StoreStaysInStep == Spec => []WarTableInv
BY InitInv, NextInv, PTL DEF Spec

-------------------------------------------------------------------------------
(* What follows of it *)

\* The store keeps its shape.
LEMMA TypeFollows == WarTableInv => TypeOK
<1> SUFFICES ASSUME WarTableInv PROVE TypeOK
  OBVIOUS
<1> DEFINE M == thread.messages
           f == [b \in M |-> b.id]
<1>1. WorldFine(chain, posts) /\ ThreadFine(chain, posts, thread)
  BY DEF WarTableInv, StoreInv
<1>2. chain \in Seq(WtMessage) /\ inflight \subseteq DOMAIN chain /\ pinsSeen \subseteq DOMAIN chain
  BY <1>1 DEF WarTableInv, WorldFine, ChainFine
<1>3. /\ M \subseteq Bubble /\ thread.pendingTombstones \subseteq ChainIds
      /\ thread.pinnedId \in ChainIds \cup {ZERO_ID}
  BY <1>1, ThreadParts DEF ThreadFine
<1>4. Cardinality(Ids(M)) = Cardinality(M)
  <2>1. IsFiniteSet(M) /\ \A a, b \in M : a.id = b.id => a = b
    BY <1>1 DEF ThreadFine, MessagesFine
  <2>2. f \in Surjection(M, Ids(M)) /\ f \in Injection(M, Ids(M))
    <3> HIDE DEF M
    <3> QED BY <2>1 DEF Surjection, Injection, IsInjective, Ids
  <2> HIDE DEF M, f
  <2> QED BY <2>1, <2>2, FS_Surjection
<1>5. /\ DOMAIN thread.reactionRecords \subseteq Nat
      /\ \A k \in DOMAIN thread.reactionRecords : thread.reactionRecords[k] \in ReactionRecord
  BY <1>1 DEF ThreadFine, RecordsFine, GoodRecord
<1> QED BY <1>2, <1>3, <1>4, <1>5 DEF TypeOK

\* The chips are those of the records.
LEMMA ChipsFollow == WarTableInv => ChipsAreCurrent
BY DEF WarTableInv, StoreInv, CurrentBut, ChipsAreCurrent

\* The latest pin is shown.
LEMMA PinFollows == WarTableInv => LatestPinWins
<1> SUFFICES ASSUME WarTableInv, pinsSeen # {}, ~thread.pinPending
             PROVE  \/ thread.pinnedId = chain[MaxOf(pinsSeen)].parent
                    \/ thread.pinnedId = ZERO_ID /\ MaxOf(pinsSeen) \in Targets(DOMAIN chain)
  BY DEF LatestPinWins
<1>1. PinOf(chain, thread, pinsSeen)
  BY DEF WarTableInv, StoreInv
<1> QED BY <1>1 DEF PinOf, Targets, OfKind, ZERO_ID

\* The reactions on the chain that are the reader's, but of no post.
Elsewhere(m) ==
    {i \in DOMAIN chain : /\ chain[i] = Message("reaction", Me, m, NoText)
                          /\ \A k \in Reacting(posts, m) : posts[k].at # i}

\* The reader's records are no more than what the reader did.
LEMMA RecordsUpToActs ==
  ASSUME WarTableInv, NEW m \in DOMAIN chain, ~RebuiltAt(chain, thread.reactionRecords, m)
  PROVE  /\ Cardinality(MyRecords(thread.reactionRecords, m))
              <= Cardinality(Reacting(posts, m)) + Cardinality(Elsewhere(m))
         /\ IsFiniteSet(MyRecords(thread.reactionRecords, m))
         /\ Cardinality(Reacting(posts, m)) \in Nat /\ Cardinality(Elsewhere(m)) \in Nat
<1> DEFINE rs == thread.reactionRecords
           A == MyRecords(rs, m)
           E == Echoes(rs, m)
           L == Linked(posts, rs, m)
           R == A \ (E \cup L)
           X == Elsewhere(m)
           f == [k \in R |-> rs[k].id]
<1>1. WorldFine(chain, posts) /\ RecordsFine(chain, posts, rs) /\ CountedAt(posts, rs, m)
  BY DEF WarTableInv, StoreInv, ThreadFine, Counted
<1>2. /\ IsFiniteSet(E) /\ Cardinality(E) \in Nat /\ IsFiniteSet(L) /\ Cardinality(L) \in Nat
      /\ IsFiniteSet(A) /\ Cardinality(A) \in Nat /\ Cardinality(Reacting(posts, m)) \in Nat
  BY <1>1, CountsFinite
<1>3. /\ Cardinality(E) + Cardinality(L) <= Cardinality(Reacting(posts, m))
      /\ \A j, k \in A : rs[j].id = rs[k].id => j = k
  BY <1>1 DEF CountedAt
<1>4. ASSUME NEW k \in R PROVE rs[k].id \in X
  <2>1. k \in DOMAIN rs /\ rs[k].parent = m /\ rs[k].sender = Me /\ k \in A /\ k \notin E /\ k \notin L
    BY DEF MyRecords, RecordsOf
  <2>2. ~rs[k].pending
    BY <2>1 DEF Echoes
  <2>3. GoodRecord(chain, posts, rs[k])
    BY <1>1, <2>1 DEF RecordsFine
  <2>4. rs[k].id # SEED_ID /\ ~Misnamed(chain, rs[k])
    BY <2>1 DEF RebuiltAt, RecordsOf
  <2>5. /\ rs[k].id \in DOMAIN chain /\ chain[rs[k].id].kind = "reaction"
        /\ chain[rs[k].id].parent = m /\ chain[rs[k].id].sender = Me
    BY <2>1, <2>2, <2>3, <2>4 DEF GoodRecord, Misnamed
  <2> DEFINE i == rs[k].id
  <2>6. chain[i].body = NoText /\ chain[i] \in WtMessage
    BY <1>1, <2>5, IdsApart DEF WorldFine, ChainFine, Fits
  <2>7. \A j \in Reacting(posts, m) : posts[j].at # i
    BY <2>1 DEF Linked
  <2> HIDE DEF i
  <2>8. chain[i] = Message("reaction", Me, m, NoText)
    BY <2>5, <2>6 DEF Message, WtMessage, i
  <2> QED BY <2>5, <2>7, <2>8 DEF Elsewhere, i
<1>5. IsFiniteSet(X)
  <2>1. X \subseteq DOMAIN chain
    BY DEF Elsewhere
  <2>2. DOMAIN chain = 1 .. Len(chain) /\ Len(chain) \in Nat
    BY <1>1, IdsApart
  <2>3. IsFiniteSet(DOMAIN chain)
    BY <2>2, FS_Interval
  <2> QED BY <2>1, <2>3, FS_Subset
<1>6. f \in Injection(R, X)
  <2>1. f \in [R -> X]
    BY <1>4
  <2>2. \A j, k \in R : f[j] = f[k] => j = k
    BY <1>3
  <2> HIDE DEF f, R, X
  <2> QED BY <2>1, <2>2 DEF Injection, IsInjective
<1>7. A = (E \cup L) \cup R
  BY DEF Echoes, Linked
<1> HIDE DEF f, R, X, E, L, A
<1>8. IsFiniteSet(R) /\ Cardinality(R) <= Cardinality(X)
  BY <1>5, <1>6, FS_Injection
<1>9. Cardinality(A) <= Cardinality(E) + Cardinality(L) + Cardinality(R)
  <2>1. /\ IsFiniteSet(E \cup L)
        /\ Cardinality(E \cup L) = Cardinality(E) + Cardinality(L) - Cardinality(E \cap L)
    BY <1>2, FS_Union
  <2>2. Cardinality(A) = Cardinality(E \cup L) + Cardinality(R) - Cardinality((E \cup L) \cap R)
    BY <1>7, <1>8, <2>1, FS_Union
  <2>3. IsFiniteSet(E \cap L) /\ IsFiniteSet((E \cup L) \cap R)
    BY <1>2, <1>8, FS_Subset
  <2>4. /\ Cardinality(E \cap L) \in Nat /\ Cardinality((E \cup L) \cap R) \in Nat
        /\ Cardinality(E \cup L) \in Nat /\ Cardinality(R) \in Nat
    BY <1>8, <2>1, <2>3, FS_CardinalityType
  <2> QED BY ONLY <1>2, <2>1, <2>2, <2>4
<1>10. Cardinality(R) \in Nat /\ Cardinality(X) \in Nat
  BY <1>5, <1>8, FS_CardinalityType
<1>11. Cardinality(A) <= Cardinality(Reacting(posts, m)) + Cardinality(X)
  BY ONLY <1>2, <1>3, <1>8, <1>9, <1>10
<1> QED BY <1>2, <1>10, <1>11 DEF A, X

\* Echoes settle.
LEMMA EchoesFollow == WarTableInv => EchoesSettle
<1> SUFFICES ASSUME WarTableInv PROVE EchoesSettle
  OBVIOUS
<1>1. WorldFine(chain, posts) /\ Settled(chain, posts, thread.messages)
  BY DEF WarTableInv, StoreInv
<1>2. NeverBoth
  BY <1>1 DEF Settled, NeverBoth
<1>3. WrittenStays
  BY <1>1 DEF Settled, WrittenStays
<1>4. ASSUME NEW m \in DOMAIN chain,
             \A k \in RecordsOf(thread.reactionRecords, m) : ~Rebuilt(thread.reactionRecords[k])
      PROVE  summarizeReactions(thread.reactionRecords, m)[Me] <= ActsOfReacting(m)
  <2> DEFINE rs == thread.reactionRecords
             live == {k \in RecordsOf(rs, m) : rs[k].sender = Me /\ ~rs[k].tombstoned}
  <2>1. ~RebuiltAt(chain, rs, m)
    BY <1>1, <1>4, IdsApart DEF Rebuilt, RebuiltAt, Misnamed
  <2>2. /\ Cardinality(MyRecords(rs, m)) <= Cardinality(Reacting(posts, m)) + Cardinality(Elsewhere(m))
        /\ IsFiniteSet(MyRecords(rs, m))
        /\ Cardinality(Reacting(posts, m)) \in Nat /\ Cardinality(Elsewhere(m)) \in Nat
    BY <2>1, RecordsUpToActs
  <2>3. ActsOfReacting(m) = Cardinality(Reacting(posts, m)) + Cardinality(Elsewhere(m))
    BY DEF ActsOfReacting, Reacting, Elsewhere
  <2>4. summarizeReactions(rs, m)[Me] = Cardinality(live)
    BY DEF summarizeReactions, Wallets
  <2>5. live \subseteq MyRecords(rs, m)
    BY DEF MyRecords
  <2> HIDE DEF live, rs
  <2>6. /\ Cardinality(live) <= Cardinality(MyRecords(rs, m))
        /\ Cardinality(live) \in Nat /\ Cardinality(MyRecords(rs, m)) \in Nat
    BY <2>2, <2>5, FS_Subset, FS_CardinalityType
  <2>7. Cardinality(live) <= Cardinality(Reacting(posts, m)) + Cardinality(Elsewhere(m))
    BY ONLY <2>2, <2>6
  <2> QED BY <2>3, <2>4, <2>7 DEF rs
<1>5. EchoCountedOnce
  BY <1>4 DEF EchoCountedOnce
<1> QED BY <1>2, <1>3, <1>5 DEF EchoesSettle

\* The store keeps its shape: bubbles under one id each, records, and a pin that
\* is no echo, in every behavior (war-table.ts).
THEOREM TypeCorrect == Spec => []TypeOK
BY StoreStaysInStep, TypeFollows, PTL

\* The chips under a bubble are those of the records that the store has of it, by
\* whichever of the ways the two came (war-table.ts).
THEOREM ChipsCurrent == Spec => []ChipsAreCurrent
BY StoreStaysInStep, ChipsFollow, PTL

\* An echo is gone beside its copy, stays without one, and is counted once
\* (matchesPending, ingestReaction and removeMessage of war-table.ts).
THEOREM EchoesSettled == Spec => []EchoesSettle
BY StoreStaysInStep, EchoesFollow, PTL

\* Of the pins that have come since a reconcile or an echo last decided, the latest
\* is shown, or none if it was deleted (ingestPin and ingestTombstone).
THEOREM LatestPin == Spec => []LatestPinWins
BY StoreStaysInStep, PinFollows, PTL

-------------------------------------------------------------------------------
(* What a step may not do *)

\* A bubble that was hidden is shown after a batch only if the batch has it, bare.
LEMMA HiddenInBatch ==
  ASSUME NEW c, NEW ps, NEW e, ThreadFine(c, ps, e), NEW T, NEW f, ShownAll(e, T, f),
         NEW b \in e.messages, NEW d \in f.messages, b.id = d.id, b.tombstoned, ~d.tombstoned
  PROVE  \E t \in T : t.id = b.id /\ ~t.tombstoned /\ t.id \notin Deleted(T)
<1>1. CASE Arrived(e, T, f, d)
  BY <1>1 DEF Arrived
<1>2. CASE Remained(e, T, d)
  <2>1. PICK a \in e.messages : d.id = a.id /\ (a.tombstoned => d.tombstoned)
    BY <1>2 DEF Remained
  <2>2. a = b
    BY <2>1 DEF ThreadFine, MessagesFine
  <2> QED BY <2>1, <2>2
<1> QED BY <1>1, <1>2 DEF ShownAll

\* Raw messages bring their tombstones.
LEMMA RawDeleted ==
  ASSUME WorldFine(chain, posts), NEW ids \in SUBSET DOMAIN chain
  PROVE  Targets(ids) \subseteq Deleted(RawBubbles(ids))
<1> SUFFICES ASSUME NEW i \in ids, chain[i].kind = "tombstone"
             PROVE  chain[i].parent \in Deleted(RawBubbles(ids))
  BY DEF Targets, OfKind
<1>1. PICK b \in RawBubbles(ids) : b.id = i
  BY RawBatch
<1>2. b.msg = chain[i]
  BY <1>1, RawBatch
<1> QED BY <1>2 DEF Deleted

\* The store takes in messages of the chain.
LEMMA HiddenTaken ==
  ASSUME WarTableInv, NEW ids \in SUBSET DOMAIN chain, Take(RawBubbles(ids)),
         NEW b \in thread.messages, NEW d \in thread'.messages,
         b.id = d.id, b.tombstoned, ~d.tombstoned
  PROVE  b.id \in ids \ Targets(ids)
<1> DEFINE B == RawBubbles(ids)
<1>1. /\ WorldFine(chain, posts) /\ StoreInv(chain, posts, thread, pinsSeen)
      /\ pinsSeen \in SUBSET DOMAIN chain
  BY DEF WarTableInv
<1>2. /\ Targets(ids) \subseteq Deleted(B)
      /\ \A t \in B : t.id \in ids
  BY <1>1, RawBatch, RawDeleted
<1>3. BatchStep(chain, posts, thread, B, ingestMessages(thread, B))
  BY <1>1, TakeKept
<1> HIDE DEF B
<1>4. thread' = ingestMessages(thread, B)
  BY DEF Take, B
<1>5. ShownAll(thread, B, thread') /\ ThreadFine(chain, posts, thread)
  BY <1>1, <1>3, <1>4 DEF BatchStep, StoreInv
<1>6. PICK t \in B : t.id = b.id /\ t.id \notin Deleted(B)
  BY <1>5, HiddenInBatch
<1> QED BY <1>2, <1>6

\* Each step.
LEMMA HiddenStays ==
  ASSUME WarTableInv, [Next]_vars
  PROVE  HiddenStep
<1> SUFFICES ASSUME NEW b \in thread.messages, NEW d \in thread'.messages,
                    b.id = d.id, b.tombstoned, ~d.tombstoned
             PROVE  BareCopy(b.id)
  BY DEF HiddenStep
<1>1. /\ WorldFine(chain, posts) /\ StoreInv(chain, posts, thread, pinsSeen)
      /\ ThreadFine(chain, posts, thread) /\ pinsSeen \in SUBSET DOMAIN chain
      /\ inflight \subseteq DOMAIN chain /\ \A r \in reads : ReadFine(chain, r)
  BY DEF WarTableInv, StoreInv
<1>2. /\ \A a \in thread.messages : a.id = b.id => a = b
      /\ ~b.pending /\ b.id \in DOMAIN chain
  BY <1>1 DEF ThreadFine, MessagesFine, GoodBubble
<1>3. ASSUME thread' = thread PROVE FALSE
  BY <1>2, <1>3
<1>4. CASE \E w \in Wallets : \E m \in Postable(w, chain) : PostElsewhere(w, m)
  BY <1>3, <1>4 DEF PostElsewhere
<1>5. ASSUME NEW m \in Postable(Me, chain), Post(m) PROVE FALSE
  <2> DEFINE k == Len(posts) + 1
             echo == RawBubble(MaxPosts + k, m, TRUE)
  <2>1. /\ thread' = ingest(thread, echo) /\ k <= MaxEchoes
    BY <1>5 DEF Post
  <2>2. k \in Nat /\ 1 <= k
    BY <1>1 DEF WorldFine, PostsFine
  <2>3. MaxPosts + k \notin DOMAIN chain
    <3>1. DOMAIN chain = 1 .. Len(chain) /\ Len(chain) \in Nat /\ Len(chain) <= MaxPosts
          /\ MaxPosts \in Nat
      BY <1>1, IdsApart
    <3> QED BY <2>2, <3>1
  <2>4. WarTableInv'
    BY <1>5, PostInv
  <2>5. Shown(thread, echo, thread') /\ echo.pending /\ echo.id = MaxPosts + k
    <3>1. PICK qs : WorldFine(chain, qs) /\ PostedAs(posts, qs, k, m)
      <4>1. posts' = Append(posts, [msg |-> m, at |-> 0, failed |-> FALSE]) /\ chain' = chain
        BY <1>5 DEF Post
      <4>2. WorldFine(chain, posts')
        BY <2>4, <4>1 DEF WarTableInv
      <4>3. posts \in Seq([msg : WtMessage, at : Nat, failed : BOOLEAN])
        BY DEF WarTableInv
      <4>4. PostedAs(posts, posts', k, m)
        BY <2>2, <4>1, <4>3 DEF PostedAs
      <4> QED BY <4>2, <4>4
    <3>2. ~(m.kind = "tombstone" /\ m.parent = thread.maxPinId /\ ~thread.pinPending)
      <4>1. Me \in Wallets /\ chain \in Seq(WtMessage) /\ Len(chain) <= MaxPosts
        BY <1>1 DEF Wallets, WorldFine, ChainFine
      <4>2. Fits(chain, Len(chain), m) /\ Offered(m)
        BY <1>5, <4>1, PostableFits DEF Post
      <4> QED BY <4>2, PinsStay
    <3> HIDE DEF k
    <3>3. /\ StoreInv(chain, qs, ingest(thread, echo), pinsSeen)
          /\ echo.pending /\ ~echo.tombstoned /\ echo.id = MaxPosts + k /\ echo.msg = m
          /\ Shown(thread, echo, ingest(thread, echo))
      <4>1. WorldFine(chain, posts) /\ StoreInv(chain, posts, thread, pinsSeen)
            /\ pinsSeen \in SUBSET DOMAIN chain
        BY <1>1
      <4> QED BY ONLY <3>1, <3>2, <4>1, PostKept DEF echo
    <3> QED BY <2>1, <3>3
  <2> HIDE DEF k, echo
  <2>6. d.id # echo.id
    BY <1>2, <2>3, <2>5
  <2>7. PICK a \in thread.messages : d.id = a.id /\ (a.tombstoned => d.tombstoned)
    BY <2>5, <2>6 DEF Shown
  <2> QED BY <1>2, <2>7
<1>6. ASSUME NEW i \in inflight, Deliver(i) PROVE BareCopy(b.id)
  <2>1. Take({RawBubble(i, chain[i], FALSE)}) /\ inflight' = inflight \ {i}
    BY <1>6 DEF Deliver
  <2>2. {RawBubble(i, chain[i], FALSE)} = RawBubbles({i})
    BY DEF RawBubbles
  <2>3. {i} \in SUBSET DOMAIN chain
    BY <1>1
  <2>4. b.id \in {i}
    BY <2>1, <2>2, <2>3, HiddenTaken
  <2> QED BY <2>1, <2>4 DEF BareCopy
<1>7. ASSUME NEW r \in reads, ApplyPage(r) PROVE BareCopy(b.id)
  <2>1. PICK page \in Answers(r) : Take({RawBubble(i, chain[i], FALSE) : i \in page.lo .. page.hi})
    BY <1>7 DEF ApplyPage
  <2>2. page.lo .. page.hi \in SUBSET DOMAIN chain
    BY <1>1, AnswersFine, PageIds
  <2>3. Take(RawBubbles(page.lo .. page.hi))
    BY <2>1 DEF RawBubbles
  <2>4. b.id \in (page.lo .. page.hi) \ Targets(page.lo .. page.hi)
    BY <2>2, <2>3, HiddenTaken
  <2>5. r \in reads \ reads'
    BY <1>7 DEF ApplyPage
  <2> QED BY <2>4, <2>5 DEF BareCopy
<1>8. ASSUME NEW r \in reads, ApplyReconcile(r) PROVE BareCopy(b.id)
  <2> DEFINE ids == r.lo .. r.hi
             B == Visible(thread, foldThread(ids))
  <2>1. ids \in SUBSET DOMAIN chain
    BY <1>1, PageIds
  <2>2. thread' = mergeThreadMessages(thread, ids) /\ r \in reads \ reads' /\ r.kind = "reconcile"
    BY <1>8 DEF ApplyReconcile
  <2> HIDE DEF ids
  <2>3. ShownAll(thread, B, mergeThreadMessages(thread, ids))
    BY <1>1, <2>1, Reconciled
  <2>4. \A t \in B : t.id \in ids /\ (t.tombstoned <=> t.id \in Targets(ids))
    BY <1>1, <2>1, FoldedBatch
  <2> HIDE DEF B
  <2>5. PICK t \in B : t.id = b.id /\ ~t.tombstoned
    BY <1>1, <2>2, <2>3, HiddenInBatch
  <2>6. b.id \in ids \ Targets(ids)
    BY <2>4, <2>5
  <2>7. r \in Answers(r)
    BY <2>2 DEF Answers
  <2> QED BY <2>2, <2>6, <2>7 DEF BareCopy, ids
<1>9. CASE LoadOlder \/ Reconcile \/ Reopen
  BY <1>3, <1>9 DEF LoadOlder, Reconcile, Reopen
<1>10. CASE \E k \in DOMAIN posts : Land(k)
  BY <1>3, <1>10 DEF Land
<1>11. ASSUME NEW k \in DOMAIN posts, Fail(k) PROVE FALSE
  <2>1. thread' = removeMessage(thread, MaxPosts + k)
    BY <1>11 DEF Fail
  <2>2. Restamped(But(thread.messages, MaxPosts + k), thread'.messages)
    BY <1>1, <2>1, Removed
  <2>3. PICK a \in thread.messages : Stays(a, d)
    BY <2>2 DEF Restamped, But
  <2> QED BY <1>2, <2>3 DEF Stays
<1>12. CASE UNCHANGED vars
  BY <1>3, <1>12 DEF vars
<1> QED BY <1>4, <1>5, <1>6, <1>7, <1>8, <1>9, <1>10, <1>11, <1>12 DEF Next

\* What was deleted stays deleted: a hidden message is shown again only when a copy
\* of it arrives that does not bring its tombstone along, and a tombstone that came
\* first holds (ingestTombstone, ingestText and mergeThreadMessages).
THEOREM DeletedStays == Spec => DeletedStaysDeleted
<1>1. WarTableInv => EarlyTombstonesHold
  BY DEF WarTableInv, StoreInv, Early, EarlyTombstonesHold
<1>2. WarTableInv /\ [Next]_vars => HiddenStep
  BY HiddenStays
<1> QED BY <1>1, <1>2, StoreStaysInStep, PTL DEF Spec, DeletedStaysDeleted

\* What a reconcile has read is shown, and hidden if it was deleted.
LEMMA CaughtUpShown ==
  ASSUME WarTableInv, NEW r \in reads, ApplyReconcile(r)
  PROVE  LET ids == r.lo .. r.hi IN
         /\ \A i \in OfKind("text", ids) : i \in Ids(thread'.messages)
         /\ \A d \in thread'.messages :
               /\ d.id \in Targets(ids) => d.tombstoned
               /\ (d.id \in OfKind("text", ids) \ Targets(ids) /\ d.tombstoned) =>
                     d.id \in thread'.pendingTombstones
<1> DEFINE ids == r.lo .. r.hi
           B == Visible(thread, foldThread(ids))
<1>1. /\ WorldFine(chain, posts) /\ ThreadFine(chain, posts, thread) /\ ids \in SUBSET DOMAIN chain
      /\ thread' = mergeThreadMessages(thread, ids)
  BY PageIds DEF WarTableInv, StoreInv, ApplyReconcile
<1> HIDE DEF ids
<1>2. ShownAll(thread, B, thread')
  BY <1>1, Reconciled
<1>3. /\ \A b \in B : b.tombstoned <=> b.id \in Targets(ids)
      /\ \A i \in OfKind("text", ids) : \E b \in B : b.id = i /\ b.msg.kind = "text"
      /\ Deleted(B) \subseteq Targets(ids)
      /\ Targets(ids) \cap Ids(thread.messages) \subseteq Deleted(B)
  BY <1>1, FoldedBatch
<1> HIDE DEF B
<1>4. \A i \in OfKind("text", ids) : i \in Ids(thread'.messages)
  BY <1>2, <1>3 DEF ShownAll
<1>5. ASSUME NEW d \in thread'.messages
      PROVE  /\ d.id \in Targets(ids) => d.tombstoned
             /\ (d.id \in OfKind("text", ids) \ Targets(ids) /\ d.tombstoned) =>
                   d.id \in thread'.pendingTombstones
  <2>1. CASE Arrived(thread, B, thread', d)
    <3>1. PICK t \in B :
            /\ d.id = t.id /\ (t.tombstoned => d.tombstoned)
            /\ d.tombstoned => (t.tombstoned \/ t.id \in thread'.pendingTombstones \/ t.id \in Deleted(B))
      BY <2>1 DEF Arrived
    <3> QED BY <1>3, <3>1
  <2>2. CASE Remained(thread, B, d)
    <3>1. PICK a \in thread.messages :
            d.id = a.id /\ (d.tombstoned <=> (a.tombstoned \/ d.id \in Deleted(B)))
      BY <2>2 DEF Remained
    <3>2. \A t \in B : t.msg.kind = "text" => d.id # t.id
      BY <2>2 DEF Remained
    <3>3. d.id \in Ids(thread.messages)
      BY <3>1 DEF Ids
    <3> QED BY <1>3, <3>1, <3>2, <3>3
  <2> QED BY <1>2, <2>1, <2>2 DEF ShownAll
<1> QED BY <1>4, <1>5 DEF ids

\* Who reacted is counted.
LEMMA CaughtUpCounts ==
  ASSUME WarTableInv, NEW r \in reads, ApplyReconcile(r),
         NEW i \in OfKind("reaction", r.lo .. r.hi) \ Targets(r.lo .. r.hi),
         chain[i].parent \in r.lo .. r.hi,
         \A k \in RecordsOf(thread.reactionRecords, chain[i].parent) :
            /\ thread.reactionRecords[k].sender # chain[i].sender
            /\ thread.reactionRecords[k].sender # Me
  PROVE  summarizeReactions(thread'.reactionRecords, chain[i].parent)[chain[i].sender] = 1
<1> DEFINE ids == r.lo .. r.hi
           B == Visible(thread, foldThread(ids))
           g == ingestMessages(thread, B)
           m == chain[i].parent
           w == chain[i].sender
           rs == thread'.reactionRecords
           S == Seeded(ids)
<1>1. /\ WorldFine(chain, posts) /\ ThreadFine(chain, posts, thread) /\ ids \in SUBSET DOMAIN chain
      /\ thread' = mergeThreadMessages(thread, ids)
      /\ MineKnown(chain, thread.reactionRecords)
  BY PageIds DEF WarTableInv, StoreInv, ApplyReconcile
<1>2. i \in OfKind("reaction", ids) \ Targets(ids) /\ m \in ids
  OBVIOUS
<1>3. i \in DOMAIN chain /\ i \in ids /\ chain[i].kind = "reaction"
  BY <1>1, <1>2 DEF OfKind
<1>4. chain[i] \in WtMessage /\ Fits(chain, i - 1, chain[i])
  BY <1>1, <1>3, IdsApart DEF WorldFine, ChainFine
<1>5. chain[m].kind = "text" /\ w \in Wallets
  BY <1>3, <1>4 DEF Fits, WtMessage
<1> HIDE DEF ids
<1>6. /\ RecordsKept(chain, posts, thread, B, g)
      /\ UnionStep(ids, g.reactionRecords, Seeded(ids), rs)
  BY <1>1, Reconciled
<1>7. \A b \in B : b.msg.kind # "reaction"
  BY <1>1, FoldedBatch
<1> HIDE DEF B, g, rs
<1>8. MineKnown(chain, g.reactionRecords) /\ SameRecords(thread.reactionRecords, g.reactionRecords)
  BY <1>1, <1>6, <1>7 DEF RecordsKept
<1>9. Fresh(g.reactionRecords, m, w)
  <2>1. \A k \in RecordsOf(g.reactionRecords, m) :
          k \in RecordsOf(thread.reactionRecords, m)
          /\ g.reactionRecords[k].sender = thread.reactionRecords[k].sender
    BY <1>8 DEF SameRecords, RecordsOf
  <2> QED BY <2>1 DEF Fresh, RecordsBy
<1>10. InOrder(ids, S)
  BY DEF InOrder
<1>11. CountsOne(S, m, w, rs)
  BY <1>6, <1>8, <1>9, <1>10 DEF UnionStep
<1>12. i \in By(w, m, S)
  <2>1. m \in OfKind("text", ids)
    BY <1>2, <1>5 DEF OfKind
  <2>2. i \in LiveReactions(m, ids)
    BY <1>2 DEF LiveReactions
  <2>3. i \in S
    BY <2>1, <2>2 DEF Seeded
  <2> QED BY <2>3 DEF By
<1> HIDE DEF m, w, S
<1>13. PICK k : RecordsBy(rs, m, w) = {k} /\ ~rs[k].tombstoned
  BY <1>11, <1>12 DEF CountsOne
<1>14. {j \in RecordsOf(rs, m) : rs[j].sender = w /\ ~rs[j].tombstoned} = {k}
  BY <1>13 DEF RecordsBy
<1>15. Cardinality({k}) = 1
  BY FS_Singleton
<1>16. summarizeReactions(rs, m)[w] = 1
  BY <1>5, <1>14, <1>15 DEF summarizeReactions
<1> QED BY <1>16 DEF rs, m, w

\* A reconcile makes up for what was missed: what it read is shown, hidden if it was
\* deleted, and who reacted is counted (mergeThreadMessages and unionRecords).
THEOREM ReconcileCaughtUp == Spec => ReconcileCatchesUp
<1>1. WarTableInv =>
        \A r \in reads \ reads' : ApplyReconcile(r) => CaughtUp(r.lo .. r.hi)
  <2> SUFFICES ASSUME WarTableInv, NEW r \in reads \ reads', ApplyReconcile(r)
               PROVE  CaughtUp(r.lo .. r.hi)
    OBVIOUS
  <2> QED BY CaughtUpShown, CaughtUpCounts DEF CaughtUp
<1> QED BY <1>1, StoreStaysInStep, PTL DEF Spec, ReconcileCatchesUp

=============================================================================
