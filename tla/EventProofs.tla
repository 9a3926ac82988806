----------------------------- MODULE EventProofs -----------------------------
(* Theorems about Event, for every value of its constants. *)
EXTENDS Event, SumsProofs

-----------------------------------------------------------------------------
(* Places on a board *)

\* A set of natural numbers that is not empty has a least member.
LEMMA LeastMember ==
  ASSUME NEW S \in SUBSET Nat, S # {}
  PROVE  \E k \in S : \A j \in S : k <= j
<1> DEFINE Good == {n \in Nat : \A j \in S : n <= j}
<1> SUFFICES ASSUME \A k \in S : \E j \in S : j < k PROVE FALSE
  OBVIOUS
<1>1. 0 \in Good
  OBVIOUS
<1>2. ASSUME NEW n \in Nat, n \in Good PROVE n + 1 \in Good
  <2>1. n \notin S
    BY <1>2
  <2> QED BY <1>2, <2>1
<1>3. Nat \subseteq Good
  <2> HIDE DEF Good
  <2> QED BY <1>1, <1>2, NatSetInduction
<1>4. PICK j \in S : TRUE
  OBVIOUS
<1>5. j + 1 \in Good
  BY <1>3
<1> QED BY <1>4, <1>5

\* The rank of who is listed is that of one of the player's entries.
LEMMA RankFound ==
  ASSUME NEW a \in EventAccount, NEW p, RanksOf(a, p) # {}
  PROVE  /\ find_rank(a, p) \in Listed(a) /\ find_rank(a, p) \in Ranks
         /\ a.leaderboard[find_rank(a, p)].player = p
<1>1. RanksOf(a, p) \in SUBSET Nat /\ Listed(a) \subseteq Ranks
  BY EventAssumption DEF RanksOf, Listed, Ranks, EventAccount
<1>2. \E r \in RanksOf(a, p) : \A s \in RanksOf(a, p) : r <= s
  BY <1>1, LeastMember
<1>3. find_rank(a, p) \in RanksOf(a, p)
  BY <1>2 DEF find_rank
<1> QED BY <1>1, <1>3 DEF RanksOf

\* Swaps take a score that grew up to where those above have no less.
LEMMA HighestSwapIs ==
  ASSUME NEW B \in [Ranks -> Entry], NEW i \in Ranks, NEW score \in Nat
  PROVE  LET k == HighestSwap(B, i, score)
         IN  /\ k \in 1 .. i
             /\ \A r \in k .. i - 1 : B[r].score < score
             /\ k > 1 => B[k - 1].score >= score
<1> DEFINE S == {k \in 1 .. i : \A r \in k .. i - 1 : B[r].score < score}
<1>1. i \in S /\ S \in SUBSET Nat
  BY EventAssumption DEF Ranks
<1>2. PICK k \in S : \A j \in S : k <= j
  <2> HIDE DEF S
  <2> QED BY <1>1, LeastMember
<1>3. k \in 1 .. i /\ \A r \in k .. i - 1 : B[r].score < score
  BY <1>2
<1>4. k > 1 => B[k - 1].score >= score
  <2> SUFFICES ASSUME k > 1, ~(B[k - 1].score >= score) PROVE FALSE
    OBVIOUS
  <2>1. k - 1 \in 1 .. i /\ k - 1 \in Ranks /\ i \in Nat
    BY <1>3, EventAssumption DEF Ranks
  <2>2. B[k - 1].score \in Nat
    BY <2>1 DEF Entry
  <2>3. \A r \in k - 1 .. i - 1 : B[r].score < score
    BY <1>3, <2>1, <2>2
  <2>4. k - 1 \in S
    BY <2>1, <2>3
  <2> QED BY <1>2, <1>3, <2>1, <2>4
<1> QED BY <1>3, <1>4 DEF HighestSwap

\* A new entry goes below those that have no less, above the first that has less.
LEMMA InsertionPointIs ==
  ASSUME NEW B \in [Ranks -> Entry], NEW count \in 0 .. MAX_LEADERBOARD, NEW score \in Nat
  PROVE  LET k == InsertionPoint(B, count, score)
         IN  /\ k \in 1 .. count + 1
             /\ k <= count => score > B[k].score
             /\ \A r \in 1 .. k - 1 : B[r].score >= score
<1> DEFINE S == {k \in 1 .. count + 1 : k <= count => score > B[k].score}
<1>1. count \in Nat /\ count + 1 \in S /\ S \in SUBSET Nat
  BY EventAssumption
<1>2. PICK k \in S : \A j \in S : k <= j
  <2> HIDE DEF S
  <2> QED BY <1>1, LeastMember
<1>3. k \in 1 .. count + 1 /\ (k <= count => score > B[k].score)
  BY <1>2
<1>4. ASSUME NEW r \in 1 .. k - 1 PROVE B[r].score >= score
  <2>1. r \in 1 .. count + 1 /\ r <= count /\ r < k /\ r \in Ranks
    BY <1>1, <1>3, <1>4, EventAssumption DEF Ranks
  <2>2. r \notin S
    BY <1>2, <1>3, <2>1
  <2>3. B[r].score \in Nat
    BY <2>1 DEF Entry
  <2> QED BY <2>1, <2>2, <2>3
<1> QED BY <1>3, <1>4 DEF InsertionPoint

\* Board C has the entry at k and is otherwise B with k to i - 1 moved down.
RaisedTo(B, i, k, entry, C) ==
    /\ C \in [Ranks -> Entry] /\ C[k] = entry
    /\ \A r \in 1 .. k - 1 : C[r] = B[r]
    /\ \A r \in k + 1 .. i : r - 1 \in Ranks /\ C[r] = B[r - 1]
    /\ \A r \in Ranks : r > i => C[r] = B[r]

\* Taking an entry up to k shifts those that it passes, and changes no other.
LEMMA RaisedAt ==
  ASSUME NEW B \in [Ranks -> Entry], NEW i \in Ranks, NEW k \in 1 .. i, NEW entry \in Entry
  PROVE  RaisedTo(B, i, k, entry, Raised(B, i, k, entry))
<1>1. i \in Nat /\ k \in Nat /\ k >= 1 /\ i <= MAX_LEADERBOARD /\ MAX_LEADERBOARD \in Nat
  BY EventAssumption DEF Ranks
<1>2. \A r \in Ranks : k < r /\ r <= i => r - 1 \in Ranks
  BY <1>1 DEF Ranks
<1>3. \A r \in 1 .. i : r \in Ranks
  BY <1>1 DEF Ranks
<1>4. \A r \in Ranks : r \in Int
  BY <1>1 DEF Ranks
<1>5. Raised(B, i, k, entry) \in [Ranks -> Entry]
  BY <1>2 DEF Raised
<1>6. ASSUME NEW r \in Ranks
      PROVE  Raised(B, i, k, entry)[r]
               = IF r = k THEN entry ELSE IF k < r /\ r <= i THEN B[r - 1] ELSE B[r]
  BY DEF Raised
<1>7. k \in Ranks
  BY <1>3
<1>8. \A r \in 1 .. k - 1 : r \in Ranks /\ r # k /\ ~(k < r)
  BY <1>1, <1>3
<1>9. \A r \in k + 1 .. i : r \in Ranks /\ r - 1 \in Ranks /\ r # k /\ k < r /\ r <= i
  BY <1>1, <1>2, <1>3
<1>10. \A r \in Ranks : r > i => r # k /\ ~(r <= i)
  BY <1>1, <1>4
<1> QED BY <1>5, <1>6, <1>7, <1>8, <1>9, <1>10 DEF RaisedTo

\* A board of which all places but i are in order, where i is the last of them or
\* those below have no more than the new score.
Gap(B, m, i, entry) ==
    /\ \A r, s \in (1 .. m) \ {i} : r < s =>
          B[r].score >= B[s].score /\ B[r].player # B[s].player
    /\ \A r \in (1 .. m) \ {i} : B[r].player # entry.player
    /\ \A r \in i + 1 .. m : B[r].score <= entry.score

\* Board C is in order, with the entry at k and the entries of B but that at i.
InOrder(B, m, i, k, entry, C) ==
    /\ C \in [Ranks -> Entry]
    /\ \A r, s \in 1 .. m : r < s =>
          C[r].score >= C[s].score /\ C[r].player # C[s].player
    /\ C[k] = entry /\ k \in 1 .. m
    /\ \A r \in (1 .. m) \ {k} : \E s \in (1 .. m) \ {i} : C[r] = B[s]
    /\ \A s \in (1 .. m) \ {i} : \E r \in (1 .. m) \ {k} : C[r] = B[s]

\* Raised to where those above have no less and those it passes no more, an entry
\* leaves the board in order, with the entries it had but for that at i.
LEMMA RaisedInOrder ==
  ASSUME NEW B \in [Ranks -> Entry], NEW m \in Ranks, NEW i \in 1 .. m, NEW k \in 1 .. i,
         NEW entry \in Entry, Gap(B, m, i, entry),
         \A r \in 1 .. k - 1 : B[r].score >= entry.score,
         \A r \in k .. i - 1 : B[r].score <= entry.score,
         NEW C, C = Raised(B, i, k, entry)
  PROVE  InOrder(B, m, i, k, entry, C)
<1> DEFINE from(r) == IF r > k /\ r <= i THEN r - 1 ELSE r
<1>1. m \in Nat /\ i \in Nat /\ k \in Nat /\ k >= 1 /\ k <= i /\ i <= m /\ m <= MAX_LEADERBOARD
  BY EventAssumption DEF Ranks
<1>2. i \in Ranks /\ 1 .. m \subseteq Ranks
  BY <1>1, EventAssumption DEF Ranks
<1>3. /\ C \in [Ranks -> Entry] /\ C[k] = entry
      /\ \A r \in 1 .. k - 1 : C[r] = B[r]
      /\ \A r \in k + 1 .. i : r - 1 \in Ranks /\ C[r] = B[r - 1]
      /\ \A r \in Ranks : r > i => C[r] = B[r]
  <2>1. RaisedTo(B, i, k, entry, C)
    BY <1>2, RaisedAt
  <2> QED BY <2>1 DEF RaisedTo
<1>4. ASSUME NEW r \in (1 .. m) \ {k}
      PROVE  from(r) \in (1 .. m) \ {i} /\ C[r] = B[from(r)]
  <2>1. CASE r < k
    BY <1>1, <1>3, <2>1
  <2>2. CASE r > k /\ r <= i
    <3>1. r \in k + 1 .. i /\ r - 1 \in (1 .. m) \ {i}
      BY <1>1, <2>2
    <3> QED BY <1>3, <2>2, <3>1
  <2>3. CASE r > i
    BY <1>1, <1>2, <1>3, <2>3
  <2> QED BY <1>1, <2>1, <2>2, <2>3
<1>5. ASSUME NEW r \in (1 .. m) \ {k}, NEW s \in (1 .. m) \ {k}, r < s
      PROVE  from(r) < from(s)
  BY <1>1, <1>5
<1>6. ASSUME NEW r \in 1 .. m, r < k PROVE C[r].score >= entry.score
  BY <1>1, <1>3, <1>6
<1>7. ASSUME NEW r \in 1 .. m, r > k PROVE C[r].score <= entry.score
  <2>1. CASE r <= i
    <3>1. r \in k + 1 .. i /\ r - 1 \in k .. i - 1
      BY <1>1, <1>7, <2>1
    <3> QED BY <1>3, <3>1
  <2>2. CASE r > i
    <3>1. r \in i + 1 .. m /\ r \in Ranks
      BY <1>1, <1>2, <2>2
    <3> QED BY <1>3, <2>2, <3>1 DEF Gap
  <2> QED BY <1>1, <2>1, <2>2
<1>8. ASSUME NEW r \in (1 .. m) \ {k} PROVE C[r].player # entry.player
  <2> DEFINE u == from(r)
  <2>1. u \in (1 .. m) \ {i} /\ C[r] = B[u]
    BY <1>4
  <2> HIDE DEF u
  <2> QED BY <2>1 DEF Gap
<1>9. ASSUME NEW r \in 1 .. m, NEW s \in 1 .. m, r < s
      PROVE  C[r].score >= C[s].score /\ C[r].player # C[s].player
  <2>1. CASE r = k
    <3>1. s \in (1 .. m) \ {k} /\ s > k
      BY <1>1, <1>9, <2>1
    <3> QED BY <1>3, <1>7, <1>8, <2>1, <3>1
  <2>2. CASE s = k
    <3>1. r \in (1 .. m) \ {k} /\ r < k
      BY <1>1, <1>9, <2>2
    <3> QED BY <1>3, <1>6, <1>8, <2>2, <3>1
  <2>3. CASE r # k /\ s # k
    <3> DEFINE u == from(r)
               v == from(s)
    <3>1. /\ u \in (1 .. m) \ {i} /\ C[r] = B[u] /\ v \in (1 .. m) \ {i} /\ C[s] = B[v]
          /\ u < v
      BY <1>4, <1>5, <1>9, <2>3
    <3> HIDE DEF u, v
    <3> QED BY <3>1 DEF Gap
  <2> QED BY <2>1, <2>2, <2>3
<1>10. ASSUME NEW s \in (1 .. m) \ {i} PROVE \E r \in (1 .. m) \ {k} : C[r] = B[s]
  <2> DEFINE t == IF s >= k /\ s < i THEN s + 1 ELSE s
  <2>1. t \in (1 .. m) \ {k} /\ from(t) = s
    BY <1>1
  <2>2. C[t] = B[from(t)]
    BY <1>4, <2>1
  <2> HIDE DEF t
  <2> QED BY <2>1, <2>2
<1>11. \A r \in (1 .. m) \ {k} : \E s \in (1 .. m) \ {i} : C[r] = B[s]
  <2> SUFFICES ASSUME NEW r \in (1 .. m) \ {k} PROVE \E s \in (1 .. m) \ {i} : C[r] = B[s]
    OBVIOUS
  <2> HIDE DEF from
  <2> QED BY <1>4
<1> QED BY <1>1, <1>3, <1>9, <1>10, <1>11 DEF InOrder

-----------------------------------------------------------------------------
(* The leaderboard *)

\* While scores come, all who are listed take part, with the score that is listed,
\* and who is not listed has no more than the last of a full board.
BoardInv(a, q) ==
    /\ BoardSorted(a)
    /\ \A r \in Listed(a) :
          LET p == a.leaderboard[r].player
          IN  p \in Players /\ q[p].open /\ q[p].score = a.leaderboard[r].score
    /\ \A p \in Players : q[p].score > 0 /\ RanksOf(a, p) = {} =>
          Full(a) /\ a.leaderboard[MAX_LEADERBOARD].score >= q[p].score

\* The fields of an event, and that places of the board are places.
LEMMA EventTypes ==
  ASSUME NEW a \in EventAccount
  PROVE  /\ a.leaderboard \in [Ranks -> Entry] /\ a.leaderboard_count \in 0 .. MAX_LEADERBOARD
         /\ a.leaderboard_count \in Nat /\ MAX_LEADERBOARD \in Nat /\ MAX_LEADERBOARD \in Ranks
         /\ Listed(a) \subseteq Ranks /\ Listed(a) \subseteq Nat
         /\ \A r \in Ranks : a.leaderboard[r].score \in Nat
         /\ a.terms \in Offer /\ a.terms.prize_amount \in Nat
         /\ a.prize_remaining \in Nat /\ a.status \in Status
<1>1. a.leaderboard \in [Ranks -> Entry] /\ a.leaderboard_count \in 0 .. MAX_LEADERBOARD
  BY DEF EventAccount
<1>2. MAX_LEADERBOARD \in Nat /\ MAX_LEADERBOARD \in Ranks
  BY EventAssumption DEF Ranks
<1>3. Listed(a) \subseteq Ranks /\ Listed(a) \subseteq Nat /\ a.leaderboard_count \in Nat
  BY <1>1, <1>2 DEF Listed, Ranks
<1>4. \A r \in Ranks : a.leaderboard[r].score \in Nat
  BY <1>1 DEF Entry
<1>5. a.terms \in Offer /\ a.prize_remaining \in Nat /\ a.status \in Status
  BY DEF EventAccount
<1>6. a.terms.prize_amount \in Nat
  BY <1>5 DEF Offer
<1> QED BY <1>1, <1>2, <1>3, <1>4, <1>5, <1>6

\* The score of p may be raised to k in a board of m places from i, where it was or
\* where it takes the place after the last, or that of the last of a full board.
Fits(a, p, score, m, i, k) ==
    /\ m \in Ranks /\ i \in 1 .. m /\ k \in 1 .. i
    /\ m >= a.leaderboard_count
    /\ (1 .. m) \ {i} \subseteq Listed(a)
    /\ \A r \in (1 .. m) \ {i} : a.leaderboard[r].player # p
    /\ \A r \in Listed(a) \ ((1 .. m) \ {i}) :
          a.leaderboard[r].player = p \/ (r = MAX_LEADERBOARD /\ m = MAX_LEADERBOARD)
    /\ i \in Listed(a) => a.leaderboard[i].score <= score
    /\ \A r \in 1 .. k - 1 : a.leaderboard[r].score >= score
    /\ \A r \in k .. i - 1 : a.leaderboard[r].score <= score
    /\ \A r \in i + 1 .. m : a.leaderboard[r].score <= score

\* The event with the score of p at k, and the participations with that of p.
Filled(a, p, score, m, i, k) ==
    [a EXCEPT !.leaderboard =
                 Raised(a.leaderboard, i, k, [player |-> p, score |-> score]),
              !.leaderboard_count = m]

Scored(q, p, score) == [q EXCEPT ![p].score = score]

\* An entry of p that is raised in a board of m places, where it was at i or is
\* new, leaves a true board; only the last of a full board may drop out for it.
LEMMA GapFilled ==
  ASSUME NEW a \in EventAccount, NEW q \in [Players -> EventParticipation],
         NEW p \in Players, q[p].open, BoardInv(a, q),
         NEW score \in Nat, NEW m, NEW i, NEW k, Fits(a, p, score, m, i, k)
  PROVE  /\ Filled(a, p, score, m, i, k) \in EventAccount
         /\ BoardInv(Filled(a, p, score, m, i, k), Scored(q, p, score))
<1> DEFINE entry == [player |-> p, score |-> score]
           q2 == Scored(q, p, score)
           b == Filled(a, p, score, m, i, k)
           B == a.leaderboard
           C == Raised(B, i, k, entry)
           n == a.leaderboard_count
           M == MAX_LEADERBOARD
<1>1. /\ B \in [Ranks -> Entry] /\ n \in Nat /\ n <= M /\ M \in Nat /\ M \in Ranks
      /\ Listed(a) \subseteq Ranks /\ \A r \in Ranks : B[r].score \in Nat
  BY EventTypes
<1>2. /\ m \in Ranks /\ i \in 1 .. m /\ k \in 1 .. i
      /\ m \in 0 .. M /\ m \in Nat /\ i \in Nat /\ i <= m /\ m >= n
  BY <1>1 DEF Fits, Ranks
<1>a. /\ (1 .. m) \ {i} \subseteq Listed(a)
      /\ \A r \in (1 .. m) \ {i} : B[r].player # p
      /\ \A r \in Listed(a) \ ((1 .. m) \ {i}) : B[r].player = p \/ (r = M /\ m = M)
      /\ i \in Listed(a) => B[i].score <= score
      /\ \A r \in 1 .. k - 1 : B[r].score >= score
      /\ \A r \in k .. i - 1 : B[r].score <= score
      /\ \A r \in i + 1 .. m : B[r].score <= score
  BY DEF Fits
<1>3. entry \in Entry /\ entry.player = p /\ entry.score = score
  BY DEF Entry
<1>4. \A r, s \in Listed(a) : r < s => B[r].score >= B[s].score /\ B[r].player # B[s].player
  BY DEF BoardInv, BoardSorted
<1>5. Gap(B, m, i, entry)
  BY <1>3, <1>4, <1>a DEF Gap
<1>6. /\ C \in [Ranks -> Entry]
      /\ \A r, s \in 1 .. m : r < s => C[r].score >= C[s].score /\ C[r].player # C[s].player
      /\ C[k] = entry /\ k \in 1 .. m
      /\ \A r \in (1 .. m) \ {k} : \E s \in (1 .. m) \ {i} : C[r] = B[s]
      /\ \A s \in (1 .. m) \ {i} : \E r \in (1 .. m) \ {k} : C[r] = B[s]
  <2>1. /\ \A r \in 1 .. k - 1 : B[r].score >= entry.score
        /\ \A r \in k .. i - 1 : B[r].score <= entry.score
    BY <1>3, <1>a
  <2> HIDE DEF B
  <2>2. InOrder(B, m, i, k, entry, C)
    BY <1>1, <1>2, <1>3, <1>5, <2>1, RaisedInOrder
  <2> QED BY <2>2 DEF InOrder
<1>7. b = [a EXCEPT !.leaderboard = C, !.leaderboard_count = m]
  BY DEF Filled
<1> HIDE DEF C, entry, b
<1>8. b \in EventAccount
  BY <1>2, <1>6, <1>7 DEF EventAccount
<1>9. b.leaderboard = C /\ b.leaderboard_count = m /\ Listed(b) = 1 .. m
  BY <1>7 DEF EventAccount, Listed
<1>10. BoardSorted(b)
  BY <1>6, <1>9 DEF BoardSorted
<1>11. /\ q2 \in [Players -> EventParticipation]
       /\ q2[p].open /\ q2[p].score = score
       /\ \A x \in Players \ {p} : q2[x] = q[x]
  <2>1. q[p] \in EventParticipation /\ [q[p] EXCEPT !.score = score] \in EventParticipation
    BY DEF EventParticipation
  <2>2. q2 = [q EXCEPT ![p] = [q[p] EXCEPT !.score = score]]
    BY DEF Scored
  <2>3. q2[p].open /\ q2[p].score = score
    BY <2>1, <2>2 DEF EventParticipation
  <2> HIDE DEF q2
  <2> QED BY <2>1, <2>2, <2>3
<1> HIDE DEF q2
<1>12. \A s \in (1 .. m) \ {i} :
          /\ B[s].player \in Players \ {p} /\ q[B[s].player].open
          /\ q[B[s].player].score = B[s].score
  BY <1>a DEF BoardInv
<1>13. ASSUME NEW r \in Listed(b)
       PROVE  C[r].player \in Players /\ q2[C[r].player].open /\ q2[C[r].player].score = C[r].score
  <2>1. CASE r = k
    BY <1>3, <1>6, <1>11, <2>1
  <2>2. CASE r # k
    <3>1. PICK s \in (1 .. m) \ {i} : C[r] = B[s]
      BY <1>6, <1>9, <2>2
    <3> QED BY <1>11, <1>12, <3>1
  <2> QED BY <2>1, <2>2
<1>14. n = M => C[M].score >= B[M].score
  <2> SUFFICES ASSUME n = M PROVE C[M].score >= B[M].score
    OBVIOUS
  <2>1. m = M /\ M \in Listed(a) /\ M \in 1 .. m /\ Listed(a) = 1 .. M
    BY <1>1, <1>2, EventAssumption DEF Listed, Ranks
  <2>2. CASE M = k
    <3>1. i = M
      BY <1>2, <2>1, <2>2
    <3> QED BY <1>1, <1>3, <1>6, <1>a, <2>1, <2>2, <3>1
  <2>3. CASE M # k
    <3> HIDE DEF B, M
    <3>1. PICK s \in (1 .. m) \ {i} : C[M] = B[s]
      <4>1. M \in (1 .. m) \ {k}
        BY <2>1, <2>3
      <4> QED BY <1>6, <4>1
    <3>2. s \in Listed(a) /\ s <= M /\ s \in Nat
      BY <1>a, <2>1, <3>1
    <3>3. B[s].score >= B[M].score
      <4>1. CASE s = M
        BY <1>1, <4>1
      <4>2. CASE s < M
        <5>1. M \in Listed(a) /\ s \in Listed(a)
          BY <2>1, <3>2
        <5> QED BY <1>4, <4>2, <5>1
      <4>3. s = M \/ s < M
        BY <1>1, <3>2
      <4> QED BY <4>1, <4>2, <4>3
    <3> QED BY <3>1, <3>3
  <2> QED BY <2>2, <2>3
<1>15. ASSUME NEW x \in Players, q2[x].score > 0, RanksOf(b, x) = {}
       PROVE  Full(b) /\ C[M].score >= q2[x].score
  <2>1. \A r \in 1 .. m : C[r].player # x
    BY <1>9, <1>15 DEF RanksOf
  <2>2. x # p /\ q2[x] = q[x]
    BY <1>3, <1>6, <1>11, <2>1
  <2>3. \A s \in (1 .. m) \ {i} : B[s].player # x
    <3> SUFFICES ASSUME NEW s \in (1 .. m) \ {i} PROVE B[s].player # x
      OBVIOUS
    <3> HIDE DEF B
    <3>1. PICK r \in (1 .. m) \ {k} : C[r] = B[s]
      BY <1>6
    <3> QED BY <2>1, <3>1
  <2>4. CASE RanksOf(a, x) = {}
    <3>1. Full(a) /\ B[M].score >= q[x].score
      BY <1>15, <2>2, <2>4 DEF BoardInv
    <3>2. n = M /\ m = M
      <4>1. n >= M /\ m >= n
        BY <1>2, <3>1 DEF Full
      <4> HIDE DEF n, M
      <4> QED BY <1>1, <1>2, <4>1
    <3>3. C[M].score >= B[M].score
      BY <1>14, <3>2
    <3>4. C[M].score \in Nat /\ B[M].score \in Nat /\ q[x].score \in Nat
      BY <1>1, <1>6 DEF Entry, EventParticipation
    <3> QED BY <1>1, <1>9, <2>2, <3>1, <3>2, <3>3, <3>4 DEF Full
  <2>5. CASE RanksOf(a, x) # {}
    <3>1. PICK r \in Listed(a) : B[r].player = x
      BY <2>5 DEF RanksOf
    <3>2. r = M /\ m = M
      BY <1>a, <2>2, <2>3, <3>1
    <3>3. n = M
      BY <1>1, <1>2, <3>1, <3>2 DEF Listed
    <3>4. q[x].score = B[M].score
      BY <3>1, <3>2 DEF BoardInv
    <3>5. C[M].score >= B[M].score
      BY <1>14, <3>3
    <3> QED BY <1>1, <1>9, <2>2, <3>2, <3>4, <3>5 DEF Full
  <2> QED BY <2>4, <2>5
<1>16. BoardInv(b, q2)
  BY <1>9, <1>10, <1>13, <1>15 DEF BoardInv
<1> QED BY <1>8, <1>16 DEF b, q2

\* The score of a listed player that grew.
LEMMA ListedScore ==
  ASSUME NEW a \in EventAccount, NEW q \in [Players -> EventParticipation],
         NEW p \in Players, q[p].open, BoardInv(a, q),
         NEW score \in Nat, score >= q[p].score, RanksOf(a, p) # {},
         NEW b, b = update_leaderboard(a, p, score)
  PROVE  b \in EventAccount /\ BoardInv(b, Scored(q, p, score))
<1> DEFINE B == a.leaderboard
           n == a.leaderboard_count
           i == find_rank(a, p)
           k == HighestSwap(B, i, score)
           entry == [player |-> p, score |-> score]
<1>1. /\ B \in [Ranks -> Entry] /\ n \in Nat /\ n <= MAX_LEADERBOARD /\ MAX_LEADERBOARD \in Nat
      /\ Listed(a) \subseteq Ranks /\ \A r \in Ranks : B[r].score \in Nat
  BY EventTypes
<1>2. i \in Listed(a) /\ i \in Ranks /\ B[i].player = p
  BY RankFound
<1>3. B[i].score = q[p].score /\ q[p].score \in Nat
  BY <1>2 DEF BoardInv, EventParticipation
<1>4. \A r, s \in Listed(a) : r < s => B[r].score >= B[s].score /\ B[r].player # B[s].player
  BY DEF BoardInv, BoardSorted
<1>5. k \in 1 .. i /\ (\A r \in k .. i - 1 : B[r].score < score)
      /\ (k > 1 => B[k - 1].score >= score)
  BY <1>1, <1>2, HighestSwapIs
<1>6. Listed(a) = 1 .. n
  BY DEF Listed
<1> HIDE DEF i, k
<1>7. CASE B[i].score = score
  <2>1. b = a
    BY <1>7 DEF update_leaderboard, i
  <2>2. Scored(q, p, score) = q
    BY <1>3, <1>7 DEF EventParticipation, Scored
  <2> QED BY <2>1, <2>2
<1>8. CASE B[i].score # score
  <2>1. score > B[i].score
    BY <1>3, <1>8
  <2>2. b = [a EXCEPT !.leaderboard = Raised(B, i, k, entry)]
    BY <1>8, <2>1 DEF update_leaderboard, Resorted, i, k
  <2>3. b = [a EXCEPT !.leaderboard = Raised(B, i, k, entry), !.leaderboard_count = n]
    BY <2>2 DEF EventAccount
  <2>4. n \in Ranks /\ i \in 1 .. n /\ i \in Nat
    BY <1>1, <1>2, <1>6 DEF Ranks
  <2>5. \A r \in (1 .. n) \ {i} : B[r].player # p
    <3> SUFFICES ASSUME NEW r \in (1 .. n) \ {i} PROVE B[r].player # p
      OBVIOUS
    <3>1. r < i \/ i < r
      BY <2>4
    <3> QED BY <1>2, <1>4, <1>6, <2>4, <3>1
  <2>6. \A r \in Listed(a) \ ((1 .. n) \ {i}) : B[r].player = p
    BY <1>2, <1>6
  <2>7. \A r \in 1 .. k - 1 : B[r].score >= score
    <3> SUFFICES ASSUME NEW r \in 1 .. k - 1 PROVE B[r].score >= score
      OBVIOUS
    <3>1. r \in 1 .. n /\ k - 1 \in 1 .. n /\ r <= k - 1 /\ k > 1 /\ r \in Ranks /\ k - 1 \in Ranks
      BY <1>1, <1>5, <2>4 DEF Ranks
    <3>2. B[k - 1].score >= score
      BY <1>5, <3>1
    <3>3. B[r].score >= B[k - 1].score
      <4>1. CASE r = k - 1
        BY <1>1, <3>1, <4>1
      <4>2. CASE r < k - 1
        BY <1>4, <1>6, <3>1, <4>2
      <4> QED BY <3>1, <4>1, <4>2
    <3>4. B[r].score \in Nat /\ B[k - 1].score \in Nat
      BY <1>1, <3>1
    <3> QED BY <3>2, <3>3, <3>4
  <2>8. \A r \in i + 1 .. n : B[r].score <= score
    <3> SUFFICES ASSUME NEW r \in i + 1 .. n PROVE B[r].score <= score
      OBVIOUS
    <3>1. r \in 1 .. n /\ i < r /\ r \in Ranks
      BY <1>1, <2>4 DEF Ranks
    <3>2. B[i].score >= B[r].score
      BY <1>2, <1>4, <1>6, <3>1
    <3>3. B[r].score \in Nat /\ B[i].score \in Nat
      BY <1>1, <1>2, <3>1
    <3> QED BY <2>1, <3>2, <3>3
  <2>9. /\ \A r \in k .. i - 1 : B[r].score <= score
        /\ B[i].score <= score
    <3>1. \A r \in k .. i - 1 : r \in Ranks
      BY <1>1, <1>5, <2>4 DEF Ranks
    <3> QED BY <1>1, <1>2, <1>5, <2>1, <3>1
  <2>10. Fits(a, p, score, n, i, k)
    <3>1. (1 .. n) \ {i} \subseteq Listed(a) /\ n >= n
      BY <1>1, <1>6
    <3> QED BY <1>5, <2>4, <2>5, <2>6, <2>7, <2>8, <2>9, <3>1 DEF Fits
  <2>11. b = Filled(a, p, score, n, i, k)
    BY <2>3 DEF Filled
  <2> HIDE DEF n
  <2> QED BY <2>10, <2>11, GapFilled
<1> QED BY <1>7, <1>8

\* The score of a player who is not listed.
LEMMA UnlistedScore ==
  ASSUME NEW a \in EventAccount, NEW q \in [Players -> EventParticipation],
         NEW p \in Players, q[p].open, BoardInv(a, q),
         NEW score \in Nat, RanksOf(a, p) = {},
         NEW b, b = update_leaderboard(a, p, score)
  PROVE  b \in EventAccount /\ BoardInv(b, Scored(q, p, score))
<1> DEFINE B == a.leaderboard
           n == a.leaderboard_count
           M == MAX_LEADERBOARD
           m == Least(n + 1, M)
           k == InsertionPoint(B, n, score)
           entry == [player |-> p, score |-> score]
<1>1. /\ B \in [Ranks -> Entry] /\ n \in 0 .. M /\ n \in Nat /\ n <= M /\ M \in Nat /\ M \in Ranks
      /\ Listed(a) \subseteq Ranks /\ \A r \in Ranks : B[r].score \in Nat
  BY EventTypes
<1>2. \A r, s \in Listed(a) : r < s => B[r].score >= B[s].score /\ B[r].player # B[s].player
  BY DEF BoardInv, BoardSorted
<1>3. \A r \in Listed(a) : B[r].player # p
  BY DEF RanksOf
<1>4. Listed(a) = 1 .. n
  BY DEF Listed
<1>5. m \in Ranks /\ m \in Nat /\ m >= n /\ m <= n + 1 /\ (m # n + 1 => m = M /\ n = M)
  BY <1>1, EventAssumption DEF Least, Ranks
<1> DEFINE q2 == Scored(q, p, score)
<1>6. q[p].score \in Nat /\ q2[p].score = score /\ q2[p].open
      /\ \A x \in Players \ {p} : q2[x] = q[x]
  BY DEF EventParticipation, Scored
<1> HIDE DEF q2
<1>7. CASE Full(a) /\ score <= B[M].score
  <2>1. b = a
    BY <1>7 DEF update_leaderboard
  <2>2. \A r \in Listed(a) : q2[B[r].player] = q[B[r].player]
    BY <1>3, <1>6 DEF BoardInv
  <2>3. BoardInv(a, q2)
    BY <1>1, <1>6, <1>7, <2>2 DEF BoardInv
  <2> QED BY <2>1, <2>3 DEF q2
<1>8. CASE ~(Full(a) /\ score <= B[M].score)
  <2>1. b = [a EXCEPT !.leaderboard = Raised(B, m, k, entry), !.leaderboard_count = m]
    BY <1>8 DEF update_leaderboard
  <2>2. /\ k \in 1 .. n + 1 /\ (k <= n => score > B[k].score)
        /\ \A r \in 1 .. k - 1 : B[r].score >= score
    BY <1>1, InsertionPointIs
  <2> HIDE DEF k, m
  <2>3. n = M => score > B[M].score
    BY <1>1, <1>8 DEF Full
  <2>4. k \in 1 .. m
    <3>1. CASE m = n + 1
      BY <2>2, <3>1
    <3>2. CASE m # n + 1
      <4>1. n = M /\ m = M /\ score > B[M].score
        BY <1>5, <2>3, <3>2
      <4>2. k # n + 1
        <5> SUFFICES ASSUME k = n + 1 PROVE FALSE
          OBVIOUS
        <5>1. M \in 1 .. k - 1
          BY <1>1, <4>1, EventAssumption DEF Ranks
        <5> QED BY <1>1, <2>2, <4>1, <5>1
      <4> QED BY <1>1, <2>2, <4>1, <4>2
    <3> QED BY <3>1, <3>2
  <2>5. (1 .. m) \ {m} \subseteq Listed(a)
    BY <1>1, <1>4, <1>5
  <2>6. \A r \in Listed(a) \ ((1 .. m) \ {m}) : r = M /\ m = M
    BY <1>1, <1>4, <1>5
  <2>7. m \in Listed(a) => B[m].score <= score
    <3> SUFFICES ASSUME m \in Listed(a) PROVE B[m].score <= score
      OBVIOUS
    <3>1. m = M /\ n = M
      BY <1>1, <1>4, <1>5
    <3> QED BY <1>1, <2>3, <3>1
  <2>8. \A r \in k .. m - 1 : B[r].score <= score
    <3> SUFFICES ASSUME NEW r \in k .. m - 1 PROVE B[r].score <= score
      OBVIOUS
    <3>1. r \in 1 .. n /\ k \in 1 .. n /\ k <= r /\ r \in Ranks /\ k \in Ranks
      BY <1>1, <1>5, <2>4 DEF Ranks
    <3>2. B[k].score \in Nat /\ B[r].score \in Nat /\ score > B[k].score
      BY <1>1, <2>2, <3>1
    <3>3. B[k].score >= B[r].score
      <4>1. CASE r = k
        BY <3>2, <4>1
      <4>2. CASE k < r
        BY <1>2, <1>4, <3>1, <4>2
      <4> QED BY <3>1, <4>1, <4>2
    <3> QED BY <3>2, <3>3
  <2>9. /\ m \in 1 .. m /\ \A r \in m + 1 .. m : B[r].score <= score
        /\ \A r \in (1 .. m) \ {m} : B[r].player # p
    BY <1>3, <1>5, <2>4, <2>5
  <2>10. Fits(a, p, score, m, m, k)
    BY <1>5, <2>2, <2>4, <2>5, <2>6, <2>7, <2>8, <2>9 DEF Fits
  <2>11. b = Filled(a, p, score, m, m, k)
    BY <2>1 DEF Filled
  <2> QED BY <2>10, <2>11, GapFilled
<1> QED BY <1>7, <1>8

\* A score that comes leaves the board true, and nothing else of the event changed.
LEMMA UpdateKeeps ==
  ASSUME NEW a \in EventAccount, NEW q \in [Players -> EventParticipation],
         NEW p \in Players, q[p].open, BoardInv(a, q),
         NEW score \in Nat, score >= q[p].score,
         NEW b, b = update_leaderboard(a, p, score)
  PROVE  /\ b \in EventAccount /\ BoardInv(b, Scored(q, p, score))
         /\ b.status = a.status /\ b.terms = a.terms
         /\ b.prize_remaining = a.prize_remaining
<1>1. b \in EventAccount /\ BoardInv(b, Scored(q, p, score))
  BY ListedScore, UnlistedScore
<1>2. b.status = a.status /\ b.terms = a.terms /\ b.prize_remaining = a.prize_remaining
  BY DEF update_leaderboard, EventAccount
<1> QED BY <1>1, <1>2

-----------------------------------------------------------------------------
(* The pool *)

\* Sums over places and players are of finite sets.
LEMMA FiniteSums ==
  ASSUME NEW a \in EventAccount, NEW got
  PROVE  /\ IsFiniteSet(Ranks) /\ IsFiniteSet(Players) /\ IsFiniteSet(Listed(a))
         /\ IsFiniteSet(Served(a, got)) /\ Served(a, got) \subseteq Listed(a)
<1>1. IsFiniteSet(Ranks)
  BY EventAssumption, FS_Interval DEF Ranks
<1>2. Listed(a) \subseteq Ranks /\ Served(a, got) \subseteq Listed(a)
  BY EventTypes DEF Served
<1> QED BY <1>1, <1>2, EventAssumption, FS_Subset

\* The shares of all places fit into the prize.
LEMMA SharesFitPrize ==
  ASSUME NEW a \in EventAccount
  PROVE  /\ SumOver(Shares(a), Ranks) <= a.terms.prize_amount
         /\ \A r \in Ranks : Shares(a)[r] \in Nat
<1>1. a.terms.prize_amount \in Nat /\ IsFiniteSet(Ranks)
  BY EventTypes, FiniteSums
<1>2. /\ \A r \in Ranks : PRIZE_DISTRIBUTION[r] \in Nat
      /\ SumOver(PRIZE_DISTRIBUTION, Ranks) <= 10000
  BY EventAssumption
<1>3. \A r \in Ranks :
        Shares(a)[r] = (a.terms.prize_amount * PRIZE_DISTRIBUTION[r]) \div 10000
  BY DEF Shares, BaseShare
<1> QED BY <1>1, <1>2, <1>3, BasisPointsFit

\* So do those of the places that are taken.
LEMMA ListedSharesFit ==
  ASSUME NEW a \in EventAccount
  PROVE  SumOver(Shares(a), Listed(a)) <= a.terms.prize_amount
<1> DEFINE f == Shares(a)
           h == [r \in Ranks |-> IF r \in Listed(a) THEN f[r] ELSE 0]
           L == Listed(a)
<1>1. IsFiniteSet(Ranks) /\ IsFiniteSet(L) /\ L \subseteq Ranks
  BY FiniteSums, EventTypes
<1>2. SumOver(f, Ranks) <= a.terms.prize_amount /\ \A r \in Ranks : f[r] \in Nat
  BY SharesFitPrize
<1>3. a.terms.prize_amount \in Nat
  BY EventTypes
<1> HIDE DEF f
<1>4. \A r \in Ranks : h[r] \in Int /\ f[r] \in Int /\ h[r] <= f[r]
  BY <1>2
<1>5. /\ \A r \in L : f[r] = h[r]
      /\ \A r \in Ranks \ L : h[r] = 0
  BY <1>1
<1> HIDE DEF h, L
<1>6. SumOver(f, L) = SumOver(h, L)
  BY <1>1, <1>5, SumAgree
<1>7. SumOver(h, Ranks) = SumOver(h, L)
  BY <1>1, <1>4, <1>5, SumSupport
<1>8. SumOver(h, Ranks) <= SumOver(f, Ranks)
  BY <1>1, <1>4, SumMono
<1>9. SumOver(h, Ranks) \in Int /\ SumOver(f, Ranks) \in Int
  BY <1>1, <1>4, SumInt
<1> QED BY <1>2, <1>3, <1>6, <1>7, <1>8, <1>9 DEF f, L

\* While nobody was paid, the pool is whole and covers all shares.
LEMMA UnpaidCovered ==
  ASSUME NEW a \in EventAccount, NEW got \in [Players -> Nat],
         \A p \in Players : got[p] = 0,
         \A r \in Listed(a) : a.leaderboard[r].player \in Players
  PROVE  /\ SumOver(got, Players) = 0
         /\ a.prize_remaining = a.terms.prize_amount => Covered(a, got)
<1>1. SumOver(got, Players) = 0
  <2>1. SumOver(got, Players) = SumOver(got, {})
    BY FiniteSums, SumSupport
  <2> QED BY <2>1, SumEmpty
<1>2. Served(a, got) = {}
  BY DEF Served
<1>3. Listed(a) \ Served(a, got) = Listed(a)
  BY <1>2
<1>4. SumOver(Extras(a, got), Served(a, got)) = 0
  BY <1>2, SumEmpty
<1>5. a.prize_remaining = a.terms.prize_amount => Covered(a, got)
  <2> DEFINE f == Shares(a)
             x == Extras(a, got)
  <2>1. SumOver(f, Listed(a)) <= a.terms.prize_amount
    BY ListedSharesFit
  <2>2. a.prize_remaining \in Nat
    BY EventTypes
  <2>3. SumOver(f, Listed(a) \ Served(a, got)) <= a.terms.prize_amount
    BY <1>3, <2>1
  <2>4. Covered(a, got) <=> SumOver(f, Listed(a) \ Served(a, got))
                             <= a.prize_remaining + SumOver(x, Served(a, got))
    BY DEF Covered
  <2> HIDE DEF f, x
  <2>5. a.prize_remaining + SumOver(x, Served(a, got)) = a.prize_remaining
    BY <1>4, <2>2 DEF x
  <2> QED BY <2>3, <2>4, <2>5
<1> QED BY <1>1, <1>5

\* A pool that a share was taken from, and what was paid with that share.
Charged(a, share) == [a EXCEPT !.prize_remaining = @ - share]
Credited(got, p, share) == [got EXCEPT ![p] = @ + share]

\* p, who has rank r and was not paid, may be paid a share of the pool.
Payable(a, got, r, p, share) ==
    /\ a \in EventAccount /\ got \in [Players -> Nat] /\ Covered(a, got)
    /\ r \in Listed(a) /\ p \in Players /\ a.leaderboard[r].player = p
    /\ \A s \in Listed(a) \ {r} : a.leaderboard[s].player \in Players \ {p}
    /\ got[p] = 0 /\ share \in Nat \ {0} /\ share <= a.prize_remaining

\* Paying the share of a place out of the pool, whatever bonus is on top, leaves
\* the shares of the others covered.
LEMMA PaidCovered ==
  ASSUME NEW a, NEW got, NEW r, NEW p, NEW share, Payable(a, got, r, p, share)
  PROVE  /\ Charged(a, share) \in EventAccount
         /\ Credited(got, p, share) \in [Players -> Nat]
         /\ SumOver(Credited(got, p, share), Players) = SumOver(got, Players) + share
         /\ Covered(Charged(a, share), Credited(got, p, share))
<1> DEFINE b == Charged(a, share)
           now_got == Credited(got, p, share)
<1> USE DEF Charged, Credited
<1>0. /\ a \in EventAccount /\ got \in [Players -> Nat] /\ Covered(a, got)
      /\ r \in Listed(a) /\ p \in Players /\ a.leaderboard[r].player = p
      /\ \A s \in Listed(a) \ {r} : a.leaderboard[s].player \in Players \ {p}
      /\ got[p] = 0 /\ share \in Nat /\ share > 0 /\ share <= a.prize_remaining
  BY DEF Payable
<1>1. a.prize_remaining \in Nat /\ Listed(a) \subseteq Ranks /\ IsFiniteSet(Listed(a))
  BY <1>0, EventTypes, FiniteSums
<1>2. a.prize_remaining - share \in Nat
  BY <1>0, <1>1
<1>3. /\ b \in EventAccount /\ b.prize_remaining = a.prize_remaining - share
      /\ b.leaderboard = a.leaderboard /\ b.leaderboard_count = a.leaderboard_count
      /\ b.status = a.status /\ b.terms = a.terms
  BY <1>0, <1>2 DEF EventAccount
<1>4. now_got \in [Players -> Nat] /\ now_got[p] = share
      /\ \A x \in Players \ {p} : now_got[x] = got[x]
  BY <1>0
<1> HIDE DEF Charged, Credited
<1>5. Listed(b) = Listed(a)
  BY <1>3 DEF Listed
<1>6. SumOver(now_got, Players) = SumOver(got, Players) + share
  <2>1. \A x \in Players : got[x] \in Int /\ now_got[x] \in Int
    BY <1>0, <1>4
  <2>a. IsFiniteSet(Players)
    BY EventAssumption
  <2>2. SumOver(now_got, Players) = SumOver(got, Players) - got[p] + now_got[p]
    <3>1. \A x \in Players \ {p} : now_got[x] = got[x]
      BY <1>4
    <3>2. \A x \in Players : got[x] \in Int /\ now_got[x] \in Int
      BY <2>1
    <3> QED BY ONLY <1>0, <2>a, <3>1, <3>2, SumChange
  <2>3. SumOver(got, Players) \in Int
    BY <2>1, <2>a, SumInt
  <2> QED BY <1>0, <1>4, <2>2, <2>3
<1> DEFINE L == Listed(a)
           S == Served(a, got)
           T == Served(b, now_got)
           f == Shares(a)
           x == Extras(a, got)
           y == Extras(b, now_got)
<1>7. S \subseteq L /\ r \notin S /\ r \in T /\ T \ {r} = S /\ T \subseteq L
  BY <1>0, <1>3, <1>4, <1>5 DEF Served
<1>8. Shares(b) = f
  BY <1>3 DEF Shares, BaseShare
<1>9. /\ \A s \in S : x[s] = y[s] /\ x[s] \in Int
      /\ \A s \in L : f[s] \in Nat
      /\ y[r] = share - f[r]
  <2>1. \A s \in Ranks : f[s] \in Nat /\ f[s] = BaseShare(a, s) /\ BaseShare(b, s) = f[s]
    <3>1. \A s \in Ranks : f[s] \in Nat
      BY <1>0, SharesFitPrize
    <3>2. \A s \in Ranks : f[s] = BaseShare(a, s)
      BY DEF Shares
    <3>3. \A s \in Ranks : BaseShare(b, s) = BaseShare(a, s)
      BY <1>3 DEF BaseShare
    <3> HIDE DEF f
    <3> QED BY <3>1, <3>2, <3>3
  <2>2. \A s \in Ranks : /\ x[s] = got[a.leaderboard[s].player] - f[s]
                         /\ y[s] = now_got[a.leaderboard[s].player] - f[s]
    BY <1>3, <2>1 DEF Extras
  <2>3. \A s \in S : /\ s \in Ranks /\ a.leaderboard[s].player \in Players \ {p}
    BY <1>0, <1>1, <1>7
  <2> HIDE DEF f, x, y, S
  <2>4. \A s \in S : x[s] = y[s] /\ x[s] \in Int
    BY <1>0, <1>4, <2>1, <2>2, <2>3
  <2> QED BY <1>0, <1>1, <1>4, <2>1, <2>2, <2>4
<1>10. IsFiniteSet(S) /\ IsFiniteSet(T) /\ IsFiniteSet(L \ S)
  BY <1>1, <1>7, FS_Subset
<1>11. SumOver(f, L \ S) <= a.prize_remaining + SumOver(x, S)
  BY <1>0 DEF Covered
<1> HIDE DEF L, S, T, f, x, y
<1>12. SumOver(f, L \ S) = f[r] + SumOver(f, L \ T)
  <2>1. r \in L \ S /\ (L \ S) \ {r} = L \ T
    BY <1>0, <1>7 DEF L
  <2>2. \A s \in L \ S : f[s] \in Int
    BY <1>9
  <2> QED BY <1>10, <2>1, <2>2, SumSplit
<1>13. \A s \in T : y[s] \in Int
  <2>1. f[r] \in Nat /\ \A s \in T : s \in S \/ s = r
    BY <1>0, <1>7, <1>9 DEF L
  <2> QED BY <1>0, <1>9, <2>1
<1>14. SumOver(y, T) = y[r] + SumOver(x, S)
  <2>1. SumOver(y, T) = y[r] + SumOver(y, S)
    <3>1. SumOver(y, T) = y[r] + SumOver(y, T \ {r})
      BY <1>7, <1>10, <1>13, SumSplit
    <3> QED BY <1>7, <3>1
  <2>2. SumOver(x, S) = SumOver(y, S)
    BY <1>9, <1>10, SumAgree
  <2> QED BY <2>1, <2>2
<1>15. SumOver(x, S) \in Int /\ SumOver(f, L \ T) \in Int /\ f[r] \in Nat
  <2>1. IsFiniteSet(L \ T)
    BY <1>1, FS_Subset DEF L
  <2>2. \A s \in L \ T : f[s] \in Int
    BY <1>9
  <2> QED BY <1>9, <1>10, <2>1, <2>2, SumInt, <1>0 DEF L
<1>16. SumOver(f, L \ T) <= b.prize_remaining + SumOver(y, T)
  BY <1>0, <1>1, <1>3, <1>9, <1>11, <1>12, <1>14, <1>15
<1>17. Covered(b, now_got)
  BY <1>5, <1>8, <1>16 DEF Covered, L, T, y
<1> QED BY <1>3, <1>4, <1>5, <1>6, <1>17

-----------------------------------------------------------------------------
(* The inductive invariant *)

\* What holds of an event, of the participations in it and of what it has paid.
EventInv(a, q, got) ==
    /\ a \in EventAccount
    /\ q \in [Players -> EventParticipation]
    /\ got \in [Players -> Nat]
    /\ a.status # "cancelled"
    /\ a.status = "none" => \A p \in Players : ~q[p].open
    /\ \A p \in Players : ~q[p].open => q[p].score = 0
    /\ BoardSorted(a)
    /\ \A r \in Listed(a) :
          LET p == a.leaderboard[r].player
          IN  p \in Players /\ (q[p].open => q[p].score = a.leaderboard[r].score)
    /\ \A p \in Players : q[p].score > 0 /\ RanksOf(a, p) = {} =>
          Full(a) /\ a.leaderboard[MAX_LEADERBOARD].score >= q[p].score
    /\ a.status # "finalized" =>
          \A p \in Players : got[p] = 0 /\ (RanksOf(a, p) # {} => q[p].open)
    /\ \A p \in Players : got[p] > 0 => RanksOf(a, p) # {} /\ ~q[p].open
    /\ \A p \in Players : RanksOf(a, p) # {} /\ ~q[p].open => got[p] > 0
    /\ a.prize_remaining + SumOver(got, Players) = a.terms.prize_amount
    /\ Covered(a, got)

EventsInv == \A e \in Events : EventInv(event[e], participation[e], paid[e])

\* No score passes where additions to it saturate.
ScoresFit == \A e \in Events, p \in Players : participation[e][p].score <= U64Max

IInv == TypeOK /\ EventsInv /\ ScoresFit /\ OneEventAtATime

\* Events with the same board, terms and pool agree on everything about them.
LEMMA SameBoard ==
  ASSUME NEW a, NEW b, b.leaderboard = a.leaderboard,
         b.leaderboard_count = a.leaderboard_count, b.terms = a.terms,
         b.prize_remaining = a.prize_remaining
  PROVE  /\ Listed(b) = Listed(a) /\ Full(b) = Full(a) /\ BoardSorted(b) = BoardSorted(a)
         /\ \A p : RanksOf(b, p) = RanksOf(a, p)
         /\ \A got : Covered(b, got) = Covered(a, got)
<1>1. Listed(b) = Listed(a) /\ Full(b) = Full(a) /\ \A p : RanksOf(b, p) = RanksOf(a, p)
  BY DEF Listed, Full, RanksOf
<1>2. BoardSorted(b) = BoardSorted(a)
  BY <1>1 DEF BoardSorted
<1>3. ASSUME NEW got PROVE Covered(b, got) = Covered(a, got)
  <2>1. Shares(b) = Shares(a) /\ Extras(b, got) = Extras(a, got)
    BY DEF Shares, Extras, BaseShare
  <2>2. Served(b, got) = Served(a, got)
    BY <1>1 DEF Served
  <2> QED BY <1>1, <2>1, <2>2 DEF Covered
<1> QED BY <1>1, <1>2, <1>3

\* An event whose status moves on keeps its invariant.
LEMMA StatusKeeps ==
  ASSUME NEW a, NEW q, NEW got, EventInv(a, q, got),
         NEW b \in EventAccount, b.leaderboard = a.leaderboard,
         b.leaderboard_count = a.leaderboard_count, b.terms = a.terms,
         b.prize_remaining = a.prize_remaining,
         b.status \notin {"none", "cancelled"},
         b.status # "finalized" => a.status # "finalized"
  PROVE  EventInv(b, q, got)
<1>1. /\ Listed(b) = Listed(a) /\ Full(b) = Full(a) /\ BoardSorted(b) = BoardSorted(a)
      /\ \A p : RanksOf(b, p) = RanksOf(a, p)
      /\ Covered(b, got) = Covered(a, got)
  BY SameBoard
<1> QED BY <1>1 DEF EventInv

\* A new event has nobody on its board and its whole prize.
LEMMA NewKeeps ==
  ASSUME NEW a, NEW q, NEW got, EventInv(a, q, got), a.status = "none",
         NEW offer \in Offer
  PROVE  EventInv(NewEvent("pending", offer), q, got)
<1> DEFINE b == NewEvent("pending", offer)
<1>1. b \in EventAccount /\ b.status = "pending" /\ b.leaderboard_count = 0
      /\ b.prize_remaining = b.terms.prize_amount
  <2>1. NoEntry \in Entry /\ offer.prize_amount \in Nat
    BY DEF NoEntry, Entry, Offer
  <2> QED BY <2>1, EventAssumption DEF NewEvent, EventAccount, Status
<1>2. /\ q \in [Players -> EventParticipation] /\ got \in [Players -> Nat]
      /\ \A p \in Players : ~q[p].open /\ q[p].score = 0 /\ got[p] = 0
  BY DEF EventInv
<1> HIDE DEF b
<1>3. Listed(b) = {} /\ \A p : RanksOf(b, p) = {}
  BY <1>1 DEF Listed, RanksOf
<1>4. SumOver(got, Players) = 0 /\ Covered(b, got)
  BY <1>1, <1>2, <1>3, UnpaidCovered
<1>5. b.prize_remaining + SumOver(got, Players) = b.terms.prize_amount
  BY <1>1, <1>4, EventTypes
<1> QED BY <1>1, <1>2, <1>3, <1>4, <1>5 DEF EventInv, BoardSorted, b

\* Who joins has no score and is not listed.
LEMMA JoinKeeps ==
  ASSUME NEW a, NEW q, NEW got, EventInv(a, q, got),
         a.status \in {"pending", "active"}, NEW p \in Players, ~q[p].open
  PROVE  EventInv(a, [q EXCEPT ![p] = [open |-> TRUE, score |-> 0]], got)
<1> DEFINE q2 == [q EXCEPT ![p] = [open |-> TRUE, score |-> 0]]
<1>1. q2 \in [Players -> EventParticipation]
  BY DEF EventInv, EventParticipation
<1>2. q2[p].open /\ q2[p].score = 0 /\ \A x \in Players \ {p} : q2[x] = q[x]
  BY DEF EventInv
<1>3. RanksOf(a, p) = {} /\ got[p] = 0
  BY DEF EventInv
<1>4. \A r \in Listed(a) : a.leaderboard[r].player # p
  BY <1>3 DEF RanksOf
<1> HIDE DEF q2
<1> QED BY <1>1, <1>2, <1>3, <1>4 DEF EventInv, q2

\* A score keeps the invariant of an event that is under way.
LEMMA ScoreKeeps ==
  ASSUME NEW a, NEW q, NEW got, EventInv(a, q, got), a.status = "active",
         NEW p \in Players, q[p].open, NEW score \in Nat, score >= q[p].score
  PROVE  EventInv(update_leaderboard(a, p, score), Scored(q, p, score), got)
<1> DEFINE b == update_leaderboard(a, p, score)
           q2 == Scored(q, p, score)
<1>1. /\ a \in EventAccount /\ q \in [Players -> EventParticipation]
      /\ got \in [Players -> Nat] /\ \A x \in Players : got[x] = 0
  BY DEF EventInv
<1>2. BoardInv(a, q)
  <2>1. \A r \in Listed(a) : RanksOf(a, a.leaderboard[r].player) # {}
    BY DEF RanksOf
  <2> QED BY <2>1 DEF EventInv, BoardInv
<1>3. /\ b \in EventAccount /\ BoardInv(b, q2) /\ b.status = "active"
      /\ b.terms = a.terms /\ b.prize_remaining = a.prize_remaining
  BY <1>1, <1>2, UpdateKeeps
<1>4. /\ q2 \in [Players -> EventParticipation] /\ q2[p].open
      /\ \A x \in Players \ {p} : q2[x] = q[x]
  BY <1>1 DEF Scored, EventParticipation
<1> HIDE DEF b, q2
<1>5. \A x \in Players : RanksOf(b, x) # {} => q2[x].open
  BY <1>3 DEF BoardInv, RanksOf
<1>6. SumOver(got, Players) = 0
  <2>1. \A r \in Listed(a) : a.leaderboard[r].player \in Players
    BY <1>2 DEF BoardInv
  <2> QED BY <1>1, <2>1, UnpaidCovered
<1>7. b.prize_remaining + SumOver(got, Players) = b.terms.prize_amount
  BY <1>3 DEF EventInv
<1>8. Covered(b, got)
  <2>1. \A r \in Listed(b) : b.leaderboard[r].player \in Players
    BY <1>3 DEF BoardInv
  <2>2. b.prize_remaining = b.terms.prize_amount
    BY <1>3, <1>6, <1>7, EventTypes
  <2> QED BY <1>1, <1>3, <2>1, <2>2, UnpaidCovered
<1>9. \A x \in Players : ~q2[x].open => q2[x].score = 0
  BY <1>4 DEF EventInv
<1>10. /\ BoardSorted(b)
       /\ \A r \in Listed(b) :
             LET x == b.leaderboard[r].player
             IN  x \in Players /\ q2[x].score = b.leaderboard[r].score
       /\ \A x \in Players : q2[x].score > 0 /\ RanksOf(b, x) = {} =>
             Full(b) /\ b.leaderboard[MAX_LEADERBOARD].score >= q2[x].score
  BY <1>3 DEF BoardInv
<1>11. EventInv(b, q2, got)
  BY <1>1, <1>3, <1>4, <1>5, <1>7, <1>8, <1>9, <1>10 DEF EventInv
<1> QED BY <1>11 DEF b, q2

\* Who is not listed may leave a finalized event.
LEMMA LeaveKeeps ==
  ASSUME NEW a, NEW q, NEW got, EventInv(a, q, got), a.status = "finalized",
         NEW p \in Players, RanksOf(a, p) = {}
  PROVE  EventInv(a, [q EXCEPT ![p] = NoParticipation], got)
<1> DEFINE q2 == [q EXCEPT ![p] = NoParticipation]
<1>1. q2 \in [Players -> EventParticipation]
  BY DEF EventInv, EventParticipation, NoParticipation
<1>2. ~q2[p].open /\ q2[p].score = 0 /\ \A x \in Players \ {p} : q2[x] = q[x]
  BY DEF EventInv, NoParticipation
<1>3. \A r \in Listed(a) : a.leaderboard[r].player # p
  BY DEF RanksOf
<1> HIDE DEF q2
<1> QED BY <1>1, <1>2, <1>3 DEF EventInv, q2

\* Who is listed and takes part is paid from the pool, and then takes part no more.
LEMMA ClaimKeeps ==
  ASSUME NEW a, NEW q, NEW got, EventInv(a, q, got), a.status = "finalized",
         NEW p \in Players, q[p].open, RanksOf(a, p) # {},
         NEW share \in Nat, share > 0, share <= a.prize_remaining
  PROVE  EventInv(Charged(a, share), [q EXCEPT ![p] = NoParticipation],
                  Credited(got, p, share))
<1> DEFINE r == find_rank(a, p)
           b == Charged(a, share)
           q2 == [q EXCEPT ![p] = NoParticipation]
           now_got == Credited(got, p, share)
<1>1. /\ a \in EventAccount /\ q \in [Players -> EventParticipation]
      /\ got \in [Players -> Nat] /\ Covered(a, got) /\ got[p] = 0
      /\ a.prize_remaining + SumOver(got, Players) = a.terms.prize_amount
  BY DEF EventInv
<1>2. r \in Listed(a) /\ a.leaderboard[r].player = p
  BY <1>1, RankFound
<1> HIDE DEF r
<1>3. \A s \in Listed(a) \ {r} : a.leaderboard[s].player \in Players \ {p}
  <2> SUFFICES ASSUME NEW s \in Listed(a) \ {r}
               PROVE  a.leaderboard[s].player \in Players \ {p}
    OBVIOUS
  <2>0. Listed(a) \subseteq Nat
    BY <1>1, EventTypes
  <2>1. s < r \/ r < s
    BY <1>2, <2>0
  <2>2. a.leaderboard[s].player # a.leaderboard[r].player
    BY <1>2, <2>1 DEF EventInv, BoardSorted
  <2> QED BY <1>2, <2>2 DEF EventInv
<1>a. Payable(a, got, r, p, share)
  BY <1>1, <1>2, <1>3 DEF Payable
<1>b. /\ b \in EventAccount /\ now_got \in [Players -> Nat]
      /\ SumOver(now_got, Players) = SumOver(got, Players) + share
      /\ Covered(b, now_got)
  BY <1>a, PaidCovered
<1>4. /\ b \in EventAccount /\ now_got \in [Players -> Nat]
      /\ b.prize_remaining = a.prize_remaining - share
      /\ Listed(b) = Listed(a) /\ b.leaderboard = a.leaderboard
      /\ b.leaderboard_count = a.leaderboard_count
      /\ b.status = a.status /\ b.terms = a.terms
      /\ SumOver(now_got, Players) = SumOver(got, Players) + share
      /\ Covered(b, now_got)
  BY <1>1, <1>b DEF EventAccount, Charged, Listed
<1>5. \A x : RanksOf(b, x) = RanksOf(a, x)
  BY <1>4 DEF RanksOf
<1>6. (Full(b) <=> Full(a)) /\ (BoardSorted(b) <=> BoardSorted(a))
  BY <1>4 DEF Full, BoardSorted
<1>7. b.prize_remaining + SumOver(now_got, Players) = b.terms.prize_amount
  <2>1. SumOver(got, Players) \in Int
    BY <1>1, EventAssumption, SumInt
  <2>2. a.prize_remaining \in Int
    BY <1>1, EventTypes
  <2> DEFINE sum == SumOver(got, Players)
  <2> HIDE DEF sum, b, now_got
  <2> QED BY <1>1, <1>4, <2>1, <2>2 DEF sum
<1>8. /\ q2 \in [Players -> EventParticipation]
      /\ ~q2[p].open /\ q2[p].score = 0 /\ \A x \in Players \ {p} : q2[x] = q[x]
  BY <1>1 DEF EventParticipation, NoParticipation
<1>9. now_got[p] > 0 /\ \A x \in Players \ {p} : now_got[x] = got[x]
  BY <1>1 DEF Credited
<1> HIDE DEF b, q2, now_got
<1>10. EventInv(b, q2, now_got)
  BY <1>4, <1>5, <1>6, <1>7, <1>8, <1>9 DEF EventInv
<1> QED BY <1>10 DEF b, q2, now_got

-----------------------------------------------------------------------------
(* Every step keeps the inductive invariant *)

\* A step that leaves all events but e as they are.
Moves(e, x, y, z) ==
    /\ event' = [event EXCEPT ![e] = x]
    /\ participation' = [participation EXCEPT ![e] = y]
    /\ paid' = [paid EXCEPT ![e] = z]

\* It keeps the invariant of all events if it keeps that of e.
LEMMA MovesKeeps ==
  ASSUME TypeOK, EventsInv, NEW e \in Events, NEW x, NEW y, NEW z,
         Moves(e, x, y, z), EventInv(x, y, z)
  PROVE  /\ EventsInv'
         /\ event' \in [Events -> EventAccount]
         /\ participation' \in [Events -> [Players -> EventParticipation]]
         /\ paid' \in [Events -> [Players -> Nat]]
<1>1. /\ x \in EventAccount /\ y \in [Players -> EventParticipation]
      /\ z \in [Players -> Nat]
  BY DEF EventInv
<1>2. /\ event' \in [Events -> EventAccount]
      /\ participation' \in [Events -> [Players -> EventParticipation]]
      /\ paid' \in [Events -> [Players -> Nat]]
  BY <1>1 DEF Moves, TypeOK
<1>3. ASSUME NEW d \in Events
      PROVE  EventInv(event'[d], participation'[d], paid'[d])
  <2>1. CASE d = e
    <3>1. event'[d] = x /\ participation'[d] = y /\ paid'[d] = z
      BY <2>1 DEF Moves, TypeOK
    <3> QED BY <3>1
  <2>2. CASE d # e
    <3>1. event'[d] = event[d] /\ participation'[d] = participation[d] /\ paid'[d] = paid[d]
      BY <2>2 DEF Moves, TypeOK
    <3> QED BY <3>1 DEF EventsInv
  <2> QED BY <2>1, <2>2
<1> QED BY <1>2, <1>3 DEF EventsInv

\* Seats depend on who takes part, on current_event and on the payments only.
LEMMA SeatsKeep ==
  ASSUME OneEventAtATime, current_event' = current_event, paid' = paid,
         \A e \in Events, p \in Players :
             participation'[e][p].open = participation[e][p].open,
         current_event \in [Players -> Events \cup {0}]
  PROVE  OneEventAtATime'
<1> SUFFICES ASSUME NEW p \in Players
             PROVE  /\ (\A e \in Events : e = 0 => paid[e][p] = 0)
                          => \A e \in Events \ {0} :
                                participation'[e][p].open <=> current_event[p] = e
                    /\ current_event[p] # 0 => participation'[current_event[p]][p].open
  BY DEF OneEventAtATime
<1>1. current_event[p] # 0 => current_event[p] \in Events
  OBVIOUS
<1> QED BY <1>1 DEF OneEventAtATime

\* In the first state there is no event.
LEMMA InitIInv == Init => IInv
<1> SUFFICES ASSUME Init PROVE IInv
  OBVIOUS
<1> DEFINE a == NewEvent("none", NoOffer)
           q == [p \in Players |-> NoParticipation]
           got == [p \in Players |-> 0]
<1>1. /\ a \in EventAccount /\ a.status = "none" /\ a.leaderboard_count = 0
      /\ a.prize_remaining = 0 /\ a.terms.prize_amount = 0
  <2>1. NoEntry \in Entry /\ NoOffer \in Offer
    BY DEF NoEntry, Entry, NoOffer, Offer
  <2>2. NoOffer.prize_amount = 0
    BY DEF NoOffer
  <2> QED BY <2>1, <2>2, EventAssumption DEF NewEvent, EventAccount, Status
<1>2. /\ q \in [Players -> EventParticipation] /\ got \in [Players -> Nat]
      /\ \A p \in Players : ~q[p].open /\ q[p].score = 0 /\ got[p] = 0
  BY DEF NoParticipation, EventParticipation
<1> HIDE DEF a, q, got
<1>3. Listed(a) = {} /\ \A p : RanksOf(a, p) = {}
  BY <1>1 DEF Listed, RanksOf
<1>4. SumOver(got, Players) = 0 /\ Covered(a, got)
  BY <1>1, <1>2, <1>3, UnpaidCovered
<1>5. a.prize_remaining + SumOver(got, Players) = a.terms.prize_amount
  BY <1>1, <1>4
<1>6. EventInv(a, q, got)
  BY <1>1, <1>2, <1>3, <1>4, <1>5 DEF EventInv, BoardSorted
<1>7. /\ event = [e \in Events |-> a] /\ participation = [e \in Events |-> q]
      /\ paid = [e \in Events |-> got] /\ current_event = [p \in Players |-> 0]
      /\ now = 0
  BY DEF Init, a, q, got
<1>8. TypeOK
  BY <1>1, <1>2, <1>7, EventAssumption DEF TypeOK
<1>9. EventsInv
  BY <1>6, <1>7 DEF EventsInv
<1>10. ScoresFit
  BY <1>2, <1>7, EventAssumption DEF ScoresFit
<1>11. OneEventAtATime
  BY <1>2, <1>7 DEF OneEventAtATime
<1> QED BY <1>8, <1>9, <1>10, <1>11 DEF IInv

\* The DAO announces an event.
LEMMA CreateIInv ==
  ASSUME IInv, NEW e \in Events, NEW offer \in Offers, Create(e, offer)
  PROVE  IInv'
<1> DEFINE x == NewEvent("pending", offer)
<1>1. EventInv(event[e], participation[e], paid[e]) /\ offer \in Offer
  BY EventAssumption DEF IInv, EventsInv
<1>2. EventInv(x, participation[e], paid[e])
  BY <1>1, NewKeeps DEF Create
<1> HIDE DEF x
<1>3. Moves(e, x, participation[e], paid[e])
  BY DEF Create, Moves, IInv, TypeOK, x
<1>4. /\ EventsInv' /\ event' \in [Events -> EventAccount]
  BY <1>2, <1>3, MovesKeeps DEF IInv
<1>5. TypeOK'
  BY <1>4 DEF Create, IInv, TypeOK
<1>6. OneEventAtATime' /\ ScoresFit'
  BY SeatsKeep DEF Create, IInv, TypeOK, ScoresFit
<1> QED BY <1>4, <1>5, <1>6 DEF IInv

\* An event that is due becomes active.
LEMMA ActivatedKeeps ==
  ASSUME NEW a, NEW q, NEW got, EventInv(a, q, got)
  PROVE  /\ EventInv(Activated(a), q, got)
         /\ Activated(a).terms = a.terms
         /\ Activated(a).status = IF Due(a) THEN "active" ELSE a.status
         /\ Due(a) => a.status = "pending"
<1>1. a \in EventAccount
  BY DEF EventInv
<1>2. CASE Due(a)
  <2> DEFINE b == Activated(a)
  <2>1. /\ b \in EventAccount /\ b.leaderboard = a.leaderboard
        /\ b.leaderboard_count = a.leaderboard_count /\ b.terms = a.terms
        /\ b.prize_remaining = a.prize_remaining /\ b.status = "active"
        /\ a.status = "pending"
    BY <1>1, <1>2 DEF Activated, EventAccount, Status, Due
  <2> HIDE DEF b
  <2>2. EventInv(b, q, got)
    BY <2>1, StatusKeeps
  <2> QED BY <1>2, <2>1, <2>2 DEF b
<1>3. CASE ~Due(a)
  BY <1>3 DEF Activated
<1> QED BY <1>2, <1>3

\* A player joins an event.
LEMMA JoinIInv ==
  ASSUME IInv, NEW e \in Events, NEW p \in Players, Join(e, p)
  PROVE  IInv'
<1> DEFINE a == event[e]
           b == Activated(a)
           x == Joined(a)
           y == [participation[e] EXCEPT ![p] = [open |-> TRUE, score |-> 0]]
<1>1. EventInv(a, participation[e], paid[e])
  BY DEF IInv, EventsInv
<1>2. /\ EventInv(b, participation[e], paid[e])
      /\ b.status \in {"pending", "active"}
  BY <1>1, ActivatedKeeps DEF Join
<1>3. /\ x \in EventAccount /\ x.leaderboard = b.leaderboard
      /\ x.leaderboard_count = b.leaderboard_count /\ x.terms = b.terms
      /\ x.prize_remaining = b.prize_remaining /\ x.status = b.status
  <2>0. x = [b EXCEPT !.participant_count = Least(@ + 1, U32Max)]
    BY DEF Joined
  <2> HIDE DEF a, b, x
  <2>1. b \in EventAccount
    BY <1>2 DEF EventInv
  <2>2. b.participant_count \in 0 .. U32Max
    BY <2>1 DEF EventAccount
  <2>3. Least(b.participant_count + 1, U32Max) \in 0 .. U32Max
    BY <2>2, EventAssumption DEF Least
  <2> QED BY <2>0, <2>1, <2>3 DEF EventAccount
<1>4. Moves(e, x, y, paid[e])
  <2>1. event' = [event EXCEPT ![e] = x]
    BY DEF Join
  <2>2. participation' = [participation EXCEPT ![e] = y]
    BY DEF Join, IInv, TypeOK
  <2>3. paid' = [paid EXCEPT ![e] = paid[e]]
    BY DEF Join, IInv, TypeOK
  <2> QED BY <2>1, <2>2, <2>3 DEF Moves
<1>5. ~participation[e][p].open /\ current_event[p] = 0
  BY DEF Join
<1> HIDE DEF a, b, x
<1>6. EventInv(x, participation[e], paid[e])
  BY <1>2, <1>3, StatusKeeps
<1>7. EventInv(x, y, paid[e])
  BY <1>2, <1>3, <1>5, <1>6, JoinKeeps
<1> HIDE DEF y
<1>8. /\ EventsInv' /\ event' \in [Events -> EventAccount]
      /\ participation' \in [Events -> [Players -> EventParticipation]]
  BY <1>4, <1>7, MovesKeeps DEF IInv
<1>9. TypeOK'
  BY <1>8 DEF Join, IInv, TypeOK
<1>10. /\ participation'[e][p] = [open |-> TRUE, score |-> 0]
       /\ \A d \in Events, o \in Players :
             d # e \/ o # p => participation'[d][o] = participation[d][o]
  BY DEF Join, IInv, TypeOK
<1>11. current_event' = [current_event EXCEPT ![p] = e] /\ paid' = paid
  BY DEF Join
<1>12. ScoresFit'
  BY <1>10, EventAssumption DEF IInv, ScoresFit
<1>13. OneEventAtATime'
  <2> SUFFICES ASSUME NEW o \in Players
               PROVE  /\ (\A d \in Events : d = 0 => paid[d][o] = 0)
                            => \A d \in Events \ {0} :
                                  participation'[d][o].open <=> current_event'[o] = d
                      /\ current_event'[o] # 0 => participation'[current_event'[o]][o].open
    BY <1>11 DEF OneEventAtATime
  <2>1. current_event \in [Players -> Events \cup {0}]
    BY DEF IInv, TypeOK
  <2>2. /\ (\A d \in Events : d = 0 => paid[d][o] = 0)
              => \A d \in Events \ {0} : participation[d][o].open <=> current_event[o] = d
        /\ current_event[o] # 0 => participation[current_event[o]][o].open
    BY DEF IInv, OneEventAtATime
  <2>3. CASE o = p
    BY <1>5, <1>10, <1>11, <2>1, <2>2, <2>3
  <2>4. CASE o # p
    BY <1>10, <1>11, <2>1, <2>2, <2>4
  <2> QED BY <2>3, <2>4
<1> QED BY <1>8, <1>9, <1>12, <1>13 DEF IInv

\* Who leaves an event or is paid by it: no other player is concerned, and of
\* this one's participations only that in e.
LEMMA SeatFreed ==
  ASSUME IInv, NEW e \in Events, NEW p \in Players,
         participation[e][p].open, current_event[p] = e \/ paid'[e][p] > 0,
         current_event' = [current_event EXCEPT ![p] = 0],
         participation' = [participation EXCEPT ![e][p] = NoParticipation],
         \A d \in Events, o \in Players :
             d # e \/ o # p => paid'[d][o] = paid[d][o],
         current_event[p] = e => paid'[e][p] >= paid[e][p]
  PROVE  /\ OneEventAtATime' /\ ScoresFit'
         /\ current_event' \in [Players -> Events \cup {0}]
<1>1. /\ ~participation'[e][p].open /\ participation'[e][p].score = 0
      /\ \A d \in Events, o \in Players :
            d # e \/ o # p => participation'[d][o] = participation[d][o]
  BY DEF IInv, TypeOK, NoParticipation
<1>2. /\ current_event \in [Players -> Events \cup {0}]
      /\ paid \in [Events -> [Players -> Nat]]
  BY DEF IInv, TypeOK
<1>3. ScoresFit'
  BY <1>1, EventAssumption DEF IInv, ScoresFit
<1>4. ASSUME NEW o \in Players
      PROVE  /\ (\A d \in Events : d = 0 => paid'[d][o] = 0)
                   => \A d \in Events \ {0} :
                         participation'[d][o].open <=> current_event'[o] = d
             /\ current_event'[o] # 0 => participation'[current_event'[o]][o].open
  <2>1. /\ (\A d \in Events : d = 0 => paid[d][o] = 0)
              => \A d \in Events \ {0} : participation[d][o].open <=> current_event[o] = d
        /\ current_event[o] # 0 => participation[current_event[o]][o].open
    BY DEF IInv, OneEventAtATime
  <2>2. CASE o = p
    <3>1. current_event'[o] = 0
      BY <1>2, <2>2
    <3>2. ASSUME \A d \in Events : d = 0 => paid'[d][o] = 0, NEW d \in Events \ {0}
          PROVE  ~participation'[d][o].open
      <4>1. CASE e = 0
        <5>1. paid'[e][p] = 0
          BY <2>2, <3>2, <4>1
        <5>2. current_event[p] = e /\ paid[e][p] \in Nat
          BY <1>2, <5>1
        <5>3. paid[e][p] = 0
          BY <5>1, <5>2
        <5>4. \A c \in Events : c = 0 => paid[c][o] = 0
          BY <2>2, <4>1, <5>3
        <5> QED BY <1>1, <2>1, <2>2, <4>1, <5>2, <5>4
      <4>2. CASE e # 0
        <5>1. \A c \in Events : c = 0 => paid[c][o] = 0
          BY <3>2, <4>2
        <5>2. current_event[o] = e
          BY <2>1, <2>2, <4>2, <5>1
        <5> QED BY <1>1, <2>1, <2>2, <5>1, <5>2
      <4> QED BY <4>1, <4>2
    <3> QED BY <3>1, <3>2
  <2>3. CASE o # p
    <3>1. /\ \A d \in Events : /\ participation'[d][o] = participation[d][o]
                               /\ paid'[d][o] = paid[d][o]
          /\ current_event'[o] = current_event[o]
      BY <1>1, <1>2, <2>3
    <3>2. current_event[o] # 0 => current_event[o] \in Events
      BY <1>2
    <3> QED BY <2>1, <3>1, <3>2
  <2> QED BY <2>2, <2>3
<1>5. OneEventAtATime'
  BY <1>4 DEF OneEventAtATime
<1> QED BY <1>2, <1>3, <1>5

\* Who is not listed leaves a finalized event.
LEMMA LeaveIInv ==
  ASSUME IInv, NEW e \in Events, NEW p \in Players, Leave(e, p)
  PROVE  IInv'
<1> DEFINE y == [participation[e] EXCEPT ![p] = NoParticipation]
<1>1. EventInv(event[e], participation[e], paid[e])
  BY DEF IInv, EventsInv
<1>2. event[e].status = "finalized" /\ RanksOf(event[e], p) = {}
  BY <1>1 DEF Leave, EventInv
<1>3. EventInv(event[e], y, paid[e])
  BY <1>1, <1>2, LeaveKeeps
<1>4. Moves(e, event[e], y, paid[e])
  <2>1. event' = [event EXCEPT ![e] = event[e]] /\ paid' = [paid EXCEPT ![e] = paid[e]]
    BY DEF Leave, IInv, TypeOK
  <2>2. participation' = [participation EXCEPT ![e] = y]
    BY DEF Leave, IInv, TypeOK
  <2> QED BY <2>1, <2>2 DEF Moves
<1> HIDE DEF y
<1>5. /\ EventsInv' /\ event' \in [Events -> EventAccount]
      /\ participation' \in [Events -> [Players -> EventParticipation]]
  BY <1>3, <1>4, MovesKeeps DEF IInv
<1>6. paid[e][p] \in Nat
  BY DEF IInv, TypeOK
<1>7. /\ OneEventAtATime' /\ ScoresFit'
      /\ current_event' \in [Players -> Events \cup {0}]
  <2>1. /\ participation[e][p].open /\ current_event[p] = e /\ paid' = paid
        /\ current_event' = [current_event EXCEPT ![p] = 0]
        /\ participation' = [participation EXCEPT ![e][p] = NoParticipation]
    BY DEF Leave
  <2>2. \A d \in Events, o \in Players : d # e \/ o # p => paid'[d][o] = paid[d][o]
    BY <2>1
  <2>3. paid'[e][p] >= paid[e][p]
    BY <1>6, <2>1
  <2> QED BY <2>1, <2>2, <2>3, SeatFreed
<1>8. TypeOK'
  BY <1>5, <1>7 DEF Leave, IInv, TypeOK
<1> QED BY <1>5, <1>7, <1>8 DEF IInv

\* A score never falls and never passes where it saturates.
LEMMA NewScoreFits ==
  ASSUME NEW a, NEW score \in 0 .. U64Max, NEW value \in Scores
  PROVE  NewScore(a, score, value) \in score .. U64Max
<1>1. value \in 0 .. U64Max /\ U64Max \in Nat
  BY EventAssumption
<1> QED BY <1>1 DEF NewScore, Least

\* A game action scores, or only activates the event.
LEMMA ScoreIInv ==
  ASSUME IInv, NEW p \in Players, NEW value \in Scores, NEW counts \in BOOLEAN,
         Score(p, value, counts)
  PROVE  IInv'
<1> DEFINE e == current_event[p]
           a == event[e]
           b == Activated(a)
           q == participation[e]
           score == NewScore(a, q[p].score, value)
           x == update_leaderboard(b, p, score)
           y == [q EXCEPT ![p].score = score]
<1>1. /\ e \in Events /\ q[p].open /\ CanScore(a)
      /\ current_event' = current_event /\ paid' = paid /\ now' = now
  BY DEF Score
<1>2. EventInv(a, q, paid[e]) /\ q \in [Players -> EventParticipation]
  BY <1>1 DEF IInv, EventsInv, EventInv
<1>3. EventInv(b, q, paid[e]) /\ b.status = "active"
  BY <1>1, <1>2, ActivatedKeeps DEF CanScore
<1>4. score \in q[p].score .. U64Max /\ q[p].score \in Nat
  <2>1. q[p].score \in Nat
    BY <1>2 DEF EventParticipation
  <2>2. q[p].score <= U64Max
    BY <1>1 DEF IInv, ScoresFit
  <2>3. q[p].score \in 0 .. U64Max
    BY <2>1, <2>2, EventAssumption
  <2> QED BY <2>1, <2>3, NewScoreFits
<1>5. y = Scored(q, p, score)
  BY DEF Scored
<1>6. CASE counts /\ a.terms.start_time <= now
  <2>1. event' = [event EXCEPT ![e] = x]
    BY <1>6 DEF Score
  <2>2. participation' = [participation EXCEPT ![e] = y]
    BY <1>1, <1>6 DEF Score, IInv, TypeOK
  <2>3. paid' = [paid EXCEPT ![e] = paid[e]]
    BY <1>1 DEF IInv, TypeOK
  <2> HIDE DEF a, b, q, score, x
  <2>4. score \in Nat /\ score >= q[p].score /\ score <= U64Max
    BY <1>4, EventAssumption
  <2>5. EventInv(x, y, paid[e])
    <3> HIDE DEF y
    <3>1. EventInv(x, Scored(q, p, score), paid[e])
      BY <1>1, <1>3, <2>4, ScoreKeeps DEF x
    <3> QED BY <1>5, <3>1
  <2>6. /\ \A o \in Players \ {p} : y[o] = q[o]
        /\ y[p].open = q[p].open /\ y[p].score = score
    BY <1>2 DEF EventParticipation
  <2> HIDE DEF y, e
  <2>7. Moves(e, x, y, paid[e])
    BY <2>1, <2>2, <2>3 DEF Moves
  <2>8. /\ EventsInv' /\ event' \in [Events -> EventAccount]
        /\ participation' \in [Events -> [Players -> EventParticipation]]
    BY <1>1, <2>5, <2>7, MovesKeeps DEF IInv
  <2>9. TypeOK'
    BY <1>1, <2>8 DEF IInv, TypeOK
  <2>10. /\ participation'[e] = y
         /\ \A d \in Events \ {e} : participation'[d] = participation[d]
    BY <1>1, <2>2 DEF IInv, TypeOK
  <2>11. \A d \in Events, o \in Players :
           participation'[d][o].open = participation[d][o].open
    BY <2>6, <2>10 DEF q
  <2>12. ScoresFit'
    <3> SUFFICES ASSUME NEW d \in Events, NEW o \in Players
                 PROVE  participation'[d][o].score <= U64Max
      BY DEF ScoresFit
    <3>1. participation[d][o].score <= U64Max
      BY DEF IInv, ScoresFit
    <3> QED BY <2>4, <2>6, <2>10, <3>1 DEF q
  <2>13. OneEventAtATime'
    BY <1>1, <2>11, SeatsKeep DEF IInv, TypeOK
  <2> QED BY <2>8, <2>9, <2>12, <2>13 DEF IInv
<1>7. CASE ~(counts /\ a.terms.start_time <= now)
  <2>1. event' = [event EXCEPT ![e] = b] /\ participation' = participation
    BY <1>7 DEF Score
  <2>2. /\ participation' = [participation EXCEPT ![e] = q]
        /\ paid' = [paid EXCEPT ![e] = paid[e]]
    BY <1>1, <2>1 DEF IInv, TypeOK
  <2> HIDE DEF a, b, q, e
  <2>3. Moves(e, b, q, paid[e])
    BY <2>1, <2>2 DEF Moves
  <2>4. EventsInv' /\ event' \in [Events -> EventAccount]
    BY <1>1, <1>3, <2>3, MovesKeeps DEF IInv
  <2>5. TypeOK'
    BY <1>1, <2>1, <2>4 DEF IInv, TypeOK
  <2>6. OneEventAtATime' /\ ScoresFit'
    BY <1>1, <2>1, SeatsKeep DEF IInv, TypeOK, ScoresFit
  <2> QED BY <2>4, <2>5, <2>6 DEF IInv
<1> QED BY <1>6, <1>7

\* An event is closed once its window is over.
LEMMA FinalizeIInv ==
  ASSUME IInv, NEW e \in Events, Finalize(e)
  PROVE  IInv'
<1> DEFINE x == [event[e] EXCEPT !.status = "finalized"]
<1>1. EventInv(event[e], participation[e], paid[e]) /\ event[e] \in EventAccount
  BY DEF IInv, EventsInv, EventInv
<1>2. /\ x \in EventAccount /\ x.leaderboard = event[e].leaderboard
      /\ x.leaderboard_count = event[e].leaderboard_count /\ x.terms = event[e].terms
      /\ x.prize_remaining = event[e].prize_remaining /\ x.status = "finalized"
  BY <1>1 DEF EventAccount, Status
<1>3. Moves(e, x, participation[e], paid[e])
  BY DEF Finalize, Moves, IInv, TypeOK
<1> HIDE DEF x
<1>4. EventInv(x, participation[e], paid[e])
  BY <1>1, <1>2, StatusKeeps
<1>5. EventsInv' /\ event' \in [Events -> EventAccount]
  BY <1>3, <1>4, MovesKeeps DEF IInv
<1>6. TypeOK'
  BY <1>5 DEF Finalize, IInv, TypeOK
<1>7. OneEventAtATime' /\ ScoresFit'
  BY SeatsKeep DEF Finalize, IInv, TypeOK, ScoresFit
<1> QED BY <1>5, <1>6, <1>7 DEF IInv

\* A share that is not refused brings something.
LEMMA ShareIsPositive ==
  ASSUME NEW base \in Nat, base # 0, NEW bonus \in Bonuses
  PROVE  PrizeShare(base, bonus) \in Nat \ {0}
<1>1. bonus \in Nat /\ U64Max \in Nat /\ U64Max >= 10000
  BY EventAssumption
<1> DEFINE product == base * (10000 + bonus)
<1>2. product \in Nat /\ product >= 10000
  <2>1. base * bonus \in Nat
    BY <1>1, ProductNat
  <2>2. product = base * 10000 + base * bonus
    BY <1>1
  <2> HIDE DEF product
  <2> QED BY <2>1, <2>2
<1> HIDE DEF product
<1>3. Least(product, U64Max) \in Nat /\ Least(product, U64Max) >= 10000
  BY <1>1, <1>2 DEF Least
<1>4. Least(product, U64Max) \div 10000 \in Nat \ {0}
  BY <1>3
<1> QED BY <1>4 DEF PrizeShare, product

\* A winner claims.
LEMMA ClaimIInv ==
  ASSUME IInv, NEW e \in Events, NEW p \in Players, NEW bonus \in Bonuses,
         ClaimPrize(e, p, bonus)
  PROVE  IInv'
<1> DEFINE a == event[e]
           base == BaseShare(a, find_rank(a, p))
           share == PrizeShare(base, bonus)
           x == Charged(a, share)
           y == [participation[e] EXCEPT ![p] = NoParticipation]
           z == Credited(paid[e], p, share)
<1>1. EventInv(a, participation[e], paid[e]) /\ a \in EventAccount
  BY DEF IInv, EventsInv, EventInv
<1>2. /\ participation[e][p].open /\ a.status = "finalized" /\ RanksOf(a, p) # {}
      /\ base # 0 /\ share <= a.prize_remaining /\ now' = now
      /\ current_event' = [current_event EXCEPT ![p] = 0]
      /\ participation' = [participation EXCEPT ![e][p] = NoParticipation]
  BY DEF ClaimPrize, Closed
<1>3. share \in Nat /\ share > 0
  <2>1. find_rank(a, p) \in Ranks
    BY <1>1, <1>2, RankFound, EventTypes
  <2>2. Shares(a)[find_rank(a, p)] \in Nat
    BY <1>1, <2>1, SharesFitPrize
  <2>3. base \in Nat
    BY <2>1, <2>2 DEF Shares
  <2> HIDE DEF base
  <2>4. share \in Nat \ {0}
    BY <1>2, <2>3, ShareIsPositive
  <2> HIDE DEF share
  <2> QED BY <2>4
<1>4. Moves(e, x, y, z)
  <2>1. event' = [event EXCEPT ![e] = x]
    BY DEF ClaimPrize, Charged, IInv, TypeOK
  <2>2. participation' = [participation EXCEPT ![e] = y]
    BY <1>2 DEF IInv, TypeOK
  <2>3. paid' = [paid EXCEPT ![e] = z]
    BY DEF ClaimPrize, Credited, IInv, TypeOK
  <2> QED BY <2>1, <2>2, <2>3 DEF Moves
<1> HIDE DEF a, base, share
<1>5. EventInv(x, y, z)
  BY <1>1, <1>2, <1>3, ClaimKeeps
<1>6. z = Credited(paid[e], p, share) /\ paid[e] \in [Players -> Nat]
  BY DEF IInv, TypeOK
<1>7. z[p] > 0 /\ z[p] >= paid[e][p] /\ \A o \in Players \ {p} : z[o] = paid[e][o]
  BY <1>3, <1>6 DEF Credited
<1> HIDE DEF x, y, z
<1>8. /\ EventsInv' /\ event' \in [Events -> EventAccount]
      /\ participation' \in [Events -> [Players -> EventParticipation]]
      /\ paid' \in [Events -> [Players -> Nat]]
  BY <1>4, <1>5, MovesKeeps DEF IInv
<1>9. /\ paid'[e] = z
      /\ \A d \in Events \ {e} : paid'[d] = paid[d]
  BY <1>4 DEF Moves, IInv, TypeOK
<1>10. /\ OneEventAtATime' /\ ScoresFit'
       /\ current_event' \in [Players -> Events \cup {0}]
  <2>1. \A d \in Events, o \in Players : d # e \/ o # p => paid'[d][o] = paid[d][o]
    BY <1>7, <1>9
  <2>2. paid'[e][p] > 0 /\ paid'[e][p] >= paid[e][p]
    BY <1>7, <1>9
  <2> QED BY <1>2, <2>1, <2>2, SeatFreed
<1>11. TypeOK'
  BY <1>2, <1>8, <1>10 DEF IInv, TypeOK
<1> QED BY <1>8, <1>10, <1>11 DEF IInv

\* The clock, and steps that change nothing.
LEMMA TickIInv ==
  ASSUME IInv, Tick \/ UNCHANGED vars
  PROVE  IInv'
<1>1. /\ UNCHANGED <<event, participation, current_event, paid>>
      /\ now' = now \/ (now < MaxTime /\ now' = now + 1)
  BY DEF Tick, vars
<1>2. TypeOK'
  BY <1>1, EventAssumption DEF IInv, TypeOK
<1>3. EventsInv' /\ OneEventAtATime' /\ ScoresFit'
  BY <1>1 DEF IInv, EventsInv, OneEventAtATime, ScoresFit
<1> QED BY <1>2, <1>3 DEF IInv

\* Every step keeps the inductive invariant: one case per action.
LEMMA NextIInv == IInv /\ [Next]_vars => IInv'
<1> SUFFICES ASSUME IInv, [Next]_vars PROVE IInv'
  OBVIOUS
<1>1. CASE \E e \in Events, offer \in Offers : Create(e, offer)
  BY <1>1, CreateIInv
<1>2. CASE \E e \in Events, p \in Players : Join(e, p)
  BY <1>2, JoinIInv
<1>3. CASE \E e \in Events, p \in Players : Leave(e, p)
  BY <1>3, LeaveIInv
<1>4. CASE \E p \in Players, value \in Scores, counts \in BOOLEAN : Score(p, value, counts)
  BY <1>4, ScoreIInv
<1>5. CASE \E e \in Events : Finalize(e)
  BY <1>5, FinalizeIInv
<1>6. CASE \E e \in Events, p \in Players, bonus \in Bonuses : ClaimPrize(e, p, bonus)
  BY <1>6, ClaimIInv
<1>7. CASE Tick \/ UNCHANGED vars
  BY <1>7, TickIInv
<1> QED BY <1>1, <1>2, <1>3, <1>4, <1>5, <1>6, <1>7 DEF Next

\* The inductive invariant says what the properties say.
LEMMA IInvImplies == IInv => TypeOK /\ LeaderboardTrue /\ PrizesInOrder
<1> SUFFICES ASSUME IInv PROVE LeaderboardTrue /\ PrizesInOrder
  BY DEF IInv
<1>1. ASSUME NEW e \in Events
      PROVE  EventInv(event[e], participation[e], paid[e])
  BY DEF IInv, EventsInv
<1>2. ASSUME NEW e \in Events
      PROVE  BoardSorted(event[e]) /\ BoardCurrent(e) /\ BoardBest(e)
  BY <1>1 DEF EventInv, BoardCurrent, BoardBest
<1>3. LeaderboardTrue
  BY <1>2 DEF LeaderboardTrue
<1>4. PaidOnce
  BY <1>1 DEF EventInv, PaidOnce
<1>5. PoolAccounted /\ SharesCovered
  BY <1>1 DEF EventInv, PoolAccounted, SharesCovered
<1> QED BY <1>3, <1>4, <1>5 DEF PrizesInOrder, IInv

-----------------------------------------------------------------------------
(* The theorems *)

\* Events keep their types: a board has at most MAX_LEADERBOARD entries, the
\* count of participants saturates, and no pool falls below zero.
THEOREM TypeCorrect == Spec => []TypeOK
<1>1. IInv => TypeOK
  BY DEF IInv
<1> QED BY <1>1, InitIInv, NextIInv, PTL DEF Spec

\* For any number of events, players and places and any scores, the leaderboard
\* that update_leaderboard keeps entry by entry is the ranking of the
\* participations: sorted, nobody twice, up to date, and nobody left out who has
\* more than the last.
THEOREM LeaderboardCorrect == Spec => []LeaderboardTrue
<1> QED BY IInvImplies, InitIInv, NextIInv, PTL DEF Spec

\* For any pool, distribution and bonuses, in whatever order players enter,
\* leave and claim: one event at a time, no place paid twice, and a pool that
\* covers the shares of all places but for bonuses (join.rs, leave.rs,
\* claim_prize.rs).
THEOREM PrizesCorrect == Spec => []PrizesInOrder
<1> QED BY IInvImplies, InitIInv, NextIInv, PTL DEF Spec

=============================================================================
