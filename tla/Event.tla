-------------------------------- MODULE Event --------------------------------
(***************************************************************************)
(* Timed events of a kingdom: who takes part, the leaderboard of each and  *)
(* its prize pool.  One action per instruction of                          *)
(* programs/novus_mundus/src/processor/event, and one for                  *)
(* update_event_score, which fights, purchases and collections call.       *)
(*                                                                         *)
(* Abstractions.  Level, reputation, subscription and the requirements on  *)
(* a winner's history only restrict who may join or claim.  The four types *)
(* of prize follow the same arithmetic: paid is what a claim brought.  The *)
(* estate of a winner is the bonus of its treasury.  An attack scores for  *)
(* both sides, one call after the other: two steps here.                   *)
(***************************************************************************)
EXTENDS Integers, FiniteSets, Sums

CONSTANTS
    Events,             \* ids of events; 0 is not refused (create.rs)
    Players, Nobody,    \* Nobody is the null address
    Offers,             \* what the DAO may announce
    MAX_LEADERBOARD,    \* places on a leaderboard (10)
    PRIZE_DISTRIBUTION, \* basis points of the pool per place
    Bonuses,            \* basis points that a treasury building may add
    Scores,             \* what one game action is worth
    U32Max, U64Max,     \* where counters saturate
    MaxTime             \* bound on the clock, for TLC

Ranks == 1 .. MAX_LEADERBOARD

Offer ==
    [start_time : Nat, end_time : Nat, auto_activate : BOOLEAN,
     accumulative : BOOLEAN, prize_amount : Nat]

ASSUME EventAssumption ==
    /\ Events \subseteq Nat /\ IsFiniteSet(Players) /\ Nobody \notin Players
    /\ Offers \subseteq Offer
    /\ MAX_LEADERBOARD \in Nat \ {0}
    /\ PRIZE_DISTRIBUTION \in [Ranks -> Nat]
    /\ SumOver(PRIZE_DISTRIBUTION, Ranks) = 10000
    /\ Bonuses \subseteq Nat /\ Scores \subseteq 0 .. U64Max
    /\ U32Max \in Nat /\ U64Max \in Nat /\ U64Max >= 10000 /\ MaxTime \in Nat

VARIABLES
    now,            \* the Clock sysvar
    event,          \* event[e]: the EventAccount with id e
    participation,  \* participation[e][p]: the EventParticipation of p
    current_event,  \* current_event[p]: field of the PlayerAccount, 0 is none
    paid            \* paid[e][p]: what p got from the pool of e

vars == <<now, event, participation, current_event, paid>>

Entry == [player : Players \cup {Nobody}, score : Nat]
NoEntry == [player |-> Nobody, score |-> 0]

Status == {"none", "pending", "active", "finalized", "cancelled"}

EventAccount ==
    [status : Status, terms : Offer,
     leaderboard : [Ranks -> Entry], leaderboard_count : 0 .. MAX_LEADERBOARD,
     prize_remaining : Nat, participant_count : 0 .. U32Max]

NewEvent(status, offer) ==
    [status |-> status, terms |-> offer,
     leaderboard |-> [r \in Ranks |-> NoEntry], leaderboard_count |-> 0,
     prize_remaining |-> offer.prize_amount, participant_count |-> 0]

NoOffer ==
    [start_time |-> 0, end_time |-> 0, auto_activate |-> FALSE,
     accumulative |-> FALSE, prize_amount |-> 0]

EventParticipation == [open : BOOLEAN, score : Nat]
NoParticipation == [open |-> FALSE, score |-> 0]

Least(a, b) == IF a <= b THEN a ELSE b

Init ==
    /\ now = 0
    /\ event = [e \in Events |-> NewEvent("none", NoOffer)]
    /\ participation = [e \in Events |-> [p \in Players |-> NoParticipation]]
    /\ current_event = [p \in Players |-> 0]
    /\ paid = [e \in Events |-> [p \in Players |-> 0]]

-----------------------------------------------------------------------------
(* The leaderboard *)

Listed(a) == 1 .. a.leaderboard_count

RanksOf(a, p) == {r \in Listed(a) : a.leaderboard[r].player = p}

find_rank(a, p) == CHOOSE r \in RanksOf(a, p) : \A s \in RanksOf(a, p) : r <= s

\* The entry at i goes up to k, those that it passes one place down each.
Raised(board, i, k, entry) ==
    [r \in Ranks |-> IF r = k THEN entry
                     ELSE IF k < r /\ r <= i THEN board[r - 1] ELSE board[r]]

\* The entry at i goes down to k, those that it passes one place up each.
Lowered(board, i, k, entry) ==
    [r \in Ranks |-> IF r = k THEN entry
                     ELSE IF i <= r /\ r < k THEN board[r + 1] ELSE board[r]]

\* How far up and down swaps with its neighbours take a new score at i.
HighestSwap(board, i, score) ==
    CHOOSE k \in 1 .. i :
        /\ \A r \in k .. i - 1 : board[r].score < score
        /\ k > 1 => board[k - 1].score >= score

LowestSwap(board, i, count, score) ==
    CHOOSE k \in i .. count :
        /\ \A r \in i + 1 .. k : board[r].score > score
        /\ k < count => board[k + 1].score <= score

\* The first place whose score is lower, or the one after the last.
InsertionPoint(board, count, score) ==
    CHOOSE k \in 1 .. count + 1 :
        /\ k <= count => score > board[k].score
        /\ \A r \in 1 .. k - 1 : board[r].score >= score

\* A mutant of Resorted: the score is written, the entry stays where it is.
WrittenInPlace(a, i, entry) == [a.leaderboard EXCEPT ![i] = entry]

Resorted(a, i, entry) ==
    IF entry.score > a.leaderboard[i].score
    THEN Raised(a.leaderboard, i, HighestSwap(a.leaderboard, i, entry.score), entry)
    ELSE Lowered(a.leaderboard, i,
                 LowestSwap(a.leaderboard, i, a.leaderboard_count, entry.score), entry)

Full(a) == a.leaderboard_count >= MAX_LEADERBOARD

\* Who is listed is moved, who is not is inserted if there is room or who is
\* last has less, and takes the last one's place on a full board.
update_leaderboard(a, p, score) ==
    LET entry == [player |-> p, score |-> score]
        count == a.leaderboard_count
        last == Least(count + 1, MAX_LEADERBOARD)
    IN  IF RanksOf(a, p) # {}
        THEN LET i == find_rank(a, p)
             IN  IF a.leaderboard[i].score = score THEN a
                 ELSE [a EXCEPT !.leaderboard = Resorted(a, i, entry)]
        ELSE IF Full(a) /\ score <= a.leaderboard[MAX_LEADERBOARD].score THEN a
        ELSE [a EXCEPT
                !.leaderboard = Raised(a.leaderboard, last,
                                       InsertionPoint(a.leaderboard, count, score), entry),
                !.leaderboard_count = last]

-----------------------------------------------------------------------------
(* The life of an event *)

Create(e, offer) ==
    /\ event[e].status = "none"
    /\ offer.end_time > offer.start_time
    /\ event' = [event EXCEPT ![e] = NewEvent("pending", offer)]
    /\ UNCHANGED <<now, participation, current_event, paid>>

Due(a) == a.status = "pending" /\ a.terms.start_time <= now /\ a.terms.auto_activate

Activated(a) == IF Due(a) THEN [a EXCEPT !.status = "active"] ELSE a

Joined(a) == [Activated(a) EXCEPT !.participant_count = Least(@ + 1, U32Max)]

Join(e, p) ==
    /\ event[e].status \in {"pending", "active"}
    /\ now < event[e].terms.end_time
    /\ current_event[p] = 0
    /\ ~participation[e][p].open
    /\ participation' = [participation EXCEPT ![e][p] = [open |-> TRUE, score |-> 0]]
    /\ current_event' = [current_event EXCEPT ![p] = e]
    /\ event' = [event EXCEPT ![e] = Joined(@)]
    /\ UNCHANGED <<now, paid>>

\* ensure_event_active
CanScore(a) == now < a.terms.end_time /\ (a.status = "active" \/ Due(a))

NewScore(a, score, value) ==
    IF a.terms.accumulative THEN Least(score + value, U64Max)
    ELSE IF value > score THEN value ELSE score

\* A call for another type of action, or ahead of the window, only activates.
Score(p, value, counts) ==
    LET e == current_event[p]
        score == NewScore(event[e], participation[e][p].score, value)
    IN  /\ e \in Events
        /\ participation[e][p].open
        /\ CanScore(event[e])
        /\ IF counts /\ event[e].terms.start_time <= now
           THEN /\ participation' = [participation EXCEPT ![e][p].score = score]
                /\ event' = [event EXCEPT ![e] = update_leaderboard(Activated(@), p, score)]
           ELSE /\ event' = [event EXCEPT ![e] = Activated(@)]
                /\ UNCHANGED participation
        /\ UNCHANGED <<now, current_event, paid>>

Finalize(e) ==
    /\ event[e].status = "active"
    /\ now >= event[e].terms.end_time
    /\ event' = [event EXCEPT ![e].status = "finalized"]
    /\ UNCHANGED <<now, participation, current_event, paid>>

\* No instruction cancels an event.
Leave(e, p) ==
    /\ participation[e][p].open
    /\ current_event[p] = e
    /\ event[e].status \in {"finalized", "cancelled"}
    /\ event[e].status = "finalized" => RanksOf(event[e], p) = {}
    /\ current_event' = [current_event EXCEPT ![p] = 0]
    /\ participation' = [participation EXCEPT ![e][p] = NoParticipation]
    /\ UNCHANGED <<now, event, paid>>

BaseShare(a, r) == (a.terms.prize_amount * PRIZE_DISTRIBUTION[r]) \div 10000

PrizeShare(base, bonus) ==
    IF bonus > 0 THEN Least(base * (10000 + bonus), U64Max) \div 10000 ELSE base

\* A mutant of Closed: the participation stays.
LeftOpen(e, p) == participation
Closed(e, p) == [participation EXCEPT ![e][p] = NoParticipation]

ClaimPrize(e, p, bonus) ==
    LET rank == find_rank(event[e], p)
        base == BaseShare(event[e], rank)
        share == PrizeShare(base, bonus)
    IN  /\ participation[e][p].open
        /\ event[e].status = "finalized"
        /\ RanksOf(event[e], p) # {}
        /\ event[e].terms.prize_amount * PRIZE_DISTRIBUTION[rank] <= U64Max
        /\ base # 0
        /\ share <= event[e].prize_remaining
        /\ event' = [event EXCEPT ![e].prize_remaining = @ - share]
        /\ paid' = [paid EXCEPT ![e][p] = @ + share]
        /\ current_event' = [current_event EXCEPT ![p] = 0]
        /\ participation' = Closed(e, p)
        /\ UNCHANGED now

Tick ==
    /\ now < MaxTime
    /\ now' = now + 1
    /\ UNCHANGED <<event, participation, current_event, paid>>

Next ==
    \/ \E e \in Events, offer \in Offers : Create(e, offer)
    \/ \E e \in Events, p \in Players : Join(e, p) \/ Leave(e, p)
    \/ \E p \in Players, value \in Scores, counts \in BOOLEAN : Score(p, value, counts)
    \/ \E e \in Events : Finalize(e)
    \/ \E e \in Events, p \in Players, bonus \in Bonuses : ClaimPrize(e, p, bonus)
    \/ Tick

Spec == Init /\ [][Next]_vars

-----------------------------------------------------------------------------
(* Properties *)

TypeOK ==
    /\ now \in 0 .. MaxTime
    /\ event \in [Events -> EventAccount]
    /\ participation \in [Events -> [Players -> EventParticipation]]
    /\ current_event \in [Players -> Events \cup {0}]
    /\ paid \in [Events -> [Players -> Nat]]

\* A board is sorted, and nobody is on it twice.
BoardSorted(a) ==
    \A r, s \in Listed(a) : r < s =>
        /\ a.leaderboard[r].score >= a.leaderboard[s].score
        /\ a.leaderboard[r].player # a.leaderboard[s].player

\* A listed score is that of the participation.
BoardCurrent(e) ==
    \A r \in Listed(event[e]) :
        LET entry == event[e].leaderboard[r]
        IN  /\ entry.player \in Players
            /\ participation[e][entry.player].open
                 => participation[e][entry.player].score = entry.score

\* Who has scored and is not listed has no more than the last of a full board.
BoardBest(e) ==
    \A p \in Players :
        participation[e][p].score > 0 /\ RanksOf(event[e], p) = {} =>
            /\ Full(event[e])
            /\ event[e].leaderboard[MAX_LEADERBOARD].score >= participation[e][p].score

\* The leaderboard, kept by swaps and shifts while scores come one by one, is
\* the ranking of the participations: sorted, nobody twice, every score up to
\* date, and nobody left out who has more than the last (event_scoring.rs).
LeaderboardTrue ==
    \A e \in Events :
        /\ BoardSorted(event[e])
        /\ BoardCurrent(e)
        /\ BoardBest(e)

\* A player takes part in the event that current_event names and in no other,
\* unless a prize of the event of id 0, which cannot be told from none, was
\* claimed while in another one.
OneEventAtATime ==
    \A p \in Players :
        /\ (\A e \in Events : e = 0 => paid[e][p] = 0)
             => \A e \in Events \ {0} : participation[e][p].open <=> current_event[p] = e
        /\ current_event[p] # 0 => participation[current_event[p]][p].open

\* Only who is listed on a finalized board is paid, and then no longer takes
\* part; who is listed ceases to take part by being paid.
PaidOnce ==
    \A e \in Events, p \in Players :
        /\ paid[e][p] > 0 =>
             /\ event[e].status = "finalized"
             /\ RanksOf(event[e], p) # {}
             /\ ~participation[e][p].open
        /\ RanksOf(event[e], p) # {} /\ ~participation[e][p].open => paid[e][p] > 0

\* What is left of a pool and what was paid from it make up the prize.
PoolAccounted ==
    \A e \in Events :
        event[e].prize_remaining + SumOver(paid[e], Players) = event[e].terms.prize_amount

Served(a, got) == {r \in Listed(a) : got[a.leaderboard[r].player] > 0}

Shares(a) == [r \in Ranks |-> BaseShare(a, r)]
Extras(a, got) == [r \in Ranks |-> got[a.leaderboard[r].player] - BaseShare(a, r)]

\* The shares of all who wait fit into what is left but for the bonuses that
\* were paid: floors of basis points never cut a winner short, bonuses may.
Covered(a, got) ==
    SumOver(Shares(a), Listed(a) \ Served(a, got))
        <= a.prize_remaining + SumOver(Extras(a, got), Served(a, got))

SharesCovered == \A e \in Events : Covered(event[e], paid[e])

\* Who enters, leaves and claims in whatever order, a player is in one event at
\* a time, every place is paid once, and the pool covers the shares of all
\* places but for the bonuses of those who claimed first (claim_prize.rs).
PrizesInOrder == OneEventAtATime /\ PaidOnce /\ PoolAccounted /\ SharesCovered

=============================================================================
