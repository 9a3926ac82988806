----------------------------- MODULE TeamProofs -----------------------------
(* Theorems about Team, for every value of its constants. *)
EXTENDS Team, SumsProofs

-----------------------------------------------------------------------------
(* Type correctness *)

\* The number of a day is a natural number.
LEMMA DayNat ==
  ASSUME NEW t \in Nat
  PROVE  Day(t) \in Nat
<1>1. DAY \in Nat /\ DAY > 0
  BY TeamAssumption
<1>2. t \div DAY \in Int /\ t \div DAY >= 0
  BY <1>1
<1> QED BY <1>2 DEF Day

\* An account that does not exist is well formed, and so is a fresh slot.
LEMMA FreshTypes ==
  /\ NoTeam \in TeamAccount /\ NoSlot \in TeamMemberSlot /\ NoRequest \in TreasuryRequest
  /\ \A p \in Players, rank \in Ranks, epoch \in Nat : NewSlot(p, rank, epoch) \in TeamMemberSlot
<1>1. NoTeam \in TeamAccount
  BY TeamAssumption DEF NoTeam, TeamAccount
<1>2. NoSlot \in TeamMemberSlot
  BY DEF NoSlot, NewSlot, TeamMemberSlot, Ranks
<1>3. NoRequest \in TreasuryRequest
  BY DEF NoRequest, TreasuryRequest, Ranks
<1>4. \A p \in Players, rank \in Ranks, epoch \in Nat : NewSlot(p, rank, epoch) \in TeamMemberSlot
  BY DEF NewSlot, TeamMemberSlot
<1> QED BY <1>1, <1>2, <1>3, <1>4

\* The fields of the accounts have their types.
LEMMA StateTypes ==
  ASSUME TypeOK
  PROVE  /\ now \in Nat /\ members \subseteq Players
         /\ team.leader \in Players \cup {Nobody} /\ team.disbanded \in BOOLEAN
         /\ team.member_count \in Nat /\ team.max_members \in Nat /\ team.treasury \in Nat
         /\ team.settings \in TreasurySettings /\ team.membership_epoch \in Nat
         /\ team.settings.cooldown \in Nat
         /\ \A i \in Slots :
               /\ slot[i] \in TeamMemberSlot
               /\ slot[i].player \in Players \cup {Nobody} /\ slot[i].rank \in Ranks
               /\ slot[i].joined_at_epoch \in Nat /\ slot[i].withdrawn_today \in Nat
               /\ slot[i].last_day \in Nat
               /\ Member(i) => slot[i].player \in Players /\ i \in LiveSlots
         /\ \A p \in Players :
               /\ team_slot_index[p] \in Slots /\ invite[p] \in Nat /\ cash[p] \in Nat
               /\ request[p] \in TreasuryRequest
               /\ request[p].amount \in Nat /\ request[p].created_at \in Nat
               /\ request[p].executable_at \in Nat
<1>1. team \in TeamAccount
  BY DEF TypeOK
<1>2. team.settings \in TreasurySettings
  BY <1>1 DEF TeamAccount
<1>3. team.settings.cooldown \in Nat
  BY <1>2, TeamAssumption
<1>4. ASSUME NEW i \in Slots
      PROVE  /\ slot[i] \in TeamMemberSlot
             /\ slot[i].player \in Players \cup {Nobody} /\ slot[i].rank \in Ranks
             /\ slot[i].joined_at_epoch \in Nat /\ slot[i].withdrawn_today \in Nat
             /\ slot[i].last_day \in Nat
             /\ Member(i) => slot[i].player \in Players /\ i \in LiveSlots
  <2>1. slot[i] \in TeamMemberSlot
    BY <1>4 DEF TypeOK
  <2>2. Member(i) => slot[i].player \in Players /\ i \in LiveSlots
    BY <1>4, TeamAssumption DEF TypeOK, Member, LiveSlots
  <2> QED BY <2>1, <2>2 DEF TeamMemberSlot
<1>5. ASSUME NEW p \in Players
      PROVE  /\ team_slot_index[p] \in Slots /\ invite[p] \in Nat /\ cash[p] \in Nat
             /\ request[p] \in TreasuryRequest
             /\ request[p].amount \in Nat /\ request[p].created_at \in Nat
             /\ request[p].executable_at \in Nat
  <2>1. request[p] \in TreasuryRequest
    BY <1>5 DEF TypeOK
  <2> QED BY <1>5, <2>1 DEF TypeOK, TreasuryRequest
<1> QED BY <1>1, <1>2, <1>3, <1>4, <1>5 DEF TypeOK, TeamAccount

\* The owner of a member's slot is a player.
LEMMA EnterTypes ==
  ASSUME TypeOK, NEW p \in Players, NEW i \in Slots, NEW rank \in Ranks, NEW epoch \in Nat,
         Enter(p, i, rank, epoch)
  PROVE  /\ slot' \in [Slots -> TeamMemberSlot] /\ members' \subseteq Players
         /\ team_slot_index' \in [Players -> Slots]
<1>1. NewSlot(p, rank, epoch) \in TeamMemberSlot
  BY FreshTypes
<1> QED BY <1>1 DEF Enter, TypeOK

\* Admitting a member keeps the types.
LEMMA AdmitTypes ==
  ASSUME TypeOK, NEW p \in Players, NEW i \in Slots, NEW rank \in Ranks, NEW cap \in Caps,
         Admit(p, i, rank, cap)
  PROVE  /\ team' \in TeamAccount
         /\ slot' \in [Slots -> TeamMemberSlot] /\ members' \subseteq Players
         /\ team_slot_index' \in [Players -> Slots]
<1> DEFINE max == IF cap > team.member_count THEN cap ELSE team.member_count
<1>1. max \in Nat /\ team.member_count + 1 \in Nat /\ team.membership_epoch \in Nat
  BY StateTypes, TeamAssumption
<1>2. team' = [team EXCEPT !.member_count = @ + 1, !.max_members = max]
  BY DEF Admit
<1>3. team' \in TeamAccount
  BY <1>1, <1>2 DEF TypeOK, TeamAccount
<1>4. Enter(p, i, rank, team.membership_epoch)
  BY DEF Admit
<1> QED BY <1>1, <1>3, <1>4, EnterTypes

\* An exit keeps the types.
LEMMA ExitTypes ==
  ASSUME TypeOK, NEW i \in Slots, Member(i), Exit(i)
  PROVE  /\ team' \in TeamAccount
         /\ slot' \in [Slots -> TeamMemberSlot] /\ members' \subseteq Players
         /\ team_slot_index' \in [Players -> Slots]
<1>0. team.member_count \in Nat /\ team.membership_epoch \in Nat
  BY StateTypes
<1>1. SatSub(team.member_count, 1) \in Nat /\ team.membership_epoch + 1 \in Nat
  BY <1>0 DEF SatSub
<1>2. team' \in TeamAccount
  BY <1>1 DEF Exit, OneFewer, TypeOK, TeamAccount
<1>3. slot' \in [Slots -> TeamMemberSlot]
  BY FreshTypes DEF Exit, TypeOK
<1>4. 0 \in Slots
  BY TeamAssumption
<1> QED BY <1>2, <1>3, <1>4 DEF Exit, TypeOK

\* A payment keeps the types.
LEMMA PayOutTypes ==
  ASSUME TypeOK, NEW p \in Players, NEW amount \in Nat, PayOut(p, amount)
  PROVE  team' \in TeamAccount /\ cash' \in [Players -> Nat]
<1>1. team.treasury - amount \in Nat /\ cash[p] + amount \in Nat
  BY StateTypes DEF PayOut
<1> QED BY <1>1 DEF PayOut, TypeOK, TeamAccount

\* Every membership instruction keeps the types.
LEMMA MembershipTypes ==
  ASSUME TypeOK, Membership
  PROVE  TypeOK'
<1>1. ASSUME NEW p \in Players, NEW cap \in Caps, Create(p, cap) PROVE TypeOK'
  <2>1. cap \in Nat /\ 0 \in Slots /\ 0 \in Ranks
    BY TeamAssumption DEF Ranks
  <2>2. team' \in TeamAccount
    BY <1>1, <2>1, FreshTypes DEF Create, TeamAccount
  <2> QED BY <1>1, <2>1, <2>2, EnterTypes DEF Create, TypeOK
<1>2. ASSUME NEW p \in Players, NEW cap \in Caps, NEW i \in Slots,
             Join(p, i, cap) \/ AcceptInvite(p, i, cap)
      PROVE  TypeOK'
  <2>1. 3 \in Ranks /\ 4 \in Ranks
    BY DEF Ranks
  <2>2. /\ team' \in TeamAccount
        /\ slot' \in [Slots -> TeamMemberSlot] /\ members' \subseteq Players
        /\ team_slot_index' \in [Players -> Slots]
    BY <1>2, <2>1, AdmitTypes DEF Join, AcceptInvite
  <2> QED BY <1>2, <2>2 DEF Join, AcceptInvite, TypeOK
<1>3. ASSUME NEW p \in Players, NEW cap \in Caps, NEW i \in Slots, NEW lifetime \in InviteTimes,
             Invite(i, p, cap, lifetime)
      PROVE  TypeOK'
  <2>1. now + lifetime \in Nat
    BY TeamAssumption, StateTypes
  <2> QED BY <1>3, <2>1 DEF Invite, TypeOK, roster
<1>4. ASSUME NEW i \in Slots, NEW p \in Players, CancelInvite(i, p) \/ DeclineInvite(p)
      PROVE  TypeOK'
  BY <1>4 DEF CancelInvite, DeclineInvite, WithdrawInvite, TypeOK, roster
<1>5. ASSUME NEW p \in Players, Disband(p) PROVE TypeOK'
  <2>1. cash[p] + team.treasury \in Nat /\ team.membership_epoch + 1 \in Nat
    BY StateTypes
  <2>2. team' \in TeamAccount
    BY <1>5, <2>1 DEF Disband, TypeOK, TeamAccount
  <2> QED BY <1>5, <2>1, <2>2 DEF Disband, TypeOK
<1>6. ASSUME NEW i \in Slots, NEW j \in Slots, Leave(i) \/ Kick(i, j) PROVE TypeOK'
  <2>1. /\ team' \in TeamAccount
        /\ slot' \in [Slots -> TeamMemberSlot] /\ members' \subseteq Players
        /\ team_slot_index' \in [Players -> Slots]
    BY <1>6, ExitTypes DEF Leave, Kick
  <2> QED BY <1>6, <2>1 DEF Leave, Kick, TypeOK
<1>7. ASSUME NEW i \in Slots, NEW public \in BOOLEAN, UpdateSettings(i, public) PROVE TypeOK'
  BY <1>7 DEF UpdateSettings, TypeOK, TeamAccount, roster
<1>8. ASSUME NEW i \in Slots, NEW j \in Slots, TransferLeadership(i, j) PROVE TypeOK'
  <2>1. 0 \in Ranks /\ 1 \in Ranks /\ slot[j].player \in Players
    BY <1>8, StateTypes DEF Ranks, TransferLeadership
  <2>2. slot' \in [Slots -> TeamMemberSlot]
    <3> DEFINE lowered == [slot EXCEPT ![i].rank = 1]
    <3>1. lowered \in [Slots -> TeamMemberSlot]
      BY <2>1 DEF TypeOK, TeamMemberSlot
    <3>2. [lowered EXCEPT ![j].rank = 0] \in [Slots -> TeamMemberSlot]
      BY <2>1, <3>1 DEF TeamMemberSlot
    <3> QED BY <1>8, <3>2 DEF TransferLeadership
  <2>3. team' \in TeamAccount
    BY <1>8, <2>1 DEF TransferLeadership, TypeOK, TeamAccount
  <2> QED BY <1>8, <2>2, <2>3 DEF TransferLeadership, TypeOK
<1>9. ASSUME NEW i \in Slots, NEW j \in Slots, NEW rank \in RanksGiven,
             Promote(i, j, rank) \/ Demote(i, j, rank)
      PROVE  TypeOK'
  <2>1. rank \in Ranks /\ SetRank(j, rank)
    BY <1>9, TeamAssumption DEF Ranks, Promote, Demote
  <2>2. slot' \in [Slots -> TeamMemberSlot]
    BY <2>1 DEF SetRank, TypeOK, TeamMemberSlot
  <2> QED BY <2>1, <2>2 DEF SetRank, TypeOK
<1> QED BY <1>1, <1>2, <1>3, <1>4, <1>5, <1>6, <1>7, <1>8, <1>9, TeamAssumption DEF Membership

\* Every treasury instruction keeps the types.
LEMMA TreasuryTypes ==
  ASSUME TypeOK, Treasury
  PROVE  TypeOK'
<1>1. ASSUME NEW i \in Slots, NEW settings \in TreasurySettings, UpdateTreasurySettings(i, settings)
      PROVE  TypeOK'
  BY <1>1 DEF UpdateTreasurySettings, TypeOK, TeamAccount, roster
<1>2. ASSUME NEW p \in Players, NEW amount \in Amounts, Deposit(p, amount) PROVE TypeOK'
  <2>1. cash[p] - amount \in Nat /\ team.treasury + amount \in Nat
    BY <1>2, StateTypes, TeamAssumption DEF Deposit
  <2>2. team' \in TeamAccount
    BY <1>2, <2>1 DEF Deposit, TypeOK, TeamAccount
  <2> QED BY <1>2, <2>1, <2>2 DEF Deposit, TypeOK, roster
<1>3. ASSUME NEW i \in Slots, NEW amount \in Amounts, Withdraw(i, amount) PROVE TypeOK'
  <2>1. slot[i].player \in Players /\ amount \in Nat
    BY <1>3, StateTypes, TeamAssumption DEF Withdraw
  <2>2. team' \in TeamAccount /\ cash' \in [Players -> Nat]
    BY <1>3, <2>1, PayOutTypes DEF Withdraw
  <2>3. WithdrawnToday(i) + amount \in Nat
    BY <2>1, StateTypes DEF WithdrawnToday
  <2>4. Day(now) \in Nat
    BY StateTypes, DayNat
  <2>5. slot' \in [Slots -> TeamMemberSlot]
    <3> DEFINE drawn == [slot EXCEPT ![i].withdrawn_today = WithdrawnToday(i) + amount]
    <3>1. drawn \in [Slots -> TeamMemberSlot]
      BY <2>3 DEF TypeOK, TeamMemberSlot
    <3>2. [drawn EXCEPT ![i].last_day = Day(now)] \in [Slots -> TeamMemberSlot]
      BY <2>4, <3>1 DEF TeamMemberSlot
    <3> QED BY <1>3, <3>2 DEF Withdraw
  <2> QED BY <1>3, <2>2, <2>5 DEF Withdraw, TypeOK
<1>4. ASSUME NEW i \in Slots, NEW amount \in Amounts, RequestWithdraw(i, amount) PROVE TypeOK'
  <2>1. /\ slot[i].player \in Players /\ slot[i].rank \in Ranks /\ amount \in Nat
        /\ now + team.settings.cooldown \in Nat
    BY <1>4, StateTypes, TeamAssumption DEF RequestWithdraw
  <2>2. [amount |-> amount, created_at |-> now,
         executable_at |-> now + team.settings.cooldown]
           \in TreasuryRequest
    BY <2>1, StateTypes DEF TreasuryRequest
  <2> QED BY <1>4, <2>1, <2>2 DEF RequestWithdraw, TypeOK, roster
<1>5. ASSUME NEW p \in Players, CloseRequest(p) PROVE request' \in [Players -> TreasuryRequest]
  BY <1>5, FreshTypes DEF CloseRequest, TypeOK
<1>6. ASSUME NEW i \in Slots, NEW p \in Players, ApproveRequest(i, p) PROVE TypeOK'
  <2>1. team' \in TeamAccount /\ cash' \in [Players -> Nat]
    BY <1>6, StateTypes, PayOutTypes DEF ApproveRequest
  <2> QED BY <1>5, <1>6, <2>1 DEF ApproveRequest, TypeOK, roster
<1>7. ASSUME NEW i \in Slots, ExecuteRequest(i) PROVE TypeOK'
  <2>1. slot[i].player \in Players
    BY <1>7, StateTypes DEF ExecuteRequest
  <2>2. team' \in TeamAccount /\ cash' \in [Players -> Nat]
    BY <1>7, <2>1, StateTypes, PayOutTypes DEF ExecuteRequest
  <2> QED BY <1>5, <1>7, <2>1, <2>2 DEF ExecuteRequest, TypeOK, roster
<1>8. ASSUME NEW i \in Slots, NEW p \in Players, RejectRequest(i, p) \/ CancelRequest(p)
      PROVE  TypeOK'
  BY <1>5, <1>8 DEF RejectRequest, CancelRequest, TypeOK, roster
<1>9. Slots # {}
  BY TeamAssumption
<1> QED BY <1>1, <1>2, <1>3, <1>4, <1>6, <1>7, <1>8, <1>9 DEF Treasury

\* The types hold at the start.
LEMMA TypeInit == Init => TypeOK
<1> SUFFICES ASSUME Init PROVE TypeOK
  OBVIOUS
<1>1. 0 \in Slots
  BY TeamAssumption
<1> QED BY <1>1, FreshTypes, TeamAssumption DEF Init, TypeOK

\* Every step keeps the types.
LEMMA TypeStep == TypeOK /\ [Next]_vars => TypeOK'
<1> SUFFICES ASSUME TypeOK, [Next]_vars PROVE TypeOK'
  OBVIOUS
<1>1. CASE Tick
  <2>1. now + 1 \in Nat
    BY StateTypes
  <2> QED BY <1>1, <2>1 DEF Tick, TypeOK, roster
<1>2. CASE UNCHANGED vars
  BY <1>2 DEF vars, TypeOK
<1> QED BY <1>1, <1>2, MembershipTypes, TreasuryTypes DEF Next

\* In every reachable state the accounts have the shape the program gives them.
THEOREM TypeCorrect == Spec => []TypeOK
BY TypeInit, TypeStep, PTL DEF Spec

-----------------------------------------------------------------------------
(* The inductive invariant *)

\* Nobody may read from an epoch ahead of the team's.
EpochsPast == \A i \in Slots : slot[i].joined_at_epoch <= team.membership_epoch

IInv == TypeOK /\ RosterMatches /\ OneLeader /\ DisbandedIsOver /\ EpochsPast

\* The live slots are finitely many, and one more or one less of them counts.
LEMMA LiveFinite == IsFiniteSet(LiveSlots) /\ Cardinality(LiveSlots) \in Nat
<1>1. LiveSlots \in SUBSET Slots
  BY DEF LiveSlots
<1> QED BY <1>1, TeamAssumption, FS_Subset, FS_CardinalityType

\* Where a member of an active team is: his own slot, that no other shares.
LEMMA MemberSlot ==
  ASSUME IInv, NEW p \in members
  PROVE  /\ ~team.disbanded /\ p \in Players /\ p # Nobody
         /\ team_slot_index[p] \in LiveSlots /\ slot[team_slot_index[p]].player = p
         /\ \A i \in Slots : slot[i].player = p => i = team_slot_index[p]
<1>1. ~team.disbanded /\ p \in Players /\ p # Nobody
  BY TeamAssumption DEF IInv, DisbandedIsOver, TypeOK
<1>2. slot[team_slot_index[p]].player = p /\ team_slot_index[p] \in Slots
  BY <1>1 DEF IInv, RosterMatches, TypeOK
<1>3. ASSUME NEW i \in Slots, slot[i].player = p PROVE i = team_slot_index[p]
  BY <1>1, <1>3 DEF IInv, RosterMatches, LiveSlots
<1> QED BY <1>1, <1>2, <1>3 DEF LiveSlots

\* A team that nobody leads has no members.
LEMMA LeaderlessEmpty ==
  ASSUME IInv, team.leader = Nobody, team = NoTeam
  PROVE  members = {} /\ LiveSlots = {}
<1>1. ~team.disbanded /\ team.member_count = 0
  BY DEF NoTeam
<1>2. LiveSlots = {}
  BY <1>1, LiveFinite, FS_EmptySet DEF IInv, RosterMatches
<1>3. ASSUME NEW p \in members PROVE FALSE
  BY <1>2, <1>3, MemberSlot
<1> QED BY <1>2, <1>3

\* A step that touches neither the roster nor what the team says of it keeps
\* what relates the two.
LEMMA RosterKept ==
  ASSUME IInv, UNCHANGED roster,
         team'.leader = team.leader, team'.disbanded = team.disbanded,
         team'.member_count = team.member_count,
         team'.membership_epoch = team.membership_epoch,
         team.disbanded => team'.treasury = team.treasury
  PROVE  RosterMatches' /\ OneLeader' /\ DisbandedIsOver' /\ EpochsPast'
<1>1. LiveSlots' = LiveSlots
  BY DEF LiveSlots, roster
<1> QED BY <1>1 DEF IInv, RosterMatches, OneLeader, DisbandedIsOver, EpochsPast, Member, roster

\* So does one that writes a slot, but not whose it is or whether it leads.
LEMMA SlotsKept ==
  ASSUME IInv, UNCHANGED <<members, team_slot_index>>,
         \A i \in Slots : /\ slot'[i].player = slot[i].player
                          /\ slot'[i].joined_at_epoch = slot[i].joined_at_epoch
                          /\ slot'[i].rank = 0 <=> slot[i].rank = 0,
         team'.leader = team.leader, team'.disbanded = team.disbanded,
         team'.member_count = team.member_count,
         team'.membership_epoch = team.membership_epoch,
         team.disbanded => team'.treasury = team.treasury
  PROVE  RosterMatches' /\ OneLeader' /\ DisbandedIsOver' /\ EpochsPast'
<1>1. LiveSlots' = LiveSlots
  BY DEF LiveSlots
<1>2. \A i \in Slots : Member(i)' <=> Member(i)
  BY DEF Member
<1>3. \A p \in members : team_slot_index[p] \in Slots
  BY DEF IInv, TypeOK
<1>4. RosterMatches'
  BY <1>1, <1>2, <1>3 DEF IInv, RosterMatches, LiveSlots
<1>5. OneLeader'
  BY <1>1 DEF IInv, OneLeader, LiveSlots
<1>6. DisbandedIsOver' /\ EpochsPast'
  BY DEF IInv, DisbandedIsOver, EpochsPast
<1> QED BY <1>4, <1>5, <1>6

\* Somebody who was nowhere in an active team takes a free slot.
LEMMA EnterKeeps ==
  ASSUME IInv, NEW p \in Players, NEW i \in Slots, NEW rank \in Ranks, NEW epoch \in Nat,
         Enter(p, i, rank, epoch), p \notin members, slot[i].player = Nobody,
         ~team.disbanded, ~team'.disbanded,
         team'.member_count = team.member_count + 1,
         team'.membership_epoch = team.membership_epoch, epoch <= team.membership_epoch,
         \/ team.leader = Nobody /\ team'.leader = p /\ rank = 0 /\ LiveSlots = {}
         \/ team.leader # Nobody /\ team'.leader = team.leader /\ rank # 0
  PROVE  RosterMatches' /\ OneLeader' /\ DisbandedIsOver' /\ EpochsPast'
<1>1. p # Nobody /\ i \notin LiveSlots
  BY TeamAssumption DEF LiveSlots
<1>2. /\ slot'[i] = NewSlot(p, rank, epoch)
      /\ \A j \in Slots \ {i} : slot'[j] = slot[j]
      /\ members' = members \cup {p}
      /\ team_slot_index'[p] = i
      /\ \A q \in Players \ {p} : team_slot_index'[q] = team_slot_index[q]
  BY DEF Enter, IInv, TypeOK
<1>3. slot'[i].player = p /\ slot'[i].rank = rank /\ slot'[i].joined_at_epoch = epoch
  BY <1>2 DEF NewSlot
<1>4. LiveSlots' = LiveSlots \cup {i}
  BY <1>1, <1>2, <1>3 DEF LiveSlots
<1>5. team'.member_count = Cardinality(LiveSlots')
  <2>1. team.member_count = Cardinality(LiveSlots)
    BY DEF IInv, RosterMatches
  <2>2. Cardinality(LiveSlots \cup {i}) = Cardinality(LiveSlots) + 1
    BY <1>1, LiveFinite, FS_AddElement
  <2> QED BY <1>4, <2>1, <2>2
<1>6. ASSUME NEW q \in members' PROVE slot'[team_slot_index'[q]].player = q
  <2>1. CASE q = p
    BY <1>2, <1>3, <2>1
  <2>2. CASE q # p
    <3>1. q \in members
      BY <1>2, <1>6, <2>2
    <3>2. team_slot_index'[q] = team_slot_index[q]
      BY <1>2, <2>2, <3>1, MemberSlot
    <3>3. team_slot_index[q] \in Slots \ {i} /\ slot[team_slot_index[q]].player = q
      BY <1>1, <3>1, MemberSlot DEF LiveSlots
    <3> QED BY <1>2, <3>2, <3>3
  <2> QED BY <2>1, <2>2
<1>7. ASSUME NEW j \in LiveSlots'
      PROVE  slot'[j].player \in members' /\ team_slot_index'[slot'[j].player] = j
  <2>1. CASE j = i
    BY <1>2, <1>3, <2>1
  <2>2. CASE j # i
    <3>1. j \in LiveSlots /\ j \in Slots /\ slot'[j] = slot[j]
      BY <1>2, <1>4, <1>7, <2>2 DEF LiveSlots
    <3>2. slot[j].player \in members /\ team_slot_index[slot[j].player] = j
      BY <3>1 DEF IInv, RosterMatches, Member
    <3>3. slot[j].player \in Players \ {p}
      BY <3>2, MemberSlot
    <3> QED BY <1>2, <3>1, <3>2, <3>3
  <2> QED BY <2>1, <2>2
<1>8. RosterMatches'
  BY <1>5, <1>6, <1>7 DEF RosterMatches, Member
<1>9. OneLeader'
  <2>1. CASE team.leader = Nobody /\ team'.leader = p /\ rank = 0 /\ LiveSlots = {}
    BY <1>2, <1>3, <1>4, <2>1 DEF OneLeader
  <2>2. CASE team.leader # Nobody /\ team'.leader = team.leader /\ rank # 0
    <3>1. team.leader \in members /\ team.leader # p
      BY <2>2 DEF IInv, OneLeader
    <3>2. ASSUME NEW j \in LiveSlots' PROVE slot'[j].rank = 0 <=> slot'[j].player = team'.leader
      <4>1. CASE j = i
        BY <1>3, <2>2, <3>1, <4>1
      <4>2. CASE j # i
        <5>1. j \in LiveSlots /\ slot'[j] = slot[j]
          BY <1>2, <1>4, <3>2, <4>2 DEF LiveSlots
        <5> QED BY <2>2, <5>1 DEF IInv, OneLeader
      <4> QED BY <4>1, <4>2
    <3> QED BY <1>2, <2>2, <3>1, <3>2 DEF OneLeader
  <2> QED BY <2>1, <2>2
<1>10. DisbandedIsOver'
  BY DEF DisbandedIsOver
<1>11. EpochsPast'
  BY <1>2, <1>3 DEF IInv, EpochsPast
<1> QED BY <1>8, <1>9, <1>10, <1>11

\* One who does not lead goes.
LEMMA ExitKeeps ==
  ASSUME IInv, NEW i \in Slots, Member(i), slot[i].player # team.leader, Exit(i)
  PROVE  RosterMatches' /\ OneLeader' /\ DisbandedIsOver' /\ EpochsPast'
<1> DEFINE p == slot[i].player
<1>1. /\ p \in members /\ p \in Players /\ p # Nobody /\ i \in LiveSlots
      /\ team_slot_index[p] = i /\ ~team.disbanded
  BY MemberSlot DEF Member, LiveSlots
<1>2. /\ slot'[i] = NoSlot
      /\ \A j \in Slots \ {i} : slot'[j] = slot[j]
      /\ members' = members \ {p}
      /\ \A q \in Players \ {p} : team_slot_index'[q] = team_slot_index[q]
  BY <1>1 DEF Exit, IInv, TypeOK
<1>3. slot'[i].player = Nobody /\ slot'[i].joined_at_epoch = 0
  BY <1>2 DEF NoSlot, NewSlot
<1>4. LiveSlots' = LiveSlots \ {i}
  BY <1>2, <1>3 DEF LiveSlots
<1>5. /\ team' = OneFewer /\ team \in TeamAccount
      /\ team.member_count \in Nat /\ team.membership_epoch \in Nat
  BY StateTypes DEF Exit, IInv, TypeOK
<1>6. /\ team'.leader = team.leader /\ team'.disbanded = team.disbanded
      /\ team'.member_count = SatSub(team.member_count, 1)
      /\ team'.membership_epoch = team.membership_epoch + 1
  BY <1>5 DEF OneFewer, TeamAccount
<1>7. team'.member_count = Cardinality(LiveSlots')
  <2>1. team.member_count = Cardinality(LiveSlots)
    BY <1>1 DEF IInv, RosterMatches
  <2>2. Cardinality(LiveSlots) # 0
    BY <1>1, LiveFinite, FS_EmptySet
  <2>3. Cardinality(LiveSlots') = Cardinality(LiveSlots) - 1
    BY <1>1, <1>4, LiveFinite, FS_RemoveElement
  <2> QED BY <1>6, <2>1, <2>2, <2>3, LiveFinite DEF SatSub
<1>8. ASSUME NEW q \in members' PROVE slot'[team_slot_index'[q]].player = q
  <2>1. q \in members /\ q # p
    BY <1>2, <1>8
  <2>2. team_slot_index'[q] = team_slot_index[q]
    BY <1>2, <2>1, MemberSlot
  <2>3. team_slot_index[q] \in Slots \ {i} /\ slot[team_slot_index[q]].player = q
    BY <2>1, MemberSlot DEF LiveSlots
  <2> QED BY <1>2, <2>2, <2>3
<1>9. ASSUME NEW j \in LiveSlots'
      PROVE  /\ slot'[j].player \in members' /\ team_slot_index'[slot'[j].player] = j
             /\ j \in LiveSlots /\ slot'[j] = slot[j]
  <2>1. j \in LiveSlots /\ j # i /\ slot'[j] = slot[j]
    BY <1>2, <1>4, <1>9 DEF LiveSlots
  <2>2. slot[j].player \in members /\ team_slot_index[slot[j].player] = j
    BY <1>1, <2>1 DEF IInv, RosterMatches, Member
  <2>3. slot[j].player # p /\ slot[j].player \in Players
    BY <1>1, <2>1, <2>2, MemberSlot
  <2> QED BY <1>2, <2>1, <2>2, <2>3
<1>10. RosterMatches'
  BY <1>7, <1>8, <1>9 DEF RosterMatches, Member
<1>11. OneLeader'
  BY <1>2, <1>6, <1>9 DEF IInv, OneLeader
<1>12. DisbandedIsOver'
  BY <1>1, <1>6 DEF DisbandedIsOver
<1>13. EpochsPast'
  <2> SUFFICES ASSUME NEW j \in Slots PROVE slot'[j].joined_at_epoch <= team.membership_epoch + 1
    BY <1>6 DEF EpochsPast
  <2>1. slot[j].joined_at_epoch \in Nat /\ slot[j].joined_at_epoch <= team.membership_epoch
    BY StateTypes DEF IInv, EpochsPast
  <2> QED BY <1>2, <1>3, <1>5, <2>1
<1> QED BY <1>10, <1>11, <1>12, <1>13

\* The leader hands over to another member.
LEMMA TransferKeeps ==
  ASSUME IInv, NEW i \in Slots, NEW j \in Slots, TransferLeadership(i, j)
  PROVE  RosterMatches' /\ OneLeader' /\ DisbandedIsOver' /\ EpochsPast'
<1>1. /\ slot[i].player = team.leader /\ slot[i].player \in members
      /\ slot[j].player \in members /\ slot[j].player # slot[i].player /\ i # j
  BY DEF TransferLeadership, Member
<1>2. ~team.disbanded
  BY <1>1, MemberSlot
<1>3. /\ \A k \in Slots : /\ slot'[k].player = slot[k].player
                         /\ slot'[k].joined_at_epoch = slot[k].joined_at_epoch
      /\ slot'[i].rank = 1 /\ slot'[j].rank = 0
      /\ \A k \in Slots \ {i, j} : slot'[k].rank = slot[k].rank
  <2> DEFINE lowered == [slot EXCEPT ![i].rank = 1]
  <2>1. slot' = [lowered EXCEPT ![j].rank = 0]
    BY DEF TransferLeadership
  <2>2. \A k \in Slots : slot[k] \in TeamMemberSlot
    BY DEF IInv, TypeOK
  <2>3. /\ lowered[i] = [slot[i] EXCEPT !.rank = 1]
        /\ \A k \in Slots \ {i} : lowered[k] = slot[k]
        /\ DOMAIN lowered = Slots
    BY DEF IInv, TypeOK
  <2>4. /\ slot'[j] = [slot[j] EXCEPT !.rank = 0]
        /\ slot'[i] = [slot[i] EXCEPT !.rank = 1]
        /\ \A k \in Slots \ {i, j} : slot'[k] = slot[k]
    BY <1>1, <2>1, <2>3
  <2> QED BY <2>2, <2>4 DEF TeamMemberSlot
<1>4. /\ team'.leader = slot[j].player /\ team'.disbanded = team.disbanded
      /\ team'.member_count = team.member_count
      /\ team'.membership_epoch = team.membership_epoch
  BY DEF TransferLeadership, IInv, TypeOK, TeamAccount
<1>5. UNCHANGED <<members, team_slot_index>>
  BY DEF TransferLeadership
<1>6. LiveSlots' = LiveSlots
  BY <1>3 DEF LiveSlots
<1>7. \A p \in members : team_slot_index[p] \in Slots
  BY DEF IInv, TypeOK
<1>8. RosterMatches'
  <2>1. \A p \in members' : slot'[team_slot_index'[p]].player = p
    BY <1>3, <1>5, <1>7 DEF IInv, RosterMatches
  <2>2. team'.member_count = Cardinality(LiveSlots')
    BY <1>2, <1>4, <1>6 DEF IInv, RosterMatches
  <2>3. ASSUME NEW k \in LiveSlots'
        PROVE  Member(k)' /\ team_slot_index'[slot'[k].player] = k
    <3>1. k \in LiveSlots /\ k \in Slots /\ slot'[k].player = slot[k].player
      BY <1>3, <1>6, <2>3 DEF LiveSlots
    <3>2. Member(k) /\ team_slot_index[slot[k].player] = k
      BY <1>2, <3>1 DEF IInv, RosterMatches
    <3> QED BY <1>5, <3>1, <3>2 DEF Member
  <2> QED BY <2>1, <2>2, <2>3 DEF RosterMatches
<1>9. ASSUME NEW k \in LiveSlots' PROVE slot'[k].rank = 0 <=> slot'[k].player = team'.leader
  <2>1. k \in LiveSlots /\ k \in Slots
    BY <1>6, <1>9 DEF LiveSlots
  <2>2. slot[k].player = slot[i].player => k = i
    BY <1>1, <2>1, MemberSlot
  <2>3. slot[k].player = slot[j].player => k = j
    BY <1>1, <2>1, MemberSlot
  <2>4. team.leader # Nobody
    BY <1>1, MemberSlot
  <2>5. slot[k].rank = 0 <=> slot[k].player = team.leader
    BY <2>1, <2>4 DEF IInv, OneLeader
  <2>6. CASE k = i
    BY <1>1, <1>3, <1>4, <2>6
  <2>7. CASE k = j
    BY <1>1, <1>3, <1>4, <2>7
  <2>8. CASE k # i /\ k # j
    BY <1>1, <1>3, <1>4, <2>1, <2>2, <2>3, <2>5, <2>8
  <2> QED BY <2>6, <2>7, <2>8
<1>10. OneLeader'
  BY <1>1, <1>4, <1>5, <1>9 DEF OneLeader
<1>11. DisbandedIsOver' /\ EpochsPast'
  BY <1>2, <1>3, <1>4 DEF IInv, DisbandedIsOver, EpochsPast
<1> QED BY <1>8, <1>10, <1>11

\* The last member disbands the team.
LEMMA DisbandKeeps ==
  ASSUME IInv, NEW p \in Players, Disband(p)
  PROVE  RosterMatches' /\ OneLeader' /\ DisbandedIsOver' /\ EpochsPast'
<1>1. p \in members /\ team.leader = p /\ team.member_count <= 1
  BY DEF Disband, MayDisband
<1>2. Cardinality(LiveSlots) <= 1 /\ team_slot_index[p] \in LiveSlots
  BY <1>1, MemberSlot DEF IInv, RosterMatches
<1>3. Cardinality(LiveSlots) = 1
  BY <1>2, LiveFinite, FS_EmptySet
<1>4. PICK x : LiveSlots = {x}
  BY <1>3, LiveFinite, FS_Singleton
<1>5. ASSUME NEW q \in members PROVE q = p
  <2>1. team_slot_index[q] = team_slot_index[p]
    BY <1>1, <1>2, <1>4, MemberSlot
  <2> QED BY <1>1, <2>1, MemberSlot
<1>6. members' = {} /\ UNCHANGED slot
  BY <1>1, <1>5 DEF Disband
<1>7. /\ team'.disbanded /\ team'.leader = Nobody /\ team'.treasury = 0
      /\ team'.membership_epoch = team.membership_epoch + 1
  BY DEF Disband, IInv, TypeOK, TeamAccount
<1>8. RosterMatches' /\ OneLeader' /\ DisbandedIsOver'
  BY <1>6, <1>7 DEF RosterMatches, OneLeader, DisbandedIsOver
<1>9. EpochsPast'
  <2> SUFFICES ASSUME NEW j \in Slots PROVE slot[j].joined_at_epoch <= team.membership_epoch + 1
    BY <1>6, <1>7 DEF EpochsPast
  <2>1. /\ slot[j].joined_at_epoch \in Nat /\ team.membership_epoch \in Nat
        /\ slot[j].joined_at_epoch <= team.membership_epoch
    BY StateTypes DEF IInv, EpochsPast
  <2> QED BY <2>1
<1> QED BY <1>8, <1>9

\* The invariant holds at the start.
LEMMA InvInit == Init => IInv
<1> SUFFICES ASSUME Init PROVE IInv
  OBVIOUS
<1>1. TypeOK
  BY TypeInit
<1>2. LiveSlots = {}
  BY DEF Init, LiveSlots, NoSlot, NewSlot
<1>3. team.member_count = 0 /\ ~team.disbanded /\ team.leader = Nobody /\ team.membership_epoch = 0
  BY DEF Init, NoTeam
<1>4. RosterMatches
  BY <1>2, <1>3, FS_EmptySet DEF Init, RosterMatches
<1>5. OneLeader /\ DisbandedIsOver
  BY <1>3 DEF OneLeader, DisbandedIsOver
<1>6. EpochsPast
  BY <1>3 DEF Init, EpochsPast, NoSlot, NewSlot
<1> QED BY <1>1, <1>4, <1>5, <1>6 DEF IInv

\* What every step does to the roster.
LEMMA MembershipInv ==
  ASSUME IInv, Membership
  PROVE  RosterMatches' /\ OneLeader' /\ DisbandedIsOver' /\ EpochsPast'
<1> USE DEF IInv
<1>0. TypeOK /\ team \in TeamAccount
  BY DEF TypeOK
<1>1. ASSUME NEW p \in Players, NEW cap \in Caps, Create(p, cap)
      PROVE  RosterMatches' /\ OneLeader' /\ DisbandedIsOver' /\ EpochsPast'
  <2>1. /\ team.leader = Nobody /\ ~team.disbanded /\ team.member_count = 0
        /\ team.membership_epoch = 0
    BY <1>1 DEF Create, NoTeam
  <2>2. members = {} /\ LiveSlots = {}
    BY <1>1, <2>1, LeaderlessEmpty DEF Create
  <2>3. /\ ~team'.disbanded /\ team'.member_count = 1 /\ team'.leader = p
        /\ team'.membership_epoch = 0
    BY <1>1 DEF Create, NoTeam
  <2>4. 0 \in Slots /\ 0 \in Ranks
    BY TeamAssumption DEF Ranks
  <2>5. slot[0].player = Nobody /\ Enter(p, 0, 0, 0)
    BY <1>1, <2>2, <2>4 DEF LiveSlots, Create
  <2> QED BY <2>1, <2>2, <2>3, <2>4, <2>5, EnterKeeps
<1>2. ASSUME NEW p \in Players, NEW i \in Slots, NEW rank \in Ranks, NEW cap \in Caps,
             rank # 0, Admit(p, i, rank, cap)
      PROVE  RosterMatches' /\ OneLeader' /\ DisbandedIsOver' /\ EpochsPast'
  <2>1. team.leader # Nobody /\ ~team.disbanded /\ team.membership_epoch \in Nat
    BY <1>2, StateTypes DEF Admit, DisbandedIsOver
  <2>2. /\ team'.leader = team.leader /\ team'.disbanded = team.disbanded
        /\ team'.member_count = team.member_count + 1
        /\ team'.membership_epoch = team.membership_epoch
    BY <1>0, <1>2 DEF Admit, TeamAccount
  <2>3. /\ Enter(p, i, rank, team.membership_epoch)
        /\ p \notin members /\ slot[i].player = Nobody
    BY <1>2 DEF Admit
  <2> QED BY <1>2, <2>1, <2>2, <2>3, EnterKeeps
<1>3. ASSUME NEW p \in Players, NEW i \in Slots, NEW cap \in Caps,
             Join(p, i, cap) \/ AcceptInvite(p, i, cap)
      PROVE  RosterMatches' /\ OneLeader' /\ DisbandedIsOver' /\ EpochsPast'
  BY <1>2, <1>3 DEF Join, AcceptInvite, Ranks
<1>4. ASSUME NEW i \in Slots, NEW p \in Players, NEW cap \in Caps, NEW lifetime \in InviteTimes,
             Invite(i, p, cap, lifetime)
      PROVE  RosterMatches' /\ OneLeader' /\ DisbandedIsOver' /\ EpochsPast'
  <2>1. UNCHANGED <<team, roster>>
    BY <1>4 DEF Invite
  <2> QED BY <2>1, RosterKept
<1>5. ASSUME NEW i \in Slots, NEW p \in Players, CancelInvite(i, p) \/ DeclineInvite(p)
      PROVE  RosterMatches' /\ OneLeader' /\ DisbandedIsOver' /\ EpochsPast'
  <2>1. UNCHANGED <<team, roster>>
    BY <1>5 DEF CancelInvite, DeclineInvite, WithdrawInvite
  <2> QED BY <2>1, RosterKept
<1>6. ASSUME NEW i \in Slots, Leave(i)
      PROVE  RosterMatches' /\ OneLeader' /\ DisbandedIsOver' /\ EpochsPast'
  BY <1>6, ExitKeeps DEF Leave
<1>7. ASSUME NEW i \in Slots, NEW j \in Slots, Kick(i, j)
      PROVE  RosterMatches' /\ OneLeader' /\ DisbandedIsOver' /\ EpochsPast'
  <2>1. Member(i) /\ Member(j) /\ slot[i].rank < slot[j].rank /\ Exit(j)
    BY <1>7 DEF Kick, HasPermission
  <2>2. slot[j].player # Nobody /\ j \in LiveSlots
    BY <2>1, MemberSlot DEF Member, LiveSlots
  <2>3. slot[j].rank # 0
    BY <2>1, StateTypes DEF Ranks
  <2>4. slot[j].player # team.leader
    BY <2>2, <2>3 DEF OneLeader
  <2> QED BY <2>1, <2>4, ExitKeeps
<1>8. ASSUME NEW i \in Slots, NEW j \in Slots, NEW rank \in RanksGiven,
             Promote(i, j, rank) \/ Demote(i, j, rank)
      PROVE  RosterMatches' /\ OneLeader' /\ DisbandedIsOver' /\ EpochsPast'
  <2>1. rank \in 1 .. 4 /\ slot[j].rank \in Ranks
    BY TeamAssumption, StateTypes
  <2>2. SetRank(j, rank) /\ slot[j].rank # 0
    BY <1>8, <2>1 DEF Promote, Demote, Ranks
  <2>3. \A k \in Slots : /\ slot'[k].player = slot[k].player
                         /\ slot'[k].joined_at_epoch = slot[k].joined_at_epoch
                         /\ slot'[k].rank = 0 <=> slot[k].rank = 0
    <3>1. slot' = [slot EXCEPT ![j] = [slot[j] EXCEPT !.rank = rank]]
      BY <2>2 DEF SetRank
    <3>2. /\ \A k \in Slots \ {j} : slot'[k] = slot[k]
          /\ slot'[j] = [slot[j] EXCEPT !.rank = rank]
          /\ slot[j] \in TeamMemberSlot
      BY <3>1 DEF TypeOK
    <3>3. /\ slot'[j].player = slot[j].player /\ slot'[j].rank = rank
          /\ slot'[j].joined_at_epoch = slot[j].joined_at_epoch
      BY <3>2 DEF TeamMemberSlot
    <3>4. rank # 0
      BY <2>1
    <3>5. ASSUME NEW k \in Slots
          PROVE  /\ slot'[k].player = slot[k].player
                 /\ slot'[k].joined_at_epoch = slot[k].joined_at_epoch
                 /\ slot'[k].rank = 0 <=> slot[k].rank = 0
      <4>1. CASE k = j
        BY <2>2, <3>3, <3>4, <4>1
      <4>2. CASE k # j
        BY <3>2, <3>5, <4>2
      <4> QED BY <4>1, <4>2
    <3> QED BY <3>5
  <2>4. UNCHANGED <<team, members, team_slot_index>>
    BY <2>2 DEF SetRank
  <2> QED BY <2>3, <2>4, SlotsKept
<1>9. ASSUME NEW i \in Slots, NEW public \in BOOLEAN, UpdateSettings(i, public)
      PROVE  RosterMatches' /\ OneLeader' /\ DisbandedIsOver' /\ EpochsPast'
  <2>1. /\ team'.leader = team.leader /\ team'.disbanded = team.disbanded
        /\ team'.member_count = team.member_count /\ team'.treasury = team.treasury
        /\ team'.membership_epoch = team.membership_epoch
    BY <1>0, <1>9 DEF UpdateSettings, TeamAccount
  <2>2. UNCHANGED roster
    BY <1>9 DEF UpdateSettings
  <2> QED BY <2>1, <2>2, RosterKept
<1> QED BY <1>1, <1>3, <1>4, <1>5, <1>6, <1>7, <1>8, <1>9, TransferKeeps, DisbandKeeps,
           TeamAssumption DEF Membership

\* The instructions of the treasury keep the invariant.
LEMMA TreasuryInv ==
  ASSUME IInv, Treasury
  PROVE  RosterMatches' /\ OneLeader' /\ DisbandedIsOver' /\ EpochsPast'
<1> USE DEF IInv
<1>0. TypeOK /\ team \in TeamAccount
  BY DEF TypeOK
<1>1. ASSUME NEW i \in Slots, NEW settings \in TreasurySettings, UpdateTreasurySettings(i, settings)
      PROVE  RosterMatches' /\ OneLeader' /\ DisbandedIsOver' /\ EpochsPast'
  <2>1. /\ team'.leader = team.leader /\ team'.disbanded = team.disbanded
        /\ team'.member_count = team.member_count /\ team'.treasury = team.treasury
        /\ team'.membership_epoch = team.membership_epoch
    BY <1>0, <1>1 DEF UpdateTreasurySettings, TeamAccount
  <2>2. UNCHANGED roster
    BY <1>1 DEF UpdateTreasurySettings
  <2> QED BY <2>1, <2>2, RosterKept
<1>2. ASSUME NEW p \in Players, NEW amount \in Amounts, Deposit(p, amount)
      PROVE  RosterMatches' /\ OneLeader' /\ DisbandedIsOver' /\ EpochsPast'
  <2>1. /\ team'.leader = team.leader /\ team'.disbanded = team.disbanded
        /\ team'.member_count = team.member_count
        /\ team'.membership_epoch = team.membership_epoch /\ ~team.disbanded
    BY <1>0, <1>2 DEF Deposit, TeamAccount
  <2>2. UNCHANGED roster
    BY <1>2 DEF Deposit
  <2> QED BY <2>1, <2>2, RosterKept
<1>3. ASSUME NEW p, NEW amount, PayOut(p, amount)
      PROVE  /\ team'.leader = team.leader /\ team'.disbanded = team.disbanded
             /\ team'.member_count = team.member_count
             /\ team'.membership_epoch = team.membership_epoch
  BY <1>0, <1>3 DEF PayOut, TeamAccount
<1>4. ASSUME NEW i \in Slots, NEW amount \in Amounts, Withdraw(i, amount)
      PROVE  RosterMatches' /\ OneLeader' /\ DisbandedIsOver' /\ EpochsPast'
  <2>1. \A k \in Slots : /\ slot'[k].player = slot[k].player
                         /\ slot'[k].joined_at_epoch = slot[k].joined_at_epoch
                         /\ slot'[k].rank = 0 <=> slot[k].rank = 0
    <3> DEFINE drawn == [slot EXCEPT ![i].withdrawn_today = WithdrawnToday(i) + amount]
    <3>1. slot' = [drawn EXCEPT ![i].last_day = Day(now)]
      BY <1>4 DEF Withdraw
    <3>2. slot \in [Slots -> TeamMemberSlot]
      BY DEF TypeOK
    <3>3. \A k \in Slots \ {i} : slot'[k] = slot[k]
      BY <3>1, <3>2
    <3>4. slot'[i] = [[slot[i] EXCEPT !.withdrawn_today = WithdrawnToday(i) + amount]
                         EXCEPT !.last_day = Day(now)]
      BY <3>1, <3>2
    <3>5. /\ slot'[i].player = slot[i].player /\ slot'[i].rank = slot[i].rank
          /\ slot'[i].joined_at_epoch = slot[i].joined_at_epoch
      BY <3>2, <3>4 DEF TeamMemberSlot
    <3> QED BY <3>3, <3>5
  <2>2. ~team.disbanded /\ UNCHANGED <<members, team_slot_index>>
    BY <1>4 DEF Withdraw
  <2>3. PayOut(slot[i].player, amount)
    BY <1>4 DEF Withdraw
  <2> QED BY <1>3, <2>1, <2>2, <2>3, SlotsKept
<1>5. ASSUME NEW i \in Slots, NEW p \in Players, ApproveRequest(i, p)
      PROVE  RosterMatches' /\ OneLeader' /\ DisbandedIsOver' /\ EpochsPast'
  <2>1. PICK q, amount : PayOut(q, amount)
    BY <1>5 DEF ApproveRequest
  <2>2. ~team.disbanded /\ UNCHANGED roster
    BY <1>5 DEF ApproveRequest
  <2> QED BY <1>3, <2>1, <2>2, RosterKept
<1>6. ASSUME NEW i \in Slots, ExecuteRequest(i)
      PROVE  RosterMatches' /\ OneLeader' /\ DisbandedIsOver' /\ EpochsPast'
  <2>1. PICK q, amount : PayOut(q, amount)
    BY <1>6 DEF ExecuteRequest
  <2>2. ~team.disbanded /\ UNCHANGED roster
    BY <1>6 DEF ExecuteRequest
  <2> QED BY <1>3, <2>1, <2>2, RosterKept
<1>7. ASSUME NEW i \in Slots, NEW amount \in Amounts, RequestWithdraw(i, amount)
      PROVE  RosterMatches' /\ OneLeader' /\ DisbandedIsOver' /\ EpochsPast'
  <2>1. UNCHANGED <<team, roster>>
    BY <1>7 DEF RequestWithdraw
  <2> QED BY <2>1, RosterKept
<1>8. ASSUME NEW i \in Slots, NEW p \in Players, RejectRequest(i, p) \/ CancelRequest(p)
      PROVE  RosterMatches' /\ OneLeader' /\ DisbandedIsOver' /\ EpochsPast'
  <2>1. UNCHANGED <<team, roster>>
    BY <1>8 DEF RejectRequest, CancelRequest
  <2> QED BY <2>1, RosterKept
<1>9. 0 \in Slots
  BY TeamAssumption
<1> QED BY <1>1, <1>2, <1>4, <1>5, <1>6, <1>7, <1>8, <1>9 DEF Treasury

\* Every step keeps the invariant.
LEMMA InvStep == IInv /\ [Next]_vars => IInv'
<1> SUFFICES ASSUME IInv, [Next]_vars PROVE IInv'
  OBVIOUS
<1>1. TypeOK'
  BY TypeStep DEF IInv
<1>2. CASE Tick \/ UNCHANGED vars
  <2>1. UNCHANGED <<team, roster>>
    BY <1>2 DEF Tick, vars, roster
  <2> QED BY <1>1, <2>1, RosterKept DEF IInv
<1>3. CASE Membership \/ Treasury
  BY <1>1, <1>3, MembershipInv, TreasuryInv DEF IInv
<1> QED BY <1>2, <1>3 DEF Next

\* The invariant holds in every state.
LEMMA Inductive == Spec => []IInv
BY InvInit, InvStep, PTL DEF Spec

\* The member count, the slots and what the players' accounts say agree in every
\* reachable state, for any number of players, slots and steps.
THEOREM RosterCorrect == Spec => []RosterMatches
<1>1. IInv => RosterMatches
  BY DEF IInv
<1> QED BY <1>1, Inductive, PTL

\* A team that is led is led by one member, whose slot is the only one of rank 0.
THEOREM LeaderCorrect == Spec => []OneLeader
<1>1. IInv => OneLeader
  BY DEF IInv
<1> QED BY <1>1, Inductive, PTL

\* A disbanded team stays empty: no members, no leader, no money.
THEOREM DisbandCorrect == Spec => []DisbandedIsOver
<1>1. IInv => DisbandedIsOver
  BY DEF IInv
<1> QED BY <1>1, Inductive, PTL

-----------------------------------------------------------------------------
(* The key of the war table *)

\* Steps that keep the members and the epoch.
LEMMA QuietEpoch ==
  ASSUME IInv, IInv', UNCHANGED members, team'.membership_epoch = team.membership_epoch
  PROVE  EpochStep
<1>1. team.membership_epoch \in Nat
  BY StateTypes DEF IInv
<1>2. EpochsPast'
  BY DEF IInv
<1> QED BY <1>1, <1>2 DEF EpochStep, EpochsPast

\* Steps that add a member, and steps that rotate.
LEMMA LoudEpoch ==
  ASSUME IInv, IInv',
         \/ members \subseteq members' /\ team'.membership_epoch = team.membership_epoch
         \/ team'.membership_epoch = team.membership_epoch + 1
  PROVE  EpochStep
<1>1. team.membership_epoch \in Nat
  BY StateTypes DEF IInv
<1>2. EpochsPast'
  BY DEF IInv
<1> QED BY <1>1, <1>2 DEF EpochStep, EpochsPast

\* The instructions of membership rotate the key when somebody loses access.
LEMMA MembershipEpoch ==
  ASSUME IInv, IInv', Membership
  PROVE  EpochStep
<1>0. team \in TeamAccount
  BY DEF IInv, TypeOK
<1>1. ASSUME NEW p \in Players, NEW cap \in Caps, Create(p, cap) PROVE EpochStep
  <2>1. members \subseteq members' /\ team'.membership_epoch = team.membership_epoch
    BY <1>1 DEF Create, Enter, NoTeam
  <2> QED BY <2>1, LoudEpoch
<1>2. ASSUME NEW p \in Players, NEW i \in Slots, NEW cap \in Caps,
             Join(p, i, cap) \/ AcceptInvite(p, i, cap)
      PROVE  EpochStep
  <2>1. members \subseteq members' /\ team'.membership_epoch = team.membership_epoch
    BY <1>0, <1>2 DEF Join, AcceptInvite, Admit, Enter, TeamAccount
  <2> QED BY <2>1, LoudEpoch
<1>3. ASSUME NEW p \in Players, NEW i \in Slots, NEW cap \in Caps, NEW lifetime \in InviteTimes,
             Invite(i, p, cap, lifetime)
      PROVE  EpochStep
  BY <1>3, QuietEpoch DEF Invite, roster
<1>4. ASSUME NEW p \in Players, NEW i \in Slots, CancelInvite(i, p) \/ DeclineInvite(p)
      PROVE  EpochStep
  BY <1>4, QuietEpoch DEF CancelInvite, DeclineInvite, WithdrawInvite, roster
<1>5. ASSUME NEW p \in Players, Disband(p) PROVE EpochStep
  <2>1. team'.membership_epoch = team.membership_epoch + 1
    BY <1>0, <1>5 DEF Disband, TeamAccount
  <2> QED BY <2>1, LoudEpoch
<1>6. ASSUME NEW i \in Slots, NEW j \in Slots, Leave(i) \/ Kick(i, j) PROVE EpochStep
  <2>1. team'.membership_epoch = team.membership_epoch + 1
    BY <1>0, <1>6 DEF Leave, Kick, Exit, OneFewer, TeamAccount
  <2> QED BY <2>1, LoudEpoch
<1>7. ASSUME NEW i \in Slots, NEW public \in BOOLEAN, UpdateSettings(i, public) PROVE EpochStep
  <2>1. UNCHANGED members /\ team'.membership_epoch = team.membership_epoch
    BY <1>0, <1>7 DEF UpdateSettings, roster, TeamAccount
  <2> QED BY <2>1, QuietEpoch
<1>8. ASSUME NEW i \in Slots, NEW j \in Slots, TransferLeadership(i, j) PROVE EpochStep
  <2>1. UNCHANGED members /\ team'.membership_epoch = team.membership_epoch
    BY <1>0, <1>8 DEF TransferLeadership, TeamAccount
  <2> QED BY <2>1, QuietEpoch
<1>9. ASSUME NEW i \in Slots, NEW j \in Slots, NEW rank \in RanksGiven,
             Promote(i, j, rank) \/ Demote(i, j, rank)
      PROVE  EpochStep
  BY <1>9, QuietEpoch DEF Promote, Demote, SetRank
<1> QED BY <1>1, <1>2, <1>3, <1>4, <1>5, <1>6, <1>7, <1>8, <1>9, TeamAssumption DEF Membership

\* The instructions of the treasury take access from nobody.
LEMMA TreasuryEpoch ==
  ASSUME IInv, IInv', Treasury
  PROVE  EpochStep
<1>0. team \in TeamAccount
  BY DEF IInv, TypeOK
<1>1. UNCHANGED members
  BY DEF Treasury, ExecuteRequest, UpdateTreasurySettings, Withdraw, RequestWithdraw,
         ApproveRequest, RejectRequest, CancelRequest, Deposit, roster
<1>2. \A p, amount : PayOut(p, amount) => team'.membership_epoch = team.membership_epoch
  BY <1>0 DEF PayOut, TeamAccount
<1>3. team'.membership_epoch = team.membership_epoch
  <2>1. CASE \E p, amount : PayOut(p, amount)
    BY <1>2, <2>1
  <2>2. CASE UNCHANGED team
    BY <2>2
  <2>3. CASE \E i, settings : UpdateTreasurySettings(i, settings)
    BY <1>0, <2>3 DEF UpdateTreasurySettings, TeamAccount
  <2>4. CASE \E p, amount : Deposit(p, amount)
    BY <1>0, <2>4 DEF Deposit, TeamAccount
  <2> QED BY <2>1, <2>2, <2>3, <2>4 DEF Treasury, ExecuteRequest, Withdraw, RequestWithdraw,
             ApproveRequest, RejectRequest, CancelRequest
<1> QED BY <1>1, <1>3, QuietEpoch

\* Nobody loses access without a new epoch, in any run of any team.
THEOREM KeyRotation == Spec => KeyRotates
<1>1. IInv /\ IInv' /\ [Next]_vars => [EpochStep]_vars
  <2> SUFFICES ASSUME IInv, IInv', [Next]_vars PROVE [EpochStep]_vars
    OBVIOUS
  <2>1. CASE Tick
    BY <2>1, QuietEpoch DEF Tick, roster
  <2> QED BY <2>1, MembershipEpoch, TreasuryEpoch DEF Next
<1> QED BY <1>1, Inductive, PTL DEF Spec, KeyRotates

-----------------------------------------------------------------------------
(* Money *)

\* What one player gains is what the treasury loses, and the other way round.
LEMMA MoneyMoves ==
  ASSUME TypeOK, NEW p \in Players, NEW gain \in Int,
         team'.treasury = team.treasury - gain,
         cash' = [cash EXCEPT ![p] = @ + gain]
  PROVE  MoneyStep
<1>1. \A q \in Players : cash[q] \in Int /\ cash'[q] \in Int
  BY DEF TypeOK
<1>2. cash'[p] = cash[p] + gain /\ \A q \in Players \ {p} : cash'[q] = cash[q]
  BY DEF TypeOK
<1>3. SumOver(cash', Players) = SumOver(cash, Players) - cash[p] + cash'[p]
  <2>1. IsFiniteSet(Players)
    BY TeamAssumption
  <2>2. ASSUME NEW h,
               \A q \in Players : cash[q] \in Int /\ h[q] \in Int,
               \A q \in Players \ {p} : h[q] = cash[q]
        PROVE  SumOver(h, Players) = SumOver(cash, Players) - cash[p] + h[p]
    BY <2>1, <2>2, SumChange
  <2> QED BY <1>1, <1>2, <2>2
<1>4. SumOver(cash, Players) \in Int /\ team.treasury \in Int /\ cash[p] \in Int
  BY <1>1, TeamAssumption, SumInt, StateTypes
<1> QED BY <1>2, <1>3, <1>4 DEF MoneyStep

\* Every step conserves the money.
LEMMA MoneyOnly ==
  ASSUME TypeOK, Next
  PROVE  MoneyStep
<1>0. team \in TeamAccount
  BY DEF TypeOK
<1>1. ASSUME NEW p \in Players, NEW amount \in Nat, PayOut(p, amount) PROVE MoneyStep
  <2>1. team'.treasury = team.treasury - amount
    BY <1>0, <1>1 DEF PayOut, TeamAccount
  <2>2. amount \in Int
    OBVIOUS
  <2>3. cash' = [cash EXCEPT ![p] = @ + amount]
    BY <1>1 DEF PayOut
  <2> QED BY <2>1, <2>2, <2>3, MoneyMoves
<1>2. ASSUME NEW i \in Slots, NEW amount \in Amounts, Withdraw(i, amount) PROVE MoneyStep
  BY <1>1, <1>2, StateTypes, TeamAssumption DEF Withdraw
<1>3. ASSUME NEW i \in Slots, NEW p \in Players, ApproveRequest(i, p) PROVE MoneyStep
  BY <1>1, <1>3, StateTypes DEF ApproveRequest
<1>4. ASSUME NEW i \in Slots, ExecuteRequest(i) PROVE MoneyStep
  BY <1>1, <1>4, StateTypes DEF ExecuteRequest
<1>5. ASSUME NEW p \in Players, NEW amount \in Amounts, Deposit(p, amount) PROVE MoneyStep
  <2>1. amount \in Nat /\ -amount \in Int /\ cash[p] \in Nat /\ team.treasury \in Nat
    BY StateTypes, TeamAssumption
  <2>2. team'.treasury = team.treasury - (-amount)
    BY <1>0, <1>5, <2>1 DEF Deposit, TeamAccount
  <2>3. cash' = [cash EXCEPT ![p] = @ + (-amount)]
    BY <1>5, <2>1 DEF Deposit
  <2> QED BY <2>1, <2>2, <2>3, MoneyMoves
<1>6. ASSUME NEW p \in Players, Disband(p) PROVE MoneyStep
  <2>1. team.treasury \in Int
    BY StateTypes
  <2>2. team'.treasury = team.treasury - team.treasury
    BY <1>0, <1>6, <2>1 DEF Disband, TeamAccount
  <2>3. cash' = [cash EXCEPT ![p] = @ + team.treasury]
    BY <1>6 DEF Disband
  <2> QED BY <2>1, <2>2, <2>3, MoneyMoves
<1>7. CASE UNCHANGED cash /\ team'.treasury = team.treasury
  BY <1>7 DEF MoneyStep
<1>8. ASSUME Membership, \A p \in Players : ~Disband(p)
      PROVE  UNCHANGED cash /\ team'.treasury = team.treasury
  <2>1. UNCHANGED cash
    BY <1>8 DEF Membership, Create, Join, AcceptInvite, Invite, CancelInvite, DeclineInvite,
                WithdrawInvite, Leave, Kick, UpdateSettings, TransferLeadership, Promote,
                Demote, SetRank
  <2>2. ASSUME NEW p, NEW cap, Create(p, cap) PROVE team'.treasury = team.treasury
    BY <2>2 DEF Create, NoTeam
  <2>3. ASSUME NEW p, NEW i, NEW rank, NEW cap, Admit(p, i, rank, cap)
        PROVE  team'.treasury = team.treasury
    BY <1>0, <2>3 DEF Admit, TeamAccount
  <2>4. ASSUME NEW i, Exit(i) PROVE team'.treasury = team.treasury
    BY <1>0, <2>4 DEF Exit, OneFewer, TeamAccount
  <2>5. ASSUME NEW i, NEW j, TransferLeadership(i, j) PROVE team'.treasury = team.treasury
    BY <1>0, <2>5 DEF TransferLeadership, TeamAccount
  <2>6. ASSUME NEW i, NEW public, UpdateSettings(i, public) PROVE team'.treasury = team.treasury
    BY <1>0, <2>6 DEF UpdateSettings, TeamAccount
  <2>7. team'.treasury = team.treasury
    BY <1>8, <2>2, <2>3, <2>4, <2>5, <2>6
       DEF Membership, Join, AcceptInvite, Invite, CancelInvite, DeclineInvite,
           WithdrawInvite, Leave, Kick, Promote, Demote, SetRank
  <2> QED BY <2>1, <2>7
<1>9. ASSUME NEW i \in Slots, NEW settings, UpdateTreasurySettings(i, settings) PROVE MoneyStep
  BY <1>0, <1>7, <1>9 DEF UpdateTreasurySettings, TeamAccount
<1>10. ASSUME NEW i \in Slots, NEW p, NEW amount,
              RequestWithdraw(i, amount) \/ RejectRequest(i, p) \/ CancelRequest(p)
       PROVE  MoneyStep
  BY <1>7, <1>10 DEF RequestWithdraw, RejectRequest, CancelRequest
<1>11. CASE Treasury
  <2>1. 0 \in Slots
    BY TeamAssumption
  <2> QED BY <1>2, <1>3, <1>4, <1>5, <1>9, <1>10, <1>11, <2>1 DEF Treasury
<1>12. CASE Membership
  BY <1>6, <1>7, <1>8, <1>12
<1>13. CASE Tick
  BY <1>7, <1>13 DEF Tick
<1> QED BY <1>11, <1>12, <1>13 DEF Next

\* Money is neither made nor lost, whatever the players and the amounts.
THEOREM MoneyKept == Spec => MoneyConserved
<1>1. TypeOK /\ [Next]_vars => [MoneyStep]_vars
  BY MoneyOnly
<1> QED BY <1>1, TypeCorrect, PTL DEF Spec, MoneyConserved

-----------------------------------------------------------------------------
(* The terms of payment *)

\* A step that pays q no more than before pays no request of q.
LEMMA NotPaid ==
  ASSUME TypeOK, NEW q \in Players, cash'[q] = cash[q] \/ request'[q] = request[q]
  PROVE  ~Paid(q)
<1>1. cash[q] \in Nat
  BY StateTypes
<1> QED BY <1>1 DEF Paid

\* The instructions of membership touch no request.
LEMMA MembershipPays ==
  ASSUME TypeOK, Membership
  PROVE  UNCHANGED request
<1>1. \A p, cap : Create(p, cap) => UNCHANGED request
  BY DEF Create
<1>2. /\ \A p, i, cap : Join(p, i, cap) \/ AcceptInvite(p, i, cap) => UNCHANGED request
      /\ \A p, i, cap, lifetime : Invite(i, p, cap, lifetime) => UNCHANGED request
  BY DEF Join, AcceptInvite, Invite
<1>3. /\ \A p, i : CancelInvite(i, p) => UNCHANGED request
      /\ \A p : DeclineInvite(p) \/ Disband(p) => UNCHANGED request
  BY DEF CancelInvite, DeclineInvite, WithdrawInvite, Disband
<1>4. /\ \A i : Leave(i) => UNCHANGED request
      /\ \A i, public : UpdateSettings(i, public) => UNCHANGED request
  BY DEF Leave, UpdateSettings
<1>5. /\ \A i, j : Kick(i, j) \/ TransferLeadership(i, j) => UNCHANGED request
      /\ \A i, j, rank : Promote(i, j, rank) \/ Demote(i, j, rank) => UNCHANGED request
  BY DEF Kick, TransferLeadership, Promote, Demote, SetRank
<1> QED BY <1>1, <1>2, <1>3, <1>4, <1>5 DEF Membership

\* What closing the request of p and paying its amount does to the others.
LEMMA OnePaid ==
  ASSUME TypeOK, NEW p \in Players, CloseRequest(p), PayOut(p, request[p].amount)
  PROVE  /\ cash'[p] = cash[p] + request[p].amount
         /\ \A q \in Players \ {p} : ~Paid(q)
<1>1. cash'[p] = cash[p] + request[p].amount
  BY DEF PayOut, TypeOK
<1>2. \A q \in Players \ {p} : cash'[q] = cash[q]
  BY DEF PayOut, TypeOK
<1> QED BY <1>1, <1>2, NotPaid

\* An approval pays one request in full.
LEMMA ApprovalPays ==
  ASSUME IInv, NEW i \in Slots, NEW p \in Players, ApproveRequest(i, p)
  PROVE  PaymentStep
<1>1. CloseRequest(p) /\ PayOut(p, request[p].amount) /\ p \in members /\ ~Expired(request[p])
  BY DEF ApproveRequest
<1>2. cash'[p] = cash[p] + request[p].amount /\ \A q \in Players \ {p} : ~Paid(q)
  BY <1>1, OnePaid DEF IInv
<1>3. p # team.leader
  <2>1. /\ team_slot_index[p] \in LiveSlots /\ team_slot_index[p] \in Slots
        /\ slot[team_slot_index[p]].player = p
    BY <1>1, MemberSlot DEF LiveSlots
  <2>2. slot[i].rank \in 0 .. 4 /\ slot[i].rank < slot[team_slot_index[p]].rank
    BY StateTypes DEF IInv, ApproveRequest, Ranks
  <2>3. slot[team_slot_index[p]].rank # 0
    BY <2>2
  <2>4. p # Nobody
    BY TeamAssumption
  <2> QED BY <2>1, <2>3, <2>4 DEF IInv, OneLeader
<1> QED BY <1>1, <1>2, <1>3 DEF PaymentStep

\* An execution pays one request in full.
LEMMA ExecutionPays ==
  ASSUME IInv, NEW i \in Slots, ExecuteRequest(i)
  PROVE  PaymentStep
<1> DEFINE p == slot[i].player
<1>1. /\ CloseRequest(p) /\ PayOut(p, request[p].amount) /\ p \in members
      /\ ~Expired(request[p]) /\ Executable(request[p])
  BY DEF ExecuteRequest, Member
<1>2. p \in Players
  BY <1>1 DEF IInv, TypeOK
<1>3. cash'[p] = cash[p] + request[p].amount /\ \A q \in Players \ {p} : ~Paid(q)
  BY <1>1, <1>2, OnePaid DEF IInv
<1> QED BY <1>1, <1>3 DEF PaymentStep, Executable

\* Every step pays on the terms of the moment.
LEMMA PaymentKept ==
  ASSUME IInv, Next
  PROVE  PaymentStep
<1>1. CASE \E i \in Slots, p \in Players : ApproveRequest(i, p)
  BY <1>1, ApprovalPays
<1>2. CASE \E i \in Slots : ExecuteRequest(i)
  BY <1>2, ExecutionPays
<1>3. CASE \A q \in Players : cash'[q] = cash[q] \/ request'[q] = request[q]
  BY <1>3, NotPaid DEF PaymentStep, IInv
<1>4. UNCHANGED request => PaymentStep
  BY <1>3
<1>5. UNCHANGED cash => PaymentStep
  BY <1>3
<1>6. ASSUME NEW i \in Slots, NEW p, NEW amount, NEW settings,
             \/ UpdateTreasurySettings(i, settings)
             \/ Withdraw(i, amount) \/ RequestWithdraw(i, amount) \/ RejectRequest(i, p)
             \/ CancelRequest(p) \/ Deposit(p, amount)
      PROVE  PaymentStep
  BY <1>4, <1>5, <1>6 DEF UpdateTreasurySettings, Withdraw, RequestWithdraw, RejectRequest,
     CancelRequest, Deposit
<1>7. CASE Treasury
  <2>1. 0 \in Slots
    BY TeamAssumption
  <2> QED BY <1>1, <1>2, <1>6, <1>7, <2>1 DEF Treasury
<1>8. CASE Tick
  BY <1>4, <1>8 DEF Tick
<1>9. CASE Membership
  BY <1>4, <1>9, MembershipPays DEF IInv
<1> QED BY <1>7, <1>8, <1>9 DEF Next

\* However ranks, leaders and settings change between request and payment, a
\* request is paid fresh, in full and to a member, and the leader's after the wait.
THEOREM PaymentTerms == Spec => PaymentsOnTerms
<1>1. IInv /\ [Next]_vars => [PaymentStep]_vars
  BY PaymentKept
<1> QED BY <1>1, Inductive, PTL DEF Spec, PaymentsOnTerms

-----------------------------------------------------------------------------
(* The daily cap *)

\* Slots that change hands or keep their record draw nothing.
LEMMA NothingDrawn ==
  ASSUME \A k \in Slots : \/ slot'[k].withdrawn_today = slot[k].withdrawn_today
                          \/ slot'[k].player = Nobody
                          \/ slot'[k].player # slot[k].player
  PROVE  DrawStep
BY DEF DrawStep

\* An entry starts with nothing drawn.
LEMMA EntryDraws ==
  ASSUME TypeOK, NEW p \in Players, NEW i \in Slots, NEW rank, NEW epoch,
         Enter(p, i, rank, epoch), slot[i].player = Nobody
  PROVE  DrawStep
<1>1. slot'[i] = NewSlot(p, rank, epoch) /\ \A k \in Slots \ {i} : slot'[k] = slot[k]
  BY DEF Enter, TypeOK
<1>2. slot'[i].player = p /\ p # Nobody
  BY <1>1, TeamAssumption DEF NewSlot
<1> QED BY <1>1, <1>2, NothingDrawn

\* An exit draws nothing.
LEMMA ExitDraws ==
  ASSUME TypeOK, NEW i \in Slots, Exit(i)
  PROVE  DrawStep
<1>1. slot'[i] = NoSlot /\ \A k \in Slots \ {i} : slot'[k] = slot[k]
  BY DEF Exit, TypeOK
<1>2. slot'[i].player = Nobody
  BY <1>1 DEF NoSlot, NewSlot
<1> QED BY <1>1, <1>2, NothingDrawn

\* The field rank of a slot is another than the record of the day.
LEMMA RankDraws ==
  ASSUME TypeOK, NEW j \in Slots, NEW rank, SetRank(j, rank)
  PROVE  DrawStep
<1>1. \A k \in Slots : slot[k] \in TeamMemberSlot
  BY DEF TypeOK
<1>2. slot' = [slot EXCEPT ![j].rank = rank]
  BY DEF SetRank
<1>3. \A k \in Slots : slot'[k] = IF k = j THEN [slot[j] EXCEPT !.rank = rank] ELSE slot[k]
  BY <1>2 DEF TypeOK
<1>4. \A k \in Slots : slot'[k].withdrawn_today = slot[k].withdrawn_today
  BY <1>1, <1>3 DEF TeamMemberSlot
<1> QED BY <1>4, NothingDrawn

\* A transfer of leadership draws nothing.
LEMMA TransferDraws ==
  ASSUME TypeOK, NEW i \in Slots, NEW j \in Slots, TransferLeadership(i, j)
  PROVE  DrawStep
<1> DEFINE lowered == [slot EXCEPT ![i].rank = 1]
<1>1. \A k \in Slots : slot[k] \in TeamMemberSlot
  BY DEF TypeOK
<1>2. slot' = [lowered EXCEPT ![j].rank = 0]
  BY DEF TransferLeadership
<1>3. /\ \A k \in Slots : lowered[k] = IF k = i THEN [slot[i] EXCEPT !.rank = 1] ELSE slot[k]
      /\ DOMAIN lowered = Slots
  BY DEF TypeOK
<1>4. \A k \in Slots : /\ lowered[k] \in TeamMemberSlot
                       /\ lowered[k].withdrawn_today = slot[k].withdrawn_today
  BY <1>1, <1>3 DEF TeamMemberSlot, Ranks
<1>5. \A k \in Slots : slot'[k] = IF k = j THEN [lowered[j] EXCEPT !.rank = 0] ELSE lowered[k]
  BY <1>2, <1>3
<1>6. \A k \in Slots : slot'[k].withdrawn_today = lowered[k].withdrawn_today
  BY <1>4, <1>5 DEF TeamMemberSlot
<1> QED BY <1>4, <1>6, NothingDrawn

\* A withdrawal stays within the cap of the day.
LEMMA WithdrawalDraws ==
  ASSUME TypeOK, NEW i \in Slots, NEW amount \in Amounts, Withdraw(i, amount)
  PROVE  DrawStep
<1> DEFINE drawn == [slot EXCEPT ![i].withdrawn_today = WithdrawnToday(i) + amount]
<1>1. slot' = [drawn EXCEPT ![i].last_day = Day(now)]
  BY DEF Withdraw
<1>2. slot \in [Slots -> TeamMemberSlot] /\ slot[i] \in TeamMemberSlot
  BY DEF TypeOK
<1>3. \A k \in Slots \ {i} : slot'[k] = slot[k]
  BY <1>1, <1>2
<1>4. slot'[i].withdrawn_today = WithdrawnToday(i) + amount
  <2>1. slot'[i] = [[slot[i] EXCEPT !.withdrawn_today = WithdrawnToday(i) + amount]
                       EXCEPT !.last_day = Day(now)]
    BY <1>1, <1>2
  <2> QED BY <1>2, <2>1 DEF TeamMemberSlot
<1>5. team.treasury - team'.treasury = amount
  <2>1. team' = [team EXCEPT !.treasury = @ - amount]
    BY DEF Withdraw, PayOut
  <2>2. team'.treasury = team.treasury - amount
    BY <2>1 DEF TypeOK, TeamAccount
  <2>3. team.treasury \in Nat /\ amount \in Nat
    BY StateTypes, TeamAssumption
  <2> QED BY <2>2, <2>3
<1>6. slot[i].rank # 0 => WithdrawnToday(i) + amount <= team.settings.daily_cap[slot[i].rank]
  <2> SUFFICES ASSUME slot[i].rank # 0
               PROVE  WithdrawnToday(i) + amount <= team.settings.daily_cap[slot[i].rank]
    OBVIOUS
  <2>1. amount <= SatSub(team.settings.daily_cap[slot[i].rank], WithdrawnToday(i))
    BY DEF Withdraw, CanWithdrawInstant
  <2>2. slot[i].rank \in 1 .. 4
    BY StateTypes DEF Ranks
  <2>3. team.settings.daily_cap \in [1 .. 4 -> Nat]
    BY StateTypes, TeamAssumption
  <2>4. team.settings.daily_cap[slot[i].rank] \in Nat
    BY <2>2, <2>3
  <2>5. WithdrawnToday(i) \in Nat /\ amount \in Nat /\ amount > 0
    BY StateTypes, TeamAssumption DEF WithdrawnToday
  <2> QED BY <2>1, <2>4, <2>5 DEF SatSub
<1> QED BY <1>3, <1>4, <1>5, <1>6 DEF DrawStep

\* Every step keeps draws within the cap of the day.
LEMMA DrawKept ==
  ASSUME IInv, Next
  PROVE  DrawStep
<1>0. TypeOK /\ (UNCHANGED slot => DrawStep)
  BY NothingDrawn DEF IInv
<1>1. ASSUME NEW p \in Players, NEW cap \in Caps, Create(p, cap) PROVE DrawStep
  <2>1. LiveSlots = {} /\ 0 \in Slots
    BY <1>1, LeaderlessEmpty, TeamAssumption DEF Create, NoTeam
  <2>2. slot[0].player = Nobody
    BY <2>1 DEF LiveSlots
  <2> QED BY <1>0, <1>1, <2>1, <2>2, EntryDraws DEF Create
<1>2. ASSUME NEW p \in Players, NEW i \in Slots, NEW cap \in Caps,
             Join(p, i, cap) \/ AcceptInvite(p, i, cap)
      PROVE  DrawStep
  BY <1>0, <1>2, EntryDraws DEF Join, AcceptInvite, Admit
<1>3. ASSUME NEW i \in Slots, NEW j \in Slots, Leave(i) \/ Kick(i, j) PROVE DrawStep
  BY <1>0, <1>3, ExitDraws DEF Leave, Kick
<1>4. ASSUME NEW i \in Slots, NEW j \in Slots, NEW rank, Promote(i, j, rank) \/ Demote(i, j, rank)
      PROVE  DrawStep
  BY <1>0, <1>4, RankDraws DEF Promote, Demote
<1>5. CASE Membership
  BY <1>0, <1>1, <1>2, <1>3, <1>4, <1>5, TransferDraws, TeamAssumption
     DEF Membership, Invite, CancelInvite, DeclineInvite, WithdrawInvite, Disband,
         UpdateSettings, roster
<1>6. CASE Treasury
  BY <1>0, <1>6, WithdrawalDraws
     DEF Treasury, ExecuteRequest, UpdateTreasurySettings, RequestWithdraw, ApproveRequest,
         RejectRequest, CancelRequest, Deposit, roster
<1>7. CASE Tick
  BY <1>0, <1>7 DEF Tick, roster
<1> QED BY <1>5, <1>6, <1>7 DEF Next

\* No sequence of withdrawals takes a slot past the daily cap of its rank.
THEOREM DailyCap == Spec => DailyCapHolds
<1>1. IInv /\ [Next]_vars => [DrawStep]_vars
  BY DrawKept
<1> QED BY <1>1, Inductive, PTL DEF Spec, DailyCapHolds

\* Roster, leadership and the end of a team agree in every reachable state.
THEOREM MembershipCorrect == Spec => []MembershipSound
BY RosterCorrect, LeaderCorrect, DisbandCorrect, PTL DEF MembershipSound


=============================================================================
