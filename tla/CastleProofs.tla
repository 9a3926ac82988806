---------------------------- MODULE CastleProofs ----------------------------
(* Theorems about Castle, for every value of its constants. *)
EXTENDS Castle, TLAPS, FiniteSetTheorems

-----------------------------------------------------------------------------
(* Type correctness *)

\* The fields of the accounts have their types.
LEMMA StateTypes ==
  ASSUME TypeOK
  PROVE  /\ now \in Nat
         /\ castle.status \in Status
         /\ castle.king \in Players \cup {Nobody} /\ castle.team \in Teams \cup {Nobody}
         /\ castle.contest_end_at \in Nat
         /\ castle.garrison_count \in Nat /\ castle.max_garrison \in Nat
         /\ castle.court_count \in Nat /\ castle.max_court \in Nat
         /\ castle.chambers_level \in Nat /\ castle.upgrade_target_level \in Nat
         /\ castle.upgrade_end_at \in Nat
         /\ castle.transition_new_king \in Players \cup {Nobody}
         /\ castle.membership_epoch \in 0 .. EpochMax
         /\ \A p \in Players :
               /\ garrison[p] \in GarrisonContribution
               /\ garrison[p].open \in BOOLEAN /\ garrison[p].units \in Nat
               /\ units[p] \in Nat
               /\ team_of[p] \in Teams \cup {Nobody}
<1>1. castle \in CastleAccount
  BY DEF TypeOK
<1>2. ASSUME NEW p \in Players
      PROVE  /\ garrison[p] \in GarrisonContribution
             /\ garrison[p].open \in BOOLEAN /\ garrison[p].units \in Nat
             /\ units[p] \in Nat
             /\ team_of[p] \in Teams \cup {Nobody}
  <2>1. garrison[p] \in GarrisonContribution
    BY DEF TypeOK
  <2> QED BY <2>1 DEF GarrisonContribution, TypeOK
<1> QED BY <1>1, <1>2 DEF TypeOK, CastleAccount

\* Epochs and counts stay in their ranges.
LEMMA Saturation ==
  ASSUME TypeOK
  PROVE  /\ NextEpoch \in 0 .. EpochMax
         /\ NextEpoch > castle.membership_epoch \/ castle.membership_epoch = EpochMax
         /\ \A n \in Nat : SatDec(n) \in Nat /\ SatDec(n) <= n
<1>1. castle.membership_epoch \in 0 .. EpochMax /\ EpochMax \in Nat
  BY StateTypes, CastleAssumption
<1> QED BY <1>1 DEF NextEpoch, SatInc, SatDec

\* Registries of the right type, none of them with more castles than a king may rule.
RegistryOK(reg) ==
    /\ reg \in [Players -> [Entries -> Nat]]
    /\ \A p \in Players : castle_count(reg, p) <= MAX_CASTLES_PER_KING

\* The registries after entry e of k has become n.
WithEntry(reg, k, e, n) == [reg EXCEPT ![k][e] = n]

\* A step that changes one entry of one registry changes one count.
LEMMA OneEntry ==
  ASSUME NEW reg, RegistryOK(reg), NEW k \in Players, NEW e \in Entries, NEW n \in Nat
  PROVE  /\ WithEntry(reg, k, e, n) \in [Players -> [Entries -> Nat]]
         /\ \A p \in Players \ {k} :
               castle_count(WithEntry(reg, k, e, n), p) = castle_count(reg, p)
         /\ castle_count(WithEntry(reg, k, e, n), k) = castle_count(reg, k) - reg[k][e] + n
<1> DEFINE new == WithEntry(reg, k, e, n)
<1>1. reg \in [Players -> [Entries -> Nat]]
  BY DEF RegistryOK
<1>2. new \in [Players -> [Entries -> Nat]]
  BY <1>1 DEF WithEntry
<1>3. \A p \in Players \ {k} : new[p] = reg[p]
  BY <1>1 DEF WithEntry
<1>4. new[k] = [reg[k] EXCEPT ![e] = n] /\ reg[k] \in [Entries -> Nat]
  BY <1>1 DEF WithEntry
<1>5. castle_count(new, k) = castle_count(reg, k) - reg[k][e] + n
  <2> HIDE DEF new
  <2>1. "here" \in Entries /\ "elsewhere" \in Entries
    BY DEF Entries
  <2>2. reg[k]["here"] \in Nat /\ reg[k]["elsewhere"] \in Nat
    BY <1>4, <2>1
  <2>3. CASE e = "here"
    <3>1. new[k]["here"] = n /\ new[k]["elsewhere"] = reg[k]["elsewhere"]
      BY <1>4, <2>1, <2>3
    <3> QED BY <2>2, <2>3, <3>1 DEF castle_count
  <2>4. CASE e = "elsewhere"
    <3>1. new[k]["elsewhere"] = n /\ new[k]["here"] = reg[k]["here"]
      BY <1>4, <2>1, <2>4
    <3> QED BY <2>2, <2>4, <3>1 DEF castle_count
  <2> QED BY <2>3, <2>4 DEF Entries
<1> QED BY <1>2, <1>3, <1>5 DEF castle_count

\* An entry that goes leaves the registries in order.
LEMMA UnlistedOK ==
  ASSUME NEW reg, RegistryOK(reg), NEW k \in Players, NEW e \in Entries
  PROVE  RegistryOK(Unlisted(reg, k, e))
<1> DEFINE n == SatDec(reg[k][e])
<1>1. reg[k][e] \in Nat /\ MAX_CASTLES_PER_KING \in Nat
  BY CastleAssumption DEF RegistryOK
<1>2. n \in Nat /\ n <= reg[k][e]
  BY <1>1 DEF SatDec
<1>3. Unlisted(reg, k, e) = WithEntry(reg, k, e, n)
  BY DEF Unlisted, WithEntry
<1>4. castle_count(reg, k) \in Nat /\ castle_count(reg, k) <= MAX_CASTLES_PER_KING
  BY DEF RegistryOK, castle_count, Entries
<1>5. castle_count(reg, k) - reg[k][e] + n <= MAX_CASTLES_PER_KING
  BY <1>1, <1>2, <1>4
<1> HIDE DEF n
<1>6. /\ Unlisted(reg, k, e) \in [Players -> [Entries -> Nat]]
      /\ \A p \in Players \ {k} : castle_count(Unlisted(reg, k, e), p) = castle_count(reg, p)
      /\ castle_count(Unlisted(reg, k, e), k) <= MAX_CASTLES_PER_KING
  BY <1>2, <1>3, <1>5, OneEntry
<1> QED BY <1>6 DEF RegistryOK

\* An entry is added only where there is room for it.
LEMMA ListedOK ==
  ASSUME RegistryOK(registry), NEW k \in Players, NEW e \in Entries, can_claim_castle(k)
  PROVE  RegistryOK(Listed(registry, k, e))
<1> DEFINE n == registry[k][e] + 1
<1>1. registry[k][e] \in Nat /\ MAX_CASTLES_PER_KING \in Nat
  BY CastleAssumption DEF RegistryOK
<1>2. Listed(registry, k, e) = WithEntry(registry, k, e, n)
  BY DEF Listed, WithEntry
<1>3. castle_count(registry, k) \in Nat /\ castle_count(registry, k) < MAX_CASTLES_PER_KING
  BY DEF RegistryOK, castle_count, Entries, can_claim_castle
<1>4. n \in Nat /\ castle_count(registry, k) - registry[k][e] + n <= MAX_CASTLES_PER_KING
  BY <1>1, <1>3
<1> HIDE DEF n
<1>5. /\ Listed(registry, k, e) \in [Players -> [Entries -> Nat]]
      /\ \A p \in Players \ {k} :
            castle_count(Listed(registry, k, e), p) = castle_count(registry, p)
      /\ castle_count(Listed(registry, k, e), k) <= MAX_CASTLES_PER_KING
  BY <1>2, <1>4, OneEntry
<1> QED BY <1>5 DEF RegistryOK

\* So does the end of a reign, whatever castle the transaction names.
LEMMA DethronedOK ==
  ASSUME TypeOK, NEW reg, RegistryOK(reg), NEW named \in BOOLEAN, NEW e \in Entries
  PROVE  RegistryOK(Dethroned(reg, named, e))
BY StateTypes, UnlistedOK DEF Dethroned

\* Instructions that change the throne keep the types.
LEMMA ThroneTypes ==
  ASSUME TypeOK, Throne
  PROVE  TypeOK'
<1>0. castle \in CastleAccount /\ NextEpoch \in 0 .. EpochMax /\ RegistryOK(registry)
  BY Saturation DEF TypeOK, RegistryOK
<1>1. ASSUME NEW p \in Players, NEW cap \in Caps, claim_vacant_castle(p, cap) PROVE TypeOK'
  <2>1. cap \in Nat /\ now + CONTEST_DURATION \in Nat /\ team_of[p] \in Teams \cup {Nobody}
    BY CastleAssumption, StateTypes
  <2>2. castle' \in CastleAccount
    BY <1>0, <1>1, <2>1 DEF claim_vacant_castle, CastleAccount, Status
  <2>3. RegistryOK(registry')
    BY <1>0, <1>1, ListedOK DEF claim_vacant_castle, Entries
  <2> QED BY <1>1, <2>2, <2>3 DEF claim_vacant_castle, TypeOK, RegistryOK
<1>2. CASE update_castle_status
  <2>1. castle' \in CastleAccount
    BY <1>0, <1>2 DEF update_castle_status, CastleAccount, Status
  <2> QED BY <1>2, <2>1 DEF update_castle_status, TypeOK
<1>3. \A p \in Players : Conquered(p) \in CastleAccount
  <2>1. now + CONTEST_DURATION \in Nat
    BY CastleAssumption, StateTypes
  <2> QED BY <1>0, <2>1 DEF Conquered, CastleAccount, Status
<1>4. ASSUME NEW p \in Players, NEW present \in SUBSET Garrison, NEW fallen \in SUBSET present,
             NEW casualties, NEW left \in {0, units[p]},
             attack_castle(p, present, casualties, fallen, left)
      PROVE  TypeOK'
  <2>1. castle' \in CastleAccount
    BY <1>0, <1>3, <1>4 DEF attack_castle
  <2>2. left \in Nat
    BY StateTypes
  <2>3. units' \in [Players -> Nat]
    BY <1>4, <2>2 DEF attack_castle, TypeOK
  <2>4. \A q \in Players : [garrison[q] EXCEPT !.units = 0] \in GarrisonContribution
    BY StateTypes DEF GarrisonContribution
  <2>5. garrison' \in [Players -> GarrisonContribution]
    BY <1>4, <2>4, StateTypes DEF attack_castle
  <2> QED BY <1>4, <2>1, <2>3, <2>5 DEF attack_castle, TypeOK
<1>5. ASSUME NEW p \in Players, rally_attack(p) PROVE TypeOK'
  BY <1>3, <1>5 DEF rally_attack, TypeOK
<1>6. NoKing("VACANT") \in CastleAccount /\ NoKing("TRANSITIONING") \in CastleAccount
  BY <1>0 DEF NoKing, CastleAccount, Status
<1>7. ASSUME NEW cap \in Caps, NEW named \in BOOLEAN, NEW e \in Entries,
             finalize_transition(cap, named, e)
      PROVE  TypeOK'
  <2> DEFINE k == castle.transition_new_king
  <2>1. k \in Players \cup {Nobody} /\ now \in Nat /\ cap \in Nat
    BY CastleAssumption, StateTypes
  <2>2. CASE k = Nobody
    <3>1. castle' \in CastleAccount
      BY <1>6, <1>7, <2>2 DEF finalize_transition, CastleAccount
    <3>2. registry' = Dethroned(registry, named, e)
      BY <1>7, <2>2 DEF finalize_transition
    <3>3. RegistryOK(registry')
      BY <1>0, <3>2, DethronedOK
    <3> QED BY <1>7, <3>1, <3>3 DEF finalize_transition, TypeOK, RegistryOK
  <2>3. CASE k # Nobody
    <3>1. team_of[k] \in Teams \cup {Nobody}
      BY <2>1, <2>3, StateTypes
    <3>2. castle' \in CastleAccount
      <4>1. castle' = [castle EXCEPT !.king = k, !.team = team_of[k], !.max_garrison = cap,
                                     !.transition_new_king = Nobody, !.status = "PROTECTED",
                                     !.membership_epoch = NextEpoch, !.contest_end_at = now]
        BY <1>7, <2>3 DEF finalize_transition
      <4> HIDE DEF k
      <4> QED BY <1>0, <2>1, <2>3, <3>1, <4>1 DEF CastleAccount, Status
    <3>3. can_claim_castle(k) /\ registry' = Dethroned(Listed(registry, k, e), named, e)
      BY <1>7, <2>3 DEF finalize_transition
    <3>4. RegistryOK(registry')
      BY <1>0, <2>1, <2>3, <3>3, DethronedOK, ListedOK
    <3> QED BY <1>7, <3>2, <3>4 DEF finalize_transition, TypeOK, RegistryOK
  <2> QED BY <2>2, <2>3
<1>8. CASE force_remove_king
  <2>1. castle.king \in Players
    BY <1>8, StateTypes DEF force_remove_king
  <2>2. RegistryOK(registry')
    BY <1>0, <1>8, <2>1, UnlistedOK DEF force_remove_king
  <2> QED BY <1>6, <1>8, <2>2 DEF force_remove_king, TypeOK, RegistryOK
<1>9. ASSUME NEW p \in Players, NEW e \in Entries, other_castle(p, e) PROVE TypeOK'
  <2>1. RegistryOK(registry')
    BY <1>0, <1>9, ListedOK, UnlistedOK DEF other_castle
  <2> QED BY <1>9, <2>1 DEF other_castle, TypeOK, RegistryOK
<1> QED BY <1>1, <1>2, <1>4, <1>5, <1>7, <1>8, <1>9 DEF Throne

\* What a member gives is what comes back.
LEMMA GoesHomeTypes ==
  ASSUME TypeOK, NEW p \in Players, GoesHome(p)
  PROVE  TypeOK'
<1>1. castle \in CastleAccount /\ NextEpoch \in 0 .. EpochMax /\ SatDec(castle.garrison_count) \in Nat
  BY Saturation, StateTypes DEF TypeOK
<1>2. castle' \in CastleAccount
  BY <1>1 DEF GoesHome, CastleAccount
<1>3. units[p] + Returned(p) \in Nat
  BY StateTypes DEF Returned
<1>4. NoContribution \in GarrisonContribution
  BY DEF NoContribution, GarrisonContribution
<1> QED BY <1>2, <1>3, <1>4 DEF GoesHome, TypeOK

\* A court member who steps down leaves the types.
LEMMA StepsDownTypes ==
  ASSUME TypeOK, NEW i \in Positions, StepsDown(i)
  PROVE  TypeOK'
<1>1. castle \in CastleAccount /\ NextEpoch \in 0 .. EpochMax /\ SatDec(castle.court_count) \in Nat
  BY Saturation, StateTypes DEF TypeOK
<1>2. castle' \in CastleAccount
  BY <1>1 DEF StepsDown, CastleAccount
<1> QED BY <1>2 DEF StepsDown, TypeOK

\* Joining the garrison keeps the types.
LEMMA JoinTypes ==
  ASSUME TypeOK, NEW p \in Players, NEW n \in Contributions, join_garrison(p, n)
  PROVE  TypeOK'
<1>1. n \in Nat /\ units[p] - n \in Nat /\ castle.garrison_count + 1 \in Nat
  BY CastleAssumption, StateTypes DEF join_garrison
<1>2. castle' \in CastleAccount
  BY <1>1 DEF join_garrison, TypeOK, CastleAccount
<1>3. [open |-> TRUE, units |-> n, is_king |-> castle.king = p] \in GarrisonContribution
  BY <1>1 DEF GarrisonContribution
<1> QED BY <1>1, <1>2, <1>3 DEF join_garrison, TypeOK

\* An appointment to the court keeps the types.
LEMMA AppointTypes ==
  ASSUME TypeOK, NEW p \in Players, NEW i \in Positions, appoint_court(i, p)
  PROVE  TypeOK'
<1>1. castle.court_count + 1 \in Nat
  BY StateTypes
<1>2. castle' \in CastleAccount
  BY <1>1 DEF appoint_court, TypeOK, CastleAccount
<1> QED BY <1>2 DEF appoint_court, TypeOK

\* An upgrade keeps the types.
LEMMA UpgradeTypes ==
  ASSUME TypeOK, Upgrades
  PROVE  TypeOK'
<1>0. castle \in CastleAccount
  BY DEF TypeOK
<1>1. CASE initiate_upgrade
  <2>1. /\ castle.chambers_level + 1 \in Nat
        /\ now + UPGRADE_DURATION * (castle.chambers_level + 1) \in Nat
    <3>1. castle.chambers_level \in Nat /\ UPGRADE_DURATION \in Nat /\ now \in Nat
      BY CastleAssumption, StateTypes
    <3>2. \A x \in Nat, y \in Nat : x * y \in Nat
      OBVIOUS
    <3> QED BY <3>1, <3>2
  <2>2. castle' \in CastleAccount
    BY <1>0, <1>1, <2>1 DEF initiate_upgrade, CastleAccount, Upgrade
  <2> QED BY <1>1, <2>2 DEF initiate_upgrade, TypeOK
<1>2. CASE complete_upgrade
  <2>1. castle' \in CastleAccount
    BY <1>0, <1>2, StateTypes DEF complete_upgrade, NoUpgrade, CastleAccount, Upgrade
  <2> QED BY <1>2, <2>1 DEF complete_upgrade, TypeOK
<1>3. CASE cancel_upgrade
  <2>1. castle' \in CastleAccount
    BY <1>0, <1>3 DEF cancel_upgrade, NoUpgrade, CastleAccount, Upgrade
  <2> QED BY <1>3, <2>1 DEF cancel_upgrade, TypeOK
<1> QED BY <1>1, <1>2, <1>3 DEF Upgrades

\* Every step keeps the types.
LEMMA TypesKept ==
  ASSUME TypeOK, [Next]_vars
  PROVE  TypeOK'
<1>1. CASE Seats
  BY <1>1, GoesHomeTypes, StepsDownTypes, JoinTypes, AppointTypes
     DEF Seats, leave_garrison, relieve_garrison, garrison_cleanup, dismiss_court,
         resign_court, court_cleanup
<1>2. ASSUME NEW p \in Players, NEW t \in Teams \cup {Nobody}, change_team(p, t) PROVE TypeOK'
  BY <1>2 DEF change_team, TypeOK
<1>3. CASE Tick
  BY <1>3 DEF Tick, TypeOK
<1>4. CASE UNCHANGED vars
  BY <1>4 DEF vars, TypeOK
<1> QED BY <1>1, <1>2, <1>3, <1>4, ThroneTypes, UpgradeTypes DEF Next

\* The types hold at the start.
LEMMA InitTypes ==
  ASSUME Init
  PROVE  TypeOK
<1>1. NewCastle \in CastleAccount
  BY CastleAssumption DEF NewCastle, CastleAccount, Status, Upgrade
<1>2. NoContribution \in GarrisonContribution
  BY DEF NoContribution, GarrisonContribution
<1>3. \A p \in Players : OtherCastles[p] \in 0 .. MAX_CASTLES_PER_KING
  BY CastleAssumption
<1>4. registry \in [Players -> [Entries -> Nat]]
  BY <1>3, CastleAssumption DEF Init
<1>5. \A p \in Players : registry[p]["here"] = 0 /\ registry[p]["elsewhere"] = OtherCastles[p]
  BY DEF Init, Entries
<1>6. \A p \in Players : castle_count(registry, p) <= MAX_CASTLES_PER_KING
  BY <1>3, <1>5, CastleAssumption DEF castle_count
<1> QED BY <1>1, <1>2, <1>4, <1>6, CastleAssumption DEF Init, TypeOK

\* The accounts stay well formed, whatever the bounds, and no registry holds more
\* castles than a king may rule.
THEOREM TypeCorrect == Spec => []TypeOK
BY InitTypes, TypesKept, PTL DEF Spec

-----------------------------------------------------------------------------
(* The inductive invariant *)

\* A closed account holds no units.
ClosedIsEmpty == \A p \in Players : ~ garrison[p].open => garrison[p].units = 0

IInv ==
    TypeOK /\ HeadcountsMatch /\ ThroneMatchesStatus /\ SeatsMatchThrone
    /\ ClosedIsEmpty

\* Players and positions are finitely many.
LEMMA SeatsFinite == IsFiniteSet(Garrison) /\ IsFiniteSet(Court)
BY CastleAssumption, FS_Subset DEF Garrison, Court

\* When both headcounts are zero every seat is empty.
LEMMA NobodySits ==
  ASSUME HeadcountsMatch, CleanedUp
  PROVE  Garrison = {} /\ Court = {}
BY SeatsFinite, FS_EmptySet DEF HeadcountsMatch, CleanedUp

\* What is left of the invariant after a step that keeps the types.
Kept == HeadcountsMatch' /\ ThroneMatchesStatus' /\ SeatsMatchThrone' /\ ClosedIsEmpty'

\* Steps that leave seats, headcounts and king alone.
SeatsStay ==
    /\ UNCHANGED <<court, castle.king, castle.garrison_count, castle.court_count>>
    /\ castle'.max_garrison = castle.max_garrison
    /\ \A p \in Players : /\ garrison'[p].open = garrison[p].open
                         /\ garrison'[p].is_king = garrison[p].is_king
                         /\ garrison'[p].units \in {0, garrison[p].units}

\* Where the seats stay, counts, marks and closed accounts stay right.
LEMMA SeatsStayKeep ==
  ASSUME IInv, SeatsStay
  PROVE  HeadcountsMatch' /\ SeatsMatchThrone' /\ ClosedIsEmpty'
<1>1. Garrison' = Garrison /\ Court' = Court
  BY DEF SeatsStay, Garrison, Court
<1>2. HeadcountsMatch'
  BY <1>1 DEF IInv, SeatsStay, HeadcountsMatch
<1>3. SeatsMatchThrone'
  BY <1>1 DEF IInv, SeatsStay, SeatsMatchThrone, Garrison
<1>4. ClosedIsEmpty'
  BY DEF IInv, SeatsStay, ClosedIsEmpty
<1> QED BY <1>2, <1>3, <1>4

\* Steps that leave the king, the next one and the status alone.
ThroneStays ==
    UNCHANGED <<castle.status, castle.king, castle.team, castle.transition_new_king>>

\* Where the throne stays, the status stays right.
LEMMA ThroneStaysKeep ==
  ASSUME IInv, ThroneStays, castle.court_count = 0 => castle'.court_count = 0
  PROVE  ThroneMatchesStatus'
BY DEF IInv, ThroneStays, ThroneMatchesStatus

-----------------------------------------------------------------------------
(* The throne *)

\* A claim of a vacant castle keeps the invariant.
LEMMA ClaimKeeps ==
  ASSUME IInv, NEW p \in Players, NEW cap \in Caps, claim_vacant_castle(p, cap)
  PROVE  Kept
<1>1. /\ castle'.king = p /\ castle'.status = "CONTEST" /\ castle'.max_garrison = cap
      /\ castle'.transition_new_king = Nobody
      /\ castle'.garrison_count = 0 /\ castle'.court_count = 0
      /\ UNCHANGED <<garrison, court>>
  BY DEF IInv, TypeOK, ThroneMatchesStatus, claim_vacant_castle, CastleAccount
<1>2. Garrison = {} /\ Court = {}
  BY NobodySits DEF IInv, claim_vacant_castle, CleanedUp
<1>3. Garrison' = {} /\ Court' = {}
  BY <1>1, <1>2 DEF Garrison, Court
<1>4. HeadcountsMatch'
  BY <1>1, <1>3, FS_EmptySet, CastleAssumption DEF HeadcountsMatch
<1>5. p # Nobody
  BY CastleAssumption
<1>6. ThroneMatchesStatus'
  BY <1>1, <1>5 DEF ThroneMatchesStatus
<1>7. SeatsMatchThrone'
  BY <1>1, <1>3, <1>5 DEF SeatsMatchThrone, Court
<1> QED BY <1>1, <1>4, <1>6, <1>7 DEF Kept, IInv, ClosedIsEmpty

\* A change of status alone keeps the invariant.
LEMMA StatusKeeps ==
  ASSUME IInv, update_castle_status
  PROVE  Kept
<1>1. /\ castle.status \in {"CONTEST", "PROTECTED"}
      /\ castle'.status \in {"PROTECTED", "VULNERABLE"}
      /\ SeatsStay
      /\ UNCHANGED <<castle.king, castle.team, castle.transition_new_king>>
  BY DEF IInv, TypeOK, update_castle_status, CastleAccount, SeatsStay
<1>2. ThroneMatchesStatus'
  BY <1>1 DEF IInv, ThroneMatchesStatus
<1> QED BY <1>1, <1>2, SeatsStayKeep DEF Kept

\* A conquest changes neither king nor seats yet.
LEMMA ConquestKeeps ==
  ASSUME IInv, castle' = castle \/ \E p \in Players : castle' = Conquered(p),
         UNCHANGED court,
         \A q \in Players : /\ garrison'[q].open = garrison[q].open
                            /\ garrison'[q].is_king = garrison[q].is_king
                            /\ garrison'[q].units \in {0, garrison[q].units}
  PROVE  Kept
<1>1. SeatsStay
  BY DEF IInv, TypeOK, CastleAccount, Conquered, SeatsStay
<1>2. CASE castle' = castle
  BY <1>1, <1>2, SeatsStayKeep, ThroneStaysKeep DEF Kept, ThroneStays
<1>3. ASSUME NEW p \in Players, castle' = Conquered(p)
      PROVE  ThroneMatchesStatus'
  <2>1. castle'.status = "TRANSITIONING" /\ UNCHANGED <<castle.king, castle.team>>
    BY <1>3 DEF IInv, TypeOK, CastleAccount, Conquered
  <2> QED BY <2>1 DEF IInv, ThroneMatchesStatus
<1> QED BY <1>1, <1>2, <1>3, SeatsStayKeep DEF Kept

\* What an attack leaves alone whatever its outcome.
LEMMA AttackFrame ==
  ASSUME TypeOK, NEW p \in Players, NEW present \in SUBSET Garrison,
         NEW fallen \in SUBSET present, NEW casualties, NEW left,
         attack_castle(p, present, casualties, fallen, left)
  PROVE  /\ castle' = castle \/ castle' = Conquered(p)
         /\ UNCHANGED court
         /\ \A q \in Players : /\ garrison'[q].open = garrison[q].open
                               /\ garrison'[q].is_king = garrison[q].is_king
                               /\ garrison'[q].units \in {0, garrison[q].units}
<1>1. castle' = castle \/ castle' = Conquered(p)
  BY DEF attack_castle
<1>2. \A q \in Players : garrison[q] \in GarrisonContribution
  BY DEF TypeOK
<1>3. \A q \in Players : garrison'[q] \in {garrison[q], [garrison[q] EXCEPT !.units = 0]}
  BY DEF attack_castle
<1>4. \A q \in Players : /\ garrison'[q].open = garrison[q].open
                         /\ garrison'[q].is_king = garrison[q].is_king
                         /\ garrison'[q].units \in {0, garrison[q].units}
  BY <1>2, <1>3 DEF GarrisonContribution
<1> QED BY <1>1, <1>4 DEF attack_castle

\* The end of a transition keeps the invariant: with both counts at zero nobody is left.
LEMMA FinalizeKeeps ==
  ASSUME IInv, NEW cap \in Caps, NEW named \in BOOLEAN, NEW e \in Entries,
         finalize_transition(cap, named, e)
  PROVE  Kept
<1> DEFINE k == castle.transition_new_king
<1>1. k \in Players \cup {Nobody} /\ castle \in CastleAccount /\ CleanedUp
      /\ UNCHANGED <<garrison, court>>
  BY StateTypes DEF IInv, TypeOK, finalize_transition
<1>2. Garrison = {} /\ Court = {}
  BY <1>1, NobodySits DEF IInv
<1>3. Garrison' = {} /\ Court' = {} /\ ClosedIsEmpty'
  BY <1>1, <1>2 DEF Garrison, Court, IInv, ClosedIsEmpty
<1>4. CASE k = Nobody
  <2>1. castle' = [NoKing("VACANT") EXCEPT !.contest_end_at = 0]
    BY <1>4 DEF finalize_transition
  <2>2. /\ castle'.king = Nobody /\ castle'.team = Nobody /\ castle'.status = "VACANT"
        /\ castle'.transition_new_king = Nobody /\ castle'.max_garrison = castle.max_garrison
        /\ castle'.garrison_count = 0 /\ castle'.court_count = 0
    BY <1>1, <2>1 DEF NoKing, CastleAccount, CleanedUp
  <2>3. HeadcountsMatch'
    BY <1>3, <2>2, FS_EmptySet, StateTypes DEF IInv, HeadcountsMatch
  <2> QED BY <1>3, <2>2, <2>3 DEF Kept, ThroneMatchesStatus, SeatsMatchThrone
<1>5. CASE k # Nobody
  <2>1. castle' = [castle EXCEPT !.king = k, !.team = team_of[k], !.max_garrison = cap,
                                 !.transition_new_king = Nobody, !.status = "PROTECTED",
                                 !.membership_epoch = NextEpoch, !.contest_end_at = now]
    BY <1>5 DEF finalize_transition
  <2>2. /\ castle'.king = k /\ castle'.status = "PROTECTED" /\ castle'.max_garrison = cap
        /\ castle'.transition_new_king = Nobody
        /\ castle'.garrison_count = 0 /\ castle'.court_count = 0
    <3> HIDE DEF k
    <3> QED BY <1>1, <2>1 DEF CastleAccount, CleanedUp
  <2>3. HeadcountsMatch'
    BY <1>3, <2>2, FS_EmptySet, CastleAssumption DEF HeadcountsMatch
  <2>4. ThroneMatchesStatus' /\ SeatsMatchThrone'
    BY <1>3, <1>5, <2>2 DEF ThroneMatchesStatus, SeatsMatchThrone, Court
  <2> QED BY <1>3, <2>3, <2>4 DEF Kept
<1> QED BY <1>4, <1>5

\* The removal of a king keeps the invariant.
LEMMA RemovalKeeps ==
  ASSUME IInv, force_remove_king
  PROVE  Kept
<1>1. /\ castle'.king = Nobody /\ castle'.team = Nobody /\ castle'.status = "TRANSITIONING"
      /\ castle'.transition_new_king = Nobody /\ castle'.max_garrison = castle.max_garrison
      /\ castle'.garrison_count = castle.garrison_count
      /\ castle'.court_count = castle.court_count
      /\ UNCHANGED <<garrison, court>>
  BY DEF IInv, TypeOK, force_remove_king, NoKing, CastleAccount
<1>2. Garrison' = Garrison /\ Court' = Court
  BY <1>1 DEF Garrison, Court
<1>3. HeadcountsMatch'
  BY <1>1, <1>2 DEF IInv, HeadcountsMatch
<1> QED BY <1>1, <1>3 DEF Kept, IInv, ThroneMatchesStatus, SeatsMatchThrone, ClosedIsEmpty

-----------------------------------------------------------------------------
(* The seats *)

\* Joining the garrison keeps the invariant.
LEMMA JoinKeeps ==
  ASSUME IInv, NEW p \in Players, NEW n \in Contributions, join_garrison(p, n)
  PROVE  Kept
<1>1. /\ castle'.garrison_count = castle.garrison_count + 1
      /\ castle.garrison_count < castle.max_garrison
      /\ castle'.max_garrison = castle.max_garrison
      /\ UNCHANGED <<court, castle.king, castle.court_count>> /\ ThroneStays
  BY DEF IInv, TypeOK, join_garrison, HasRoom, CastleAccount, ThroneStays
<1>2. /\ ~ garrison[p].open
      /\ garrison'[p] = [open |-> TRUE, units |-> n, is_king |-> castle.king = p]
      /\ \A q \in Players \ {p} : garrison'[q] = garrison[q]
  BY DEF IInv, TypeOK, join_garrison
<1>3. p \notin Garrison /\ Garrison' = Garrison \cup {p} /\ Court' = Court
  BY <1>1, <1>2 DEF Garrison, Court
<1>4. Cardinality(Garrison') = Cardinality(Garrison) + 1
  BY <1>3, SeatsFinite, FS_AddElement
<1>5. HeadcountsMatch'
  BY <1>1, <1>3, <1>4, StateTypes DEF IInv, HeadcountsMatch
<1>6. SeatsMatchThrone'
  <2>1. garrison'[p].is_king = (castle.king = p)
    BY <1>2
  <2>2. garrison'[p].is_king <=> p = castle.king
    BY <2>1, Zenon
  <2>3. \A q \in Garrison : garrison'[q] = garrison[q]
    BY <1>2, <1>3 DEF Garrison
  <2> QED BY <1>1, <1>3, <2>2, <2>3 DEF IInv, SeatsMatchThrone
<1>7. ClosedIsEmpty'
  BY <1>2 DEF IInv, ClosedIsEmpty
<1> QED BY <1>1, <1>5, <1>6, <1>7, ThroneStaysKeep DEF Kept

\* Going home from the garrison, by oneself or sent, keeps the invariant.
LEMMA GoesHomeKeeps ==
  ASSUME IInv, NEW p \in Players, GoesHome(p)
  PROVE  Kept
<1>1. /\ castle'.garrison_count = SatDec(castle.garrison_count)
      /\ castle'.max_garrison = castle.max_garrison
      /\ UNCHANGED <<court, castle.king, castle.court_count>> /\ ThroneStays
  BY DEF IInv, TypeOK, GoesHome, CastleAccount, ThroneStays
<1>2. /\ garrison[p].open /\ garrison'[p] = NoContribution
      /\ \A q \in Players \ {p} : garrison'[q] = garrison[q]
  BY DEF IInv, TypeOK, GoesHome
<1>3. p \in Garrison /\ Garrison' = Garrison \ {p} /\ Court' = Court
  BY <1>1, <1>2 DEF Garrison, Court, NoContribution
<1>4. Cardinality(Garrison') = Cardinality(Garrison) - 1 /\ Cardinality(Garrison) # 0
  BY <1>3, SeatsFinite, FS_RemoveElement, FS_EmptySet
<1>5. HeadcountsMatch'
  BY <1>1, <1>3, <1>4, StateTypes DEF IInv, HeadcountsMatch, SatDec
<1>6. SeatsMatchThrone'
  BY <1>1, <1>2, <1>3 DEF IInv, SeatsMatchThrone, Garrison
<1>7. ClosedIsEmpty'
  BY <1>2 DEF IInv, ClosedIsEmpty, NoContribution
<1> QED BY <1>1, <1>5, <1>6, <1>7, ThroneStaysKeep DEF Kept

\* An appointment to the court keeps the invariant.
LEMMA AppointKeeps ==
  ASSUME IInv, NEW i \in Positions, NEW p \in Players, appoint_court(i, p)
  PROVE  Kept
<1>1. /\ castle'.court_count = castle.court_count + 1
      /\ castle.king # Nobody /\ p # castle.king
      /\ UNCHANGED <<garrison, castle.king, castle.garrison_count, castle.max_garrison>>
      /\ ThroneStays
  BY DEF IInv, TypeOK, appoint_court, CastleAccount, ThroneStays
<1>2. court[i] = Nobody /\ court'[i] = p /\ \A j \in Positions \ {i} : court'[j] = court[j]
  BY DEF IInv, TypeOK, appoint_court
<1>3. p # Nobody
  BY CastleAssumption
<1>4. i \notin Court /\ Court' = Court \cup {i} /\ Garrison' = Garrison
  BY <1>1, <1>2, <1>3 DEF Garrison, Court
<1>5. Cardinality(Court') = Cardinality(Court) + 1
  BY <1>4, SeatsFinite, FS_AddElement
<1>6. HeadcountsMatch'
  BY <1>1, <1>4, <1>5 DEF IInv, HeadcountsMatch
<1>7. SeatsMatchThrone'
  BY <1>1, <1>2, <1>4 DEF IInv, SeatsMatchThrone
<1>8. ThroneMatchesStatus'
  BY <1>1 DEF IInv, ThroneStays, ThroneMatchesStatus
<1> QED BY <1>1, <1>6, <1>7, <1>8 DEF Kept, IInv, ClosedIsEmpty

\* Leaving the court, by oneself or dismissed, keeps the invariant.
LEMMA StepsDownKeeps ==
  ASSUME IInv, NEW i \in Positions, StepsDown(i)
  PROVE  Kept
<1>1. /\ castle'.court_count = SatDec(castle.court_count)
      /\ UNCHANGED <<garrison, castle.king, castle.garrison_count, castle.max_garrison>>
      /\ ThroneStays
  BY DEF IInv, TypeOK, StepsDown, CastleAccount, ThroneStays
<1>2. court[i] # Nobody /\ court'[i] = Nobody /\ \A j \in Positions \ {i} : court'[j] = court[j]
  BY DEF IInv, TypeOK, StepsDown
<1>3. i \in Court /\ Court' = Court \ {i} /\ Garrison' = Garrison
  BY <1>1, <1>2 DEF Garrison, Court
<1>4. Cardinality(Court') = Cardinality(Court) - 1 /\ Cardinality(Court) # 0
  BY <1>3, SeatsFinite, FS_RemoveElement, FS_EmptySet
<1>5. HeadcountsMatch'
  BY <1>1, <1>3, <1>4, StateTypes DEF IInv, HeadcountsMatch, SatDec
<1>6. SeatsMatchThrone'
  BY <1>1, <1>2, <1>3 DEF IInv, SeatsMatchThrone
<1>7. castle.court_count = 0 => castle'.court_count = 0
  BY <1>1 DEF SatDec
<1> QED BY <1>1, <1>5, <1>6, <1>7, ThroneStaysKeep DEF Kept, IInv, ClosedIsEmpty

\* Other castles, upgrades, changes of team and the clock touch neither seats nor throne.
LEMMA QuietKeeps ==
  ASSUME IInv,
         \/ \E p \in Players, e \in Entries : other_castle(p, e)
         \/ Upgrades
         \/ \E p \in Players, t \in Teams \cup {Nobody} : change_team(p, t)
         \/ Tick
         \/ UNCHANGED vars
  PROVE  SeatsStay /\ ThroneStays
<1>1. UNCHANGED <<court, garrison>>
  BY DEF other_castle, Upgrades, initiate_upgrade, complete_upgrade, cancel_upgrade, change_team, Tick, vars
<1>2. UNCHANGED <<castle.king, castle.garrison_count, castle.court_count, castle.max_garrison,
                  castle.status, castle.team, castle.transition_new_king,
                  castle.membership_epoch>>
  BY DEF IInv, TypeOK, CastleAccount, other_castle, Upgrades, initiate_upgrade, complete_upgrade,
         cancel_upgrade, NoUpgrade, change_team, Tick, vars
<1> QED BY <1>1, <1>2 DEF SeatsStay, ThroneStays

\* Every step keeps the invariant.
LEMMA IInvKept ==
  ASSUME IInv, [Next]_vars
  PROVE  IInv'
<1> SUFFICES Kept
  BY TypesKept DEF IInv, Kept
<1>1. CASE Throne
  <2>1. ASSUME NEW p \in Players, NEW present \in SUBSET Garrison,
               NEW fallen \in SUBSET present, NEW casualties, NEW left,
               attack_castle(p, present, casualties, fallen, left)
        PROVE  Kept
    BY <2>1, AttackFrame, ConquestKeeps DEF IInv
  <2>2. ASSUME NEW p \in Players, rally_attack(p) PROVE Kept
    BY <2>2, ConquestKeeps DEF rally_attack
  <2>3. ASSUME NEW p \in Players, NEW e \in Entries, other_castle(p, e) PROVE Kept
    BY <2>3, QuietKeeps, SeatsStayKeep, ThroneStaysKeep DEF Kept, SeatsStay
  <2> QED BY <1>1, <2>1, <2>2, <2>3, ClaimKeeps, StatusKeeps, FinalizeKeeps, RemovalKeeps
         DEF Throne
<1>2. CASE Seats
  BY <1>2, JoinKeeps, GoesHomeKeeps, AppointKeeps, StepsDownKeeps
     DEF Seats, leave_garrison, relieve_garrison, garrison_cleanup, dismiss_court,
         resign_court, court_cleanup
<1>3. ASSUME SeatsStay, ThroneStays PROVE Kept
  BY <1>3, SeatsStayKeep, ThroneStaysKeep DEF Kept, SeatsStay
<1> QED BY <1>1, <1>2, <1>3, QuietKeeps DEF Next

\* The invariant holds in every state.
THEOREM Inductive == Spec => []IInv
<1>1. Init => IInv
  <2> SUFFICES ASSUME Init PROVE IInv
    OBVIOUS
  <2>1. TypeOK
    BY InitTypes
  <2>2. Garrison = {} /\ Court = {}
    BY DEF Init, Garrison, Court, NoContribution
  <2>3. HeadcountsMatch
    BY <2>2, FS_EmptySet, CastleAssumption DEF Init, NewCastle, HeadcountsMatch
  <2> QED BY <2>1, <2>3 DEF Init, NewCastle, NoContribution, IInv, ThroneMatchesStatus,
             SeatsMatchThrone, ClosedIsEmpty
<1> QED BY <1>1, IInvKept, PTL DEF Spec

\* However players come and go, and whoever becomes king with whatever cap, the
\* headcounts are the numbers of accounts, and the garrison fits its cap.
THEOREM HeadcountsCorrect == Spec => []HeadcountsMatch
BY Inductive, PTL DEF IInv

\* No king without a status to match, through conquests, removals and claims.
THEOREM ThroneCorrect == Spec => []ThroneMatchesStatus
BY Inductive, PTL DEF IInv

\* A king never sits at the court and his contribution is marked, also when he
\* conquered the castle from its own garrison.
THEOREM SeatsCorrect == Spec => []SeatsMatchThrone
BY Inductive, PTL DEF IInv

-----------------------------------------------------------------------------
(* The key of the thread *)

\* A step that turns the key over may take the thread from anybody.
LEMMA TurnsKey ==
  ASSUME TypeOK, castle'.membership_epoch = NextEpoch
  PROVE  KeyStep
BY Saturation DEF KeyStep

\* A step that takes no seat away takes the thread from nobody.
LEMMA NobodyLeaves ==
  ASSUME castle'.king = castle.king, Garrison \subseteq Garrison',
         \A i \in Positions : court[i] # Nobody => court'[i] = court[i]
  PROVE  KeyStep
<1>1. KeyHolders \subseteq KeyHolders'
  BY DEF KeyHolders
<1> QED BY <1>1 DEF KeyStep

\* The steps of the throne rotate the key.
LEMMA ThroneKeys ==
  ASSUME IInv, Throne
  PROVE  KeyStep
<1>0. TypeOK /\ castle \in CastleAccount
  BY DEF IInv, TypeOK
<1>1. ASSUME NEW p \in Players, NEW cap \in Caps, claim_vacant_castle(p, cap) PROVE KeyStep
  <2>1. castle'.membership_epoch = NextEpoch
    BY <1>0, <1>1 DEF claim_vacant_castle, CastleAccount
  <2> QED BY <1>0, <2>1, TurnsKey
<1>2. ASSUME NEW cap \in Caps, NEW named \in BOOLEAN, NEW e \in Entries,
             finalize_transition(cap, named, e)
      PROVE  KeyStep
  <2>1. castle'.membership_epoch = NextEpoch
    BY <1>0, <1>2 DEF finalize_transition, NoKing, CastleAccount
  <2> QED BY <1>0, <2>1, TurnsKey
<1>3. CASE force_remove_king
  <2>1. castle'.membership_epoch = NextEpoch
    BY <1>0, <1>3 DEF force_remove_king, NoKing, CastleAccount
  <2> QED BY <1>0, <2>1, TurnsKey
<1>4. CASE update_castle_status
  <2>1. castle'.king = castle.king /\ UNCHANGED <<garrison, court>>
    BY <1>0, <1>4 DEF update_castle_status, CastleAccount
  <2> QED BY <2>1, NobodyLeaves DEF Garrison
<1>5. \A p \in Players : Conquered(p).king = castle.king
  BY <1>0 DEF Conquered, CastleAccount
<1>6. ASSUME NEW p \in Players, NEW present \in SUBSET Garrison, NEW fallen \in SUBSET present,
             NEW casualties, NEW left, attack_castle(p, present, casualties, fallen, left)
      PROVE  KeyStep
  <2>1. castle'.king = castle.king /\ UNCHANGED court /\ Garrison' = Garrison
    BY <1>0, <1>5, <1>6, AttackFrame DEF Garrison
  <2> QED BY <2>1, NobodyLeaves
<1>7. ASSUME NEW p \in Players, rally_attack(p) PROVE KeyStep
  <2>1. castle'.king = castle.king /\ UNCHANGED <<garrison, court>>
    BY <1>5, <1>7 DEF rally_attack
  <2> QED BY <2>1, NobodyLeaves DEF Garrison
<1>8. ASSUME NEW p \in Players, NEW e \in Entries, other_castle(p, e) PROVE KeyStep
  BY <1>8, NobodyLeaves DEF other_castle, Garrison
<1> QED BY <1>1, <1>2, <1>3, <1>4, <1>6, <1>7, <1>8 DEF Throne

\* The steps of garrison and court rotate the key when somebody loses access.
LEMMA SeatKeys ==
  ASSUME IInv, Seats
  PROVE  KeyStep
<1>0. TypeOK /\ castle \in CastleAccount
  BY DEF IInv, TypeOK
<1>1. ASSUME NEW p \in Players, GoesHome(p) PROVE KeyStep
  <2>1. castle'.membership_epoch = NextEpoch
    BY <1>0, <1>1 DEF GoesHome, CastleAccount
  <2> QED BY <1>0, <2>1, TurnsKey
<1>2. ASSUME NEW i \in Positions, StepsDown(i) PROVE KeyStep
  <2>1. castle'.membership_epoch = NextEpoch
    BY <1>0, <1>2 DEF StepsDown, CastleAccount
  <2> QED BY <1>0, <2>1, TurnsKey
<1>3. ASSUME NEW p \in Players, NEW n \in Contributions, join_garrison(p, n) PROVE KeyStep
  <2>1. castle'.king = castle.king /\ UNCHANGED court
    BY <1>0, <1>3 DEF join_garrison, CastleAccount
  <2>2. Garrison \subseteq Garrison'
    BY <1>0, <1>3 DEF join_garrison, Garrison, TypeOK
  <2> QED BY <2>1, <2>2, NobodyLeaves
<1>4. ASSUME NEW i \in Positions, NEW p \in Players, appoint_court(i, p) PROVE KeyStep
  <2>1. castle'.king = castle.king /\ UNCHANGED garrison
    BY <1>0, <1>4 DEF appoint_court, CastleAccount
  <2>2. \A j \in Positions : court[j] # Nobody => court'[j] = court[j]
    BY <1>0, <1>4 DEF appoint_court, TypeOK
  <2> QED BY <2>1, <2>2, NobodyLeaves DEF Garrison
<1> QED BY <1>1, <1>2, <1>3, <1>4 DEF Seats, leave_garrison, relieve_garrison,
           garrison_cleanup, dismiss_court, resign_court, court_cleanup

\* Nobody loses the thread without losing the key, by any sequence of
\* instructions, until the epoch has used up its range.
THEOREM KeyRotation == Spec => KeyRotates
<1>1. IInv /\ [Next]_vars => [KeyStep]_vars
  <2> SUFFICES ASSUME IInv, Next PROVE KeyStep
    OBVIOUS
  <2>1. ASSUME SeatsStay PROVE KeyStep
    BY <2>1, NobodyLeaves DEF SeatsStay, Garrison
  <2> QED BY <2>1, ThroneKeys, SeatKeys, QuietKeeps DEF Next
<1> QED BY <1>1, Inductive, PTL DEF Spec, KeyRotates

-----------------------------------------------------------------------------
(* Armies *)

\* Steps that move no army.
LEMMA ArmiesUntouched ==
  ASSUME TypeOK, UNCHANGED <<units, garrison>>
  PROVE  ArmiesStep
BY StateTypes DEF ArmiesStep

\* An attack loses units only where it may be made.
LEMMA AttackArmies ==
  ASSUME TypeOK, NEW p \in Players, NEW present \in SUBSET Garrison,
         NEW fallen \in SUBSET present, NEW casualties, NEW left \in {0, units[p]},
         attack_castle(p, present, casualties, fallen, left)
  PROVE  ArmiesStep
<1>1. can_be_attacked /\ \A q \in Players : units'[q] \in {0, units[q]}
  BY DEF attack_castle, TypeOK
<1>2. \A q \in Players : garrison'[q].units \in {0, garrison[q].units}
  BY AttackFrame
<1>3. \A q \in Players : units[q] \in Nat /\ garrison[q].units \in Nat
  BY StateTypes
<1> QED BY <1>1, <1>2, <1>3 DEF ArmiesStep

\* Joining moves the units of one player into the garrison.
LEMMA JoinArmies ==
  ASSUME IInv, NEW p \in Players, NEW n \in Contributions, join_garrison(p, n)
  PROVE  ArmiesStep
<1>1. units[p] \in Nat /\ n \in Nat /\ garrison[p].units = 0
  BY StateTypes, CastleAssumption DEF IInv, ClosedIsEmpty, join_garrison
<1>2. units'[p] = units[p] - n /\ garrison'[p].units = n
  BY DEF IInv, TypeOK, join_garrison
<1>3. \A q \in Players \ {p} : units'[q] = units[q] /\ garrison'[q] = garrison[q]
  BY DEF IInv, TypeOK, join_garrison
<1>4. \A q \in Players : units[q] \in Nat /\ garrison[q].units \in Nat
  BY StateTypes DEF IInv
<1> QED BY <1>1, <1>2, <1>3, <1>4 DEF ArmiesStep

\* Going home moves what is left of them back.
LEMMA GoesHomeArmies ==
  ASSUME IInv, NEW p \in Players, GoesHome(p)
  PROVE  ArmiesStep
<1>1. units'[p] = units[p] + garrison[p].units /\ garrison'[p].units = 0
  BY DEF IInv, TypeOK, GoesHome, Returned, NoContribution
<1>2. \A q \in Players \ {p} : units'[q] = units[q] /\ garrison'[q] = garrison[q]
  BY DEF IInv, TypeOK, GoesHome
<1>3. \A q \in Players : units[q] \in Nat /\ garrison[q].units \in Nat
  BY StateTypes DEF IInv
<1> QED BY <1>1, <1>2, <1>3 DEF ArmiesStep

\* Whoever joins, leaves, is relieved or cleaned up, nobody's army grows, and none
\* shrinks but in a battle that the status of the castle allows.
THEOREM ArmiesKept == Spec => PeaceKeepsArmies
<1>1. IInv /\ [Next]_vars => [ArmiesStep]_vars
  <2> SUFFICES ASSUME IInv, Next PROVE ArmiesStep
    OBVIOUS
  <2>1. CASE UNCHANGED <<units, garrison>>
    BY <2>1, ArmiesUntouched DEF IInv
  <2>2. CASE Throne
    BY <2>1, <2>2, AttackArmies DEF IInv, Throne, claim_vacant_castle, update_castle_status,
       rally_attack, finalize_transition, force_remove_king, other_castle
  <2>3. CASE Seats
    BY <2>1, <2>3, JoinArmies, GoesHomeArmies
       DEF Seats, leave_garrison, relieve_garrison, garrison_cleanup, appoint_court,
           dismiss_court, resign_court, court_cleanup, StepsDown
  <2> QED BY <2>1, <2>2, <2>3 DEF Next, Upgrades, initiate_upgrade, complete_upgrade,
             cancel_upgrade, change_team, Tick
<1> QED BY <1>1, Inductive, PTL DEF Spec, PeaceKeepsArmies

\* Status, king and seats tell of the same reign in every reachable state.
THEOREM ThroneSoundAlways == Spec => []ThroneSound
BY ThroneCorrect, SeatsCorrect, PTL DEF ThroneSound

=============================================================================
