------------------------ MODULE MoneyServices_proofs ------------------------
(***************************************************************************)
(* Services of the contract that compute amounts, for any amounts and any  *)
(* number of calls.                                                        *)
(***************************************************************************)
EXTENDS MoneyServices, Collections_proofs, SequenceTheorems

----------------------------------------------------------------------------
(* Quotients, and the larger of two numbers. *)

LEMMA QuotientGrows ==
    ASSUME NEW a \in Nat, NEW b \in Nat, NEW d \in Nat \ {0}, a <= b
    PROVE  a \div d <= b \div d
<1> DEFINE q == a \div d
           r == b \div d
<1>1. q \in Nat /\ q * d <= a
  BY QuotientIs
<1>2. r \in Nat /\ b < (r + 1) * d
  BY QuotientIs
<1> HIDE DEF q, r
<1>3. SUFFICES ASSUME r + 1 <= q PROVE FALSE
  BY <1>1, <1>2 DEF q, r
<1>4. (r + 1) * d <= q * d
  BY <1>1, <1>2, <1>3, ProductGrows
<1> QED BY <1>1, <1>2, <1>4

LEMMA LargerOf ==
    ASSUME NEW a \in Int, NEW b \in Int
    PROVE  Max({a, b}) = IF a >= b THEN a ELSE b
<1> DEFINE m == IF a >= b THEN a ELSE b
<1>1. m \in {a, b} /\ \A y \in {a, b} : m >= y
  OBVIOUS
<1>2. \A x \in {a, b} : (\A y \in {a, b} : x >= y) => x = m
  OBVIOUS
<1> HIDE DEF m
<1>3. (CHOOSE x \in {a, b} : \A y \in {a, b} : x >= y) = m
  BY <1>1, <1>2
<1> QED BY <1>3 DEF Max, m

----------------------------------------------------------------------------
(* Investor analytics. *)

(* A limit m hundredths of a base b, and the base recovered from a limit. *)
Gives(b, m) == (b * m) \div 100

Recovers(l, m) == (l * 100 + m - 1) \div m

Multiples == {25, 50, 75, 100, 125, 150, 200, 225, 250, 300, 375, 500, 750, 1000}

Multiple(tier, level) == Inv!TierMultiplier[tier] * Inv!RiskMultiplier[level]

LEMMA MultiplesKnown ==
    ASSUME NEW tier \in Inv!Tiers, NEW level \in Inv!RiskLevels
    PROVE  Multiple(tier, level) \in Multiples
BY DEF Multiple, Multiples, Inv!Tiers, Inv!RiskLevels, Inv!TierMultiplier, Inv!RiskMultiplier

(* What is recovered is the least base with that limit. *)
LEMMA RecoveredIsLeast ==
    ASSUME NEW m \in Multiples, NEW b \in Nat
    PROVE  /\ Gives(b, m) \in Nat
           /\ Recovers(Gives(b, m), m) \in 0..b
           /\ Gives(Recovers(Gives(b, m), m), m) = Gives(b, m)
BY DEF Multiples, Gives, Recovers

LEMMA LimitGrows ==
    ASSUME NEW m \in Multiples, NEW b \in Nat, NEW c \in Nat, b <= c
    PROVE  Gives(b, m) <= Gives(c, m)
BY DEF Multiples, Gives

LEMMA LargerBase ==
    ASSUME NEW a \in Int, NEW b \in Int
    PROVE  Inv!Max({a, b}) = IF a >= b THEN a ELSE b
<1>1. Inv!Max({a, b}) = Max({a, b})
  BY DEF Max, Inv!Max
<1> QED BY <1>1, LargerOf

LEMMA LimitIs ==
    ASSUME NEW tier \in Inv!Tiers, NEW level \in Inv!RiskLevels, NEW b \in Nat
    PROVE  /\ Inv!Limit(tier, level, b) = Gives(b, Multiple(tier, level))
           /\ Inv!BaseOf(b, tier, level) = Recovers(b, Multiple(tier, level))
<1>1. Inv!Max({b, 0}) = b
  BY LargerBase
<1>2. Inv!TierMultiplier[tier] \in Nat /\ Inv!RiskMultiplier[level] \in Nat
  BY DEF Inv!Tiers, Inv!RiskLevels, Inv!TierMultiplier, Inv!RiskMultiplier
<1>3. b * Inv!TierMultiplier[tier] * Inv!RiskMultiplier[level] = b * Multiple(tier, level)
  BY <1>2 DEF Multiple
<1>4. Inv!Limit(tier, level, b) = (b * Multiple(tier, level)) \div 100
  BY <1>1, <1>3, Zenon DEF Inv!Limit
<1>5. Inv!BaseOf(b, tier, level) = (b * 100 + Multiple(tier, level) - 1) \div Multiple(tier, level)
  BY <1>1, Zenon DEF Inv!BaseOf, Multiple
<1> QED BY <1>4, <1>5 DEF Gives, Recovers

Fields == {"kyc", "limit", "tier", "level", "score", "invested", "won", "lost"}

(* A profile is in one tier and level, with the limit that a base not above   *)
(* the one granted gives there.                                               *)
Stands(p, grant) ==
    /\ DOMAIN p = Fields /\ p = [f \in Fields |-> p[f]]
    /\ p.tier \in Inv!Tiers /\ p.level \in Inv!RiskLevels
    /\ \E b \in 0..Inv!Max({grant, 1}) : p.limit = Inv!Limit(p.tier, p.level, b)

ProfileInv == granted \in Nat /\ Stands(profile, granted)

LEMMA RescoredStands ==
    ASSUME NEW p, NEW old, DOMAIN p = Fields, p = [f \in Fields |-> p[f]], NEW grant \in Nat,
           NEW b \in 0..Inv!Max({grant, 1})
    PROVE  LET q == Inv!Rescored(p, old, b)
           IN  Stands(q, grant) /\ q.limit = Inv!Limit(q.tier, q.level, b)
<1> DEFINE score == Inv!RiskScore(old)
           tier  == Inv!Tier(old, score)
           level == Inv!RiskLevel(score)
           limit == Inv!Limit(tier, level, b)
           q     == Inv!Rescored(p, old, b)
<1>1. tier \in Inv!Tiers
  BY DEF Inv!Tier, Inv!Tiers
<1>2. level \in Inv!RiskLevels
  BY DEF Inv!RiskLevel, Inv!RiskLevels
<1>3. q = [p EXCEPT !.score = score, !.tier = tier, !.level = level, !.limit = limit]
  BY Zenon DEF Inv!Rescored
<1> HIDE DEF score, tier, level, limit, q
<1>4. DOMAIN q = Fields /\ q = [f \in Fields |-> q[f]]
  BY <1>3 DEF Fields
<1>5. q.tier = tier /\ q.level = level /\ q.limit = limit
  BY <1>3 DEF Fields
<1>6. q.limit = Inv!Limit(q.tier, q.level, b)
  BY <1>5 DEF limit
<1>7. Stands(q, grant)
  BY <1>1, <1>2, <1>4, <1>5, <1>6 DEF Stands
<1> QED BY <1>6, <1>7 DEF q

(* The base recovered from a profile is not above the one granted. *)
LEMMA RecoveredBase ==
    ASSUME NEW p, NEW grant \in Nat, Stands(p, grant)
    PROVE  LET base == Inv!BaseOf(p.limit, p.tier, p.level)
           IN  /\ base \in 0..Inv!Max({grant, 1})
               /\ p.limit = Inv!Limit(p.tier, p.level, base)
               /\ p.limit \in Nat
<1> DEFINE m == Multiple(p.tier, p.level)
<1>1. PICK b \in 0..Inv!Max({grant, 1}) : p.limit = Inv!Limit(p.tier, p.level, b)
  BY DEF Stands
<1>2. p.tier \in Inv!Tiers /\ p.level \in Inv!RiskLevels /\ m \in Multiples
  BY MultiplesKnown DEF Stands
<1>3. Inv!Max({grant, 1}) \in Nat /\ b \in Nat
  BY LargerBase
<1>4. p.limit = Gives(b, m) /\ p.limit \in Nat
  BY <1>1, <1>2, <1>3, LimitIs, RecoveredIsLeast
<1>5. Inv!BaseOf(p.limit, p.tier, p.level) = Recovers(Gives(b, m), m)
  BY <1>2, <1>4, LimitIs
<1>6. /\ Recovers(Gives(b, m), m) \in 0..b
      /\ Gives(Recovers(Gives(b, m), m), m) = Gives(b, m)
  BY <1>2, <1>3, RecoveredIsLeast
<1>7. Recovers(Gives(b, m), m) \in Nat
  BY <1>3, <1>6
<1>8. Inv!Limit(p.tier, p.level, Recovers(Gives(b, m), m)) = Gives(b, m)
  BY <1>2, <1>6, <1>7, LimitIs
<1> HIDE DEF m
<1>9. Recovers(Gives(b, m), m) \in 0..Inv!Max({grant, 1})
  BY <1>3, <1>6
<1> QED BY <1>4, <1>5, <1>8, <1>9

Updated(p, amount, success) ==
    [p EXCEPT !.invested = @ + amount, !.won = IF success THEN @ + 1 ELSE @,
              !.lost = IF success THEN @ ELSE @ + 1]

(* An update leaves a profile that stands, with the limit of the base         *)
(* recovered, or of 1 where that is 0.                                        *)
LEMMA UpdateStands ==
    ASSUME ProfileInv, NEW amount, NEW success, Inv!UpdateInvestorAnalytics(amount, success)
    PROVE  /\ ProfileInv'
           /\ profile'.limit =
                 Inv!Limit(profile'.tier, profile'.level,
                           Inv!Max({Inv!BaseOf(profile.limit, profile.tier, profile.level), 1}))
<1> DEFINE base == Inv!BaseOf(profile.limit, profile.tier, profile.level)
           p    == Updated(profile, amount, success)
           b    == Inv!Max({base, 1})
<1>1. granted' = granted /\ profile' = Inv!Rescored(p, profile, b)
  BY Zenon DEF Inv!UpdateInvestorAnalytics, Inv!AfterInvestment, Updated
<1>2. granted \in Nat /\ base \in 0..Inv!Max({granted, 1})
  BY RecoveredBase DEF ProfileInv
<1>3. DOMAIN p = Fields /\ p = [f \in Fields |-> p[f]]
  BY DEF ProfileInv, Stands, Updated, Fields
<1> HIDE DEF base, p
<1>4. b \in 0..Inv!Max({granted, 1})
  BY <1>2, LargerBase
<1> HIDE DEF b
<1>5. Stands(profile', granted) /\ profile'.limit = Inv!Limit(profile'.tier, profile'.level, b)
  BY <1>1, <1>2, <1>3, <1>4, RescoredStands
<1> QED BY <1>1, <1>2, <1>5 DEF ProfileInv, base, b

LEMMA GrantStands ==
    ASSUME ProfileInv, NEW base \in Bases, Inv!SetInvestmentLimit(base)
    PROVE  ProfileInv'
<1>1. base \in Nat /\ base > 0 /\ granted' = base
      /\ profile' = [profile EXCEPT !.limit = Inv!Limit(profile.tier, profile.level, base)]
  BY GrantsOK DEF Inv!SetInvestmentLimit
<1>2. /\ DOMAIN profile' = Fields /\ profile' = [f \in Fields |-> profile'[f]]
      /\ profile'.tier = profile.tier /\ profile'.level = profile.level
      /\ profile'.limit = Inv!Limit(profile.tier, profile.level, base)
  BY <1>1 DEF ProfileInv, Stands, Fields
<1>3. base \in 0..Inv!Max({base, 1})
  BY <1>1, LargerBase
<1> QED BY <1>1, <1>2, <1>3 DEF ProfileInv, Stands

LEMMA InitStands == Inv!Init => ProfileInv
<1> SUFFICES ASSUME NEW kyc \in KycLengths, NEW h \in Histories, NEW base \in Bases,
                    granted = base,
                    profile = Inv!Scored([Inv!NewProfile(kyc) EXCEPT !.invested = h[1],
                                                                     !.won = h[2]], base)
             PROVE  ProfileInv
  BY DEF Inv!Init
<1> DEFINE p == [Inv!NewProfile(kyc) EXCEPT !.invested = h[1], !.won = h[2]]
<1>1. DOMAIN p = Fields /\ p = [f \in Fields |-> p[f]]
  BY DEF Inv!NewProfile, Fields
<1> HIDE DEF p
<1>2. base \in Nat /\ base \in 0..Inv!Max({base, 1})
  <2>1. base \in Nat
    BY GrantsOK
  <2> QED BY <2>1, LargerBase
<1>3. Stands(Inv!Scored(p, base), base)
  BY <1>1, <1>2, RescoredStands DEF Inv!Scored
<1> QED BY <1>2, <1>3 DEF ProfileInv, p

LEMMA SameStanding ==
    ASSUME ProfileInv, [Inv!Next]_(Inv!vars), profile'.tier = profile.tier,
           profile'.level = profile.level, updates' # updates, profile.limit > 0
    PROVE  profile'.limit = profile.limit
<1> DEFINE base == Inv!BaseOf(profile.limit, profile.tier, profile.level)
<1>1. PICK amount \in InvestedSums, success \in BOOLEAN :
         Inv!UpdateInvestorAnalytics(amount, success)
  BY DEF Inv!Next, Inv!vars, Inv!SetInvestmentLimit
<1>2. profile'.limit = Inv!Limit(profile.tier, profile.level, Inv!Max({base, 1}))
  BY <1>1, UpdateStands
<1>3. /\ base \in 0..Inv!Max({granted, 1}) /\ profile.limit \in Nat
      /\ profile.limit = Inv!Limit(profile.tier, profile.level, base)
  BY RecoveredBase DEF ProfileInv
<1>4. profile.tier \in Inv!Tiers /\ profile.level \in Inv!RiskLevels
      /\ Multiple(profile.tier, profile.level) \in Multiples
  BY MultiplesKnown DEF ProfileInv, Stands
<1> HIDE DEF base
<1>5. base # 0
  <2>1. \A m \in Multiples : Gives(0, m) = 0
    BY DEF Gives, Multiples
  <2> QED BY <1>3, <1>4, <2>1, LimitIs
<1>6. Inv!Max({base, 1}) = base
  BY <1>3, <1>5, LargerBase
<1> QED BY <1>2, <1>3, <1>6

LEMMA WithinGrant == ASSUME ProfileInv PROVE Inv!LimitWithinGrant
<1> DEFINE top == Inv!Max({granted, 1})
           m   == Multiple(profile.tier, profile.level)
<1>1. PICK b \in 0..top : profile.limit = Inv!Limit(profile.tier, profile.level, b)
  BY DEF ProfileInv, Stands
<1>2. top \in Nat /\ b \in Nat /\ b <= top
  BY LargerBase DEF ProfileInv
<1>3. profile.tier \in Inv!Tiers /\ profile.level \in Inv!RiskLevels /\ m \in Multiples
  BY MultiplesKnown DEF ProfileInv, Stands
<1>4. /\ Inv!Limit(profile.tier, profile.level, b) = Gives(b, m)
      /\ Inv!Limit(profile.tier, profile.level, top) = Gives(top, m)
  BY <1>2, <1>3, LimitIs
<1> QED BY <1>1, <1>2, <1>3, <1>4, LimitGrows DEF Inv!LimitWithinGrant

LEMMA LimitsInvariant == Inv!Spec => []ProfileInv
<1>1. Inv!Init => ProfileInv
  BY InitStands
<1>2. ProfileInv /\ [Inv!Next]_(Inv!vars) => ProfileInv'
  <2>1. ASSUME ProfileInv, UNCHANGED Inv!vars PROVE ProfileInv'
    BY <2>1 DEF Inv!vars, ProfileInv
  <2> QED BY <2>1, UpdateStands, GrantStands DEF Inv!Next
<1> QED BY <1>1, <1>2, PTL DEF Inv!Spec

(* verification.rs: through any number of investments and grants, in          *)
(* whichever tiers and levels, the limit recovered and recomputed at each end *)
(* of an investment stays within the admin's grant, and stays the same as     *)
(* long as the investor's standing does.                                      *)
THEOREM LimitsHold == Inv!Spec => LimitsStable
<1>1. ProfileInv => (part = "investors" => Inv!LimitWithinGrant)
  BY WithinGrant
<1>2. ProfileInv /\ [Inv!Next]_(Inv!vars) =>
         (/\ profile'.tier = profile.tier /\ profile'.level = profile.level
          /\ updates' # updates /\ profile.limit > 0
          => profile'.limit = profile.limit)
  BY SameStanding
<1> QED BY <1>1, <1>2, LimitsInvariant, PTL DEF Inv!Spec, LimitsStable, Inv!SameStandingSameLimit

----------------------------------------------------------------------------
(* Vesting. *)

Schedule == [beneficiary : Beneficiaries, total : Nat, released : Nat, start : Nat, cliff : Nat,
             end : Nat]

(* The line a schedule vests along, and where on it the releases are. *)
Rises(s) == s.start <= s.cliff /\ s.cliff < s.end

OnLine(s, t) == Rises(s) /\ s.released <= s.total /\ s.released <= Vest!Vested(s, t)

VestingInv ==
    /\ schedules \in Seq(Schedule) /\ now \in Nat /\ vestingVault \in Nat
    /\ \A id \in DOMAIN schedules : OnLine(schedules[id], now)
    /\ vestingVault = Vest!Locked

LEMMA VestedIs ==
    ASSUME NEW s \in Schedule, Rises(s), NEW t \in Nat
    PROVE  /\ Vest!Vested(s, t) \in 0..s.total
           /\ t < s.cliff => Vest!Vested(s, t) = 0
           /\ t >= s.end => Vest!Vested(s, t) = s.total
           /\ t <= s.end /\ Vest!Vested(s, t) > 0 =>
                 /\ t >= s.start
                 /\ Vest!Vested(s, t) * (s.end - s.start) <= s.total * (t - s.start)
<1> DEFINE d == s.end - s.start
           x == t - s.start
           v == Vest!Vested(s, t)
           n == s.total
<1>1. /\ s.start \in Nat /\ s.cliff \in Nat /\ s.end \in Nat /\ n \in Nat
      /\ s.start <= s.cliff /\ s.cliff < s.end
      /\ d \in Nat \ {0} /\ x \in Int
  BY DEF Schedule, Rises
<1>2. v = IF t < s.cliff \/ t <= s.start THEN 0 ELSE IF t >= s.end THEN n ELSE (n * x) \div d
  BY DEF Vest!Vested
<1>3. CASE t < s.cliff \/ t <= s.start
  BY <1>1, <1>2, <1>3
<1>4. CASE t >= s.cliff /\ t > s.start /\ t >= s.end
  <2>1. v = n
    BY <1>1, <1>2, <1>4
  <2>2. t = s.end => x = d
    OBVIOUS
  <2> QED BY <2>1, <2>2, <1>1, <1>4
<1>5. CASE t >= s.cliff /\ t > s.start /\ t < s.end
  <2>1. x \in Nat /\ x <= d /\ v = (n * x) \div d
    BY <1>1, <1>2, <1>5
  <2> HIDE DEF x, d, v, n
  <2>2. x * n <= d * n /\ x * n \in Nat /\ d * n \in Nat
    BY <1>1, <2>1, ProductGrows
  <2>3. n * x = x * n /\ n * d = d * n
    BY <1>1, <2>1
  <2>4. v \in Nat /\ v * d <= n * x
    BY <1>1, <2>1, <2>2, <2>3, QuotientIs
  <2>5. SUFFICES v <= n
    BY <1>1, <1>5, <2>1, <2>4 DEF x, d, v, n
  <2>6. SUFFICES ASSUME n + 1 <= v PROVE FALSE
    BY <1>1, <2>4
  <2>7. (n + 1) * d <= v * d
    BY <1>1, <2>4, <2>6, ProductGrows
  <2>8. (n + 1) * d = n * d + d
    BY <1>1
  <2> QED BY <1>1, <2>2, <2>3, <2>4, <2>7, <2>8
<1> QED BY <1>1, <1>3, <1>4, <1>5

LEMMA VestedGrows ==
    ASSUME NEW s \in Schedule, Rises(s), NEW t \in Nat
    PROVE  Vest!Vested(s, t) <= Vest!Vested(s, t + 1)
<1> DEFINE d == s.end - s.start
           x == t - s.start
           n == s.total
<1>1. /\ s.start \in Nat /\ s.cliff \in Nat /\ s.end \in Nat /\ n \in Nat
      /\ s.start <= s.cliff /\ s.cliff < s.end
      /\ d \in Nat \ {0} /\ x \in Int
  BY DEF Schedule, Rises
<1>2. Vest!Vested(s, t) \in 0..n /\ Vest!Vested(s, t + 1) \in 0..n
      /\ (t < s.cliff => Vest!Vested(s, t) = 0)
      /\ (t + 1 >= s.end => Vest!Vested(s, t + 1) = n)
  BY VestedIs
<1>3. CASE t < s.cliff \/ t <= s.start
  <2>1. Vest!Vested(s, t) = 0
    BY <1>3 DEF Vest!Vested
  <2> QED BY <1>1, <1>2, <2>1
<1>4. CASE t + 1 >= s.end
  BY <1>1, <1>2, <1>4
<1>5. CASE t >= s.cliff /\ t > s.start /\ t + 1 < s.end
  <2>1. /\ Vest!Vested(s, t) = (n * x) \div d
        /\ Vest!Vested(s, t + 1) = (n * (x + 1)) \div d
    BY <1>1, <1>5 DEF Vest!Vested
  <2>2. x \in Nat
    BY <1>1, <1>5
  <2> HIDE DEF x, d, n
  <2>3. x * n <= (x + 1) * n /\ x * n \in Nat /\ (x + 1) * n \in Nat
    BY <1>1, <2>2, ProductGrows
  <2>4. n * x = x * n /\ n * (x + 1) = (x + 1) * n
    BY <1>1, <2>2
  <2>5. (n * x) \div d <= (n * (x + 1)) \div d
    BY <1>1, <2>3, <2>4, QuotientGrows
  <2> QED BY <2>1, <2>5
<1> QED BY <1>1, <1>3, <1>4, <1>5

LEMMA VestingTotal == \A f : Vest!Total(f) = Total(f)
BY DEF Total, SumOver, MapThenSumSet, MapThenFoldSet,
       Vest!Total, Vest!SumOver, Vest!MapThenSumSet, Vest!MapThenFoldSet

LEMMA CreateVesting ==
    ASSUME VestingInv, NEW b \in Beneficiaries, NEW total \in Totals, NEW start \in VestingTimes,
           NEW cliff \in VestingTimes, NEW end \in VestingTimes,
           Vest!CreateSchedule(b, total, start, cliff, end)
    PROVE  VestingInv'
<1> DEFINE s == [beneficiary |-> b, total |-> total, released |-> 0, start |-> start,
                 cliff |-> start + cliff, end |-> end]
           n == Len(schedules)
<1>1. /\ schedules' = Append(schedules, s) /\ vestingVault' = vestingVault + total /\ now' = now
      /\ total > 0 /\ start + cliff < end
  BY DEF Vest!CreateSchedule, Vest!ValidInputs
<1>2. total \in Nat /\ start \in Nat /\ cliff \in Nat /\ end \in Nat
  BY VestingOK
<1>3. s \in Schedule /\ s.total = total /\ s.released = 0 /\ Rises(s)
  BY <1>1, <1>2 DEF Schedule, Rises
<1> HIDE DEF s
<1>4. OnLine(s, now)
  <2>1. Vest!Vested(s, now) \in 0..s.total
    BY <1>3, VestedIs DEF VestingInv
  <2> QED BY <1>2, <1>3, <2>1 DEF OnLine
<1>5. /\ schedules' \in Seq(Schedule) /\ DOMAIN schedules' = 1..(n + 1)
      /\ schedules'[n + 1] = s /\ \A id \in 1..n : schedules'[id] = schedules[id]
      /\ DOMAIN schedules = 1..n /\ n \in Nat
  BY <1>1, <1>3 DEF VestingInv
<1>6. \A id \in DOMAIN schedules' : OnLine(schedules'[id], now')
  <2>1. \A id \in 1..(n + 1) : id \in 1..n \/ id = n + 1
    BY <1>5
  <2> QED BY <1>1, <1>4, <1>5, <2>1 DEF VestingInv
<1>7. Vest!Locked' = Vest!Locked + total /\ Vest!Locked \in Nat
  <2> DEFINE f == Vest!Unreleased
             g == Vest!Unreleased'
  <2>1. /\ DOMAIN f = 1..n /\ \A id \in 1..n : f[id] = schedules[id].total - schedules[id].released
        /\ DOMAIN g = 1..(n + 1)
        /\ \A id \in 1..(n + 1) : g[id] = schedules'[id].total - schedules'[id].released
    BY <1>5 DEF Vest!Unreleased
  <2> HIDE DEF f, g
  <2>2. \A id \in 1..n : f[id] \in Nat /\ g[id] = f[id]
    <3> TAKE id \in 1..n
    <3>1. schedules[id] \in Schedule /\ schedules[id].released <= schedules[id].total
      BY <1>5 DEF VestingInv, OnLine
    <3>2. f[id] \in Nat
      BY <2>1, <3>1 DEF Schedule
    <3>3. id \in 1..(n + 1)
      BY <1>5
    <3> QED BY <2>1, <3>2, <3>3, <1>5
  <2>3. g[n + 1] = total
    BY <2>1, <1>2, <1>3, <1>5
  <2>4. Total(f) \in Nat /\ Total(g) = Total(f) + g[n + 1]
    <3>1. n \in Nat /\ DOMAIN f = 1..n /\ DOMAIN g = 1..(n + 1) /\ g[n + 1] \in Nat
      BY <1>2, <1>5, <2>1, <2>3
    <3> HIDE DEF n
    <3> QED BY <2>2, <3>1, TotalAppend
  <2>5. Vest!Locked = Total(f) /\ Vest!Locked' = Total(g)
    BY VestingTotal DEF Vest!Locked, f, g
  <2> QED BY <2>3, <2>4, <2>5
<1> QED BY <1>1, <1>2, <1>5, <1>6, <1>7 DEF VestingInv

LEMMA ReleaseVesting ==
    ASSUME VestingInv, NEW id \in DOMAIN schedules, Vest!Release(id)
    PROVE  VestingInv'
<1> DEFINE s == schedules[id]
           v == Vest!Vested(s, now)
           s2 == schedules'[id]
           S == DOMAIN schedules
<1>1. /\ schedules' = [schedules EXCEPT ![id].released = @ + Vest!Releasable(s)]
      /\ vestingVault' = vestingVault - Vest!Releasable(s) /\ now' = now
      /\ vestingVault >= Vest!Releasable(s) /\ Vest!Releasable(s) > 0
  BY DEF Vest!Release
<1>2. s \in Schedule /\ OnLine(s, now) /\ now \in Nat /\ schedules \in Seq(Schedule)
  BY DEF VestingInv
<1>3. /\ v \in 0..s.total /\ Vest!Releasable(s) = v - s.released
      /\ s.released \in Nat /\ s.total \in Nat
  BY <1>2, VestedIs DEF OnLine, Schedule, Vest!Releasable
<1>4. s2 = [s EXCEPT !.released = v]
  <2>1. s2 = [s EXCEPT !.released = s.released + (v - s.released)]
    BY <1>1, <1>2, <1>3
  <2>2. s.released + (v - s.released) = v
    BY <1>3
  <2> QED BY <2>1, <2>2
<1>5. /\ schedules' \in [S -> Schedule] /\ DOMAIN schedules' = S
      /\ \A k \in S \ {id} : schedules'[k] = schedules[k]
  <2>1. s2 \in Schedule
    <3>1. v \in Nat /\ s \in Schedule
      BY <1>2, <1>3
    <3> HIDE DEF v, s, s2
    <3> QED BY <1>4, <3>1 DEF Schedule
  <2>2. schedules' = [schedules EXCEPT ![id] = s2]
    BY <1>1, <1>2
  <2>3. \A k \in S : schedules[k] \in Schedule
    BY <1>2
  <2> HIDE DEF s2
  <2> QED BY <2>1, <2>2, <2>3, <1>2
<1>6. schedules' \in Seq(Schedule) /\ S = 1..Len(schedules) /\ Len(schedules) \in Nat
  <2>1. S = 1..Len(schedules) /\ Len(schedules) \in Nat
    BY <1>2
  <2> QED BY <2>1, <1>5, SeqDef
<1>7. /\ s2.released = v /\ s2.total = s.total /\ s2.start = s.start /\ s2.cliff = s.cliff
      /\ s2.end = s.end
  BY <1>2, <1>4 DEF Schedule
<1>8. OnLine(s2, now)
  <2>1. Vest!Vested(s2, now) = v
    BY <1>7 DEF Vest!Vested
  <2> QED BY <1>2, <1>3, <1>7, <2>1 DEF OnLine, Rises
<1>9. \A k \in DOMAIN schedules' : OnLine(schedules'[k], now')
  BY <1>1, <1>5, <1>8 DEF VestingInv
<1>10. Vest!Locked' = Vest!Locked - (v - s.released)
  <2> DEFINE f == Vest!Unreleased
             g == Vest!Unreleased'
  <2>1. /\ DOMAIN f = S /\ \A k \in S : f[k] = schedules[k].total - schedules[k].released
        /\ DOMAIN g = S /\ \A k \in S : g[k] = schedules'[k].total - schedules'[k].released
    BY <1>5 DEF Vest!Unreleased
  <2> HIDE DEF f, g
  <2>2. \A k \in S : f[k] \in Nat /\ g[k] \in Nat
    <3> TAKE k \in S
    <3>1. /\ schedules[k] \in Schedule /\ schedules[k].released <= schedules[k].total
          /\ schedules'[k] \in Schedule /\ schedules'[k].released <= schedules'[k].total
      BY <1>5, <1>9 DEF VestingInv, OnLine
    <3> QED BY <2>1, <3>1 DEF Schedule
  <2>3. \A k \in S \ {id} : g[k] = f[k]
    BY <2>1, <1>5
  <2>4. f[id] = s.total - s.released /\ g[id] = s.total - v
    BY <2>1, <1>7
  <2>5. Total(f) \in Nat /\ Total(g) \in Nat /\ Total(g) - g[id] = Total(f) - f[id]
    <3>1. IsFiniteSet(S)
      BY <1>6, FS_Interval
    <3> HIDE DEF S
    <3> QED BY <2>1, <2>2, <2>3, <3>1, TotalChange DEF S
  <2>6. Vest!Locked = Total(f) /\ Vest!Locked' = Total(g)
    BY VestingTotal DEF Vest!Locked, f, g
  <2> QED BY <2>4, <2>5, <2>6, <1>3
<1>11. vestingVault' \in Nat
  BY <1>1, <1>3 DEF VestingInv
<1> QED BY <1>1, <1>2, <1>3, <1>6, <1>9, <1>10, <1>11 DEF VestingInv

LEMMA VestingStep == ASSUME VestingInv, [Vest!Next]_(Vest!vars) PROVE VestingInv'
<1>1. ASSUME UNCHANGED <<schedules, vestingVault, now>> PROVE VestingInv'
  BY <1>1 DEF VestingInv, Vest!Locked, Vest!Unreleased
<1>2. ASSUME Vest!Tick PROVE VestingInv'
  <2>1. schedules' = schedules /\ vestingVault' = vestingVault /\ now' = now + 1
    BY <1>2 DEF Vest!Tick
  <2>2. ASSUME NEW id \in DOMAIN schedules PROVE OnLine(schedules[id], now + 1)
    <3> DEFINE s == schedules[id]
    <3>1. s \in Schedule /\ OnLine(s, now) /\ now \in Nat
      BY DEF VestingInv
    <3>2. Vest!Vested(s, now) <= Vest!Vested(s, now + 1) /\ Vest!Vested(s, now) \in Nat
          /\ Vest!Vested(s, now + 1) \in Nat /\ s.released \in Nat
      BY <3>1, VestedGrows, VestedIs DEF OnLine, Schedule
    <3> QED BY <3>1, <3>2 DEF OnLine
  <2> QED BY <2>1, <2>2 DEF VestingInv, Vest!Locked, Vest!Unreleased
<1>3. ASSUME NEW flag \in BOOLEAN, Vest!SetPaused(flag) PROVE VestingInv'
  BY <1>1, <1>3 DEF Vest!SetPaused
<1>4. ASSUME UNCHANGED Vest!vars PROVE VestingInv'
  BY <1>1, <1>4 DEF Vest!vars
<1> QED BY <1>2, <1>3, <1>4, CreateVesting, ReleaseVesting DEF Vest!Next

LEMMA VestingInvariant == Vest!Spec => []VestingInv
<1>1. Vest!Init => VestingInv
  <2> SUFFICES ASSUME Vest!Init PROVE VestingInv
    OBVIOUS
  <2>1. /\ schedules = <<>> /\ vestingVault = 0 /\ now = 0
    BY DEF Vest!Init
  <2>2. Vest!Locked = 0
    <3> DEFINE f == Vest!Unreleased
    <3>1. DOMAIN f = {}
      BY <2>1 DEF Vest!Unreleased
    <3> HIDE DEF f
    <3>2. Total(f) = 0
      BY <3>1, SumEmpty DEF Total
    <3> QED BY <3>2, VestingTotal DEF Vest!Locked, f
  <2> QED BY <2>1, <2>2 DEF VestingInv
<1>2. VestingInv /\ [Vest!Next]_(Vest!vars) => VestingInv'
  BY VestingStep
<1> QED BY <1>1, <1>2, PTL DEF Vest!Spec

(* Whatever is locked and whenever it is released, a beneficiary never has   *)
(* more than the line gives, and the contract still holds what it has not    *)
(* released of every schedule.                                               *)
THEOREM VestingHolds == Vest!Spec => []VestingPaid
<1>1. ASSUME VestingInv, NEW id \in DOMAIN schedules
      PROVE  LET s == schedules[id] IN
             /\ s.released * (s.end - s.start) <= s.total * (now - s.start)
                \/ s.released = 0 \/ now > s.end
             /\ now < s.cliff => s.released = 0
             /\ now >= s.end => Vest!Vested(s, now) = s.total
  <2> DEFINE s == schedules[id]
             v == Vest!Vested(s, now)
  <2>1. s \in Schedule /\ OnLine(s, now) /\ now \in Nat
    BY <1>1 DEF VestingInv
  <2>2. /\ s.released \in Nat /\ s.released <= v /\ v \in 0..s.total
        /\ s.total \in Nat /\ s.start \in Nat /\ s.end \in Nat /\ s.start < s.end
    BY <2>1, VestedIs DEF OnLine, Schedule, Rises
  <2>3. (now < s.cliff => v = 0) /\ (now >= s.end => v = s.total)
    BY <2>1, VestedIs DEF OnLine
  <2>4. ASSUME s.released # 0, ~(now > s.end)
        PROVE  s.released * (s.end - s.start) <= s.total * (now - s.start)
    <3> DEFINE d == s.end - s.start
               x == now - s.start
               r == s.released
               n == s.total
    <3>1. v > 0 /\ now <= s.end
      BY <2>1, <2>2, <2>4
    <3>2. now >= s.start /\ v * d <= n * x
      BY <2>1, <3>1, VestedIs DEF OnLine
    <3>3. d \in Nat /\ x \in Nat /\ v \in Nat /\ r \in Nat /\ r <= v /\ n \in Nat
      BY <2>1, <2>2, <3>2
    <3> HIDE DEF d, x, r, n, v
    <3>4. r * d \in Nat /\ v * d \in Nat /\ r * d <= v * d /\ n * x \in Nat
      BY <3>3, ProductGrows
    <3>5. r * d <= n * x
      BY <3>2, <3>4
    <3> QED BY <3>5 DEF d, x, r, n
  <2>5. now < s.cliff => s.released = 0
    BY <2>2, <2>3
  <2> QED BY <2>3, <2>4, <2>5
<1>2. VestingInv => VestingPaid
  BY <1>1 DEF VestingInv, VestingPaid, Vest!VaultCoversSchedules, Vest!ReleasedOnTheLine
<1> QED BY <1>2, VestingInvariant, PTL

----------------------------------------------------------------------------
(* Insurance. *)

LEMMA InsuranceOperators ==
    /\ \A f : Ins!Total(f) = Total(f)
    /\ \A list, kept : Ins!Sublist(list, kept) = Sublist(list, kept)
    /\ \A S : Ins!Max(S) = Max(S)
<1>1. \A f : Ins!Total(f) = Total(f)
  BY DEF Total, SumOver, MapThenSumSet, MapThenFoldSet,
         Ins!Total, Ins!SumOver, Ins!MapThenSumSet, Ins!MapThenFoldSet
<1>2. \A list, kept : Ins!Sublist(list, kept) = Sublist(list, kept)
  BY Zenon DEF Sublist, Ins!Sublist, Cardinality, Ins!Cardinality
<1>3. \A S : Ins!Max(S) = Max(S)
  BY DEF Max, Ins!Max
<1> QED BY <1>1, <1>2, <1>3

Coverage == [provider : Providers, cover : Nat, premium : Nat, pct : 1..100, active : BOOLEAN]

Covers(list) == [n \in DOMAIN list |-> list[n].cover]

Percents(list) == [n \in DOMAIN list |-> list[n].pct]

(* Each coverage is at most its share of the amount, all of them are active   *)
(* until the default, and then all are claimed.                              *)
InsuranceInv ==
    /\ insured \in [amount : Nat, insurance : Seq(Coverage),
                    status : {"Active", "Defaulted", "Completed", "Refunded", "Withdrawn"}]
    /\ \A n \in DOMAIN insured.insurance :
          insured.insurance[n].premium <= insured.insurance[n].cover
    /\ Total(Percents(insured.insurance)) <= 100
    /\ 100 * Total(Covers(insured.insurance)) <=
          insured.amount * Total(Percents(insured.insurance))
    /\ insured.status # "Defaulted" =>
          claims = <<>> /\ \A n \in DOMAIN insured.insurance : insured.insurance[n].active
    /\ insured.status = "Defaulted" =>
          /\ \A n \in DOMAIN insured.insurance : ~insured.insurance[n].active
          /\ claims \in Seq([provider : Providers, amount : Nat])
          /\ DOMAIN claims = DOMAIN insured.insurance
          /\ \A n \in DOMAIN claims : claims[n].amount = insured.insurance[n].cover

LEMMA InsuredTypes ==
    ASSUME InsuranceInv
    PROVE  /\ insured.amount \in Nat /\ insured.insurance \in Seq(Coverage)
           /\ DOMAIN insured.insurance = 1..Len(insured.insurance)
           /\ Len(insured.insurance) \in Nat
           /\ \A n \in DOMAIN insured.insurance :
                 /\ insured.insurance[n] \in Coverage
                 /\ insured.insurance[n].cover \in Nat /\ insured.insurance[n].pct \in Nat
<1>1. insured.amount \in Nat /\ insured.insurance \in Seq(Coverage)
  BY DEF InsuranceInv
<1>2. /\ DOMAIN insured.insurance = 1..Len(insured.insurance)
      /\ Len(insured.insurance) \in Nat
      /\ \A n \in DOMAIN insured.insurance : insured.insurance[n] \in Coverage
  BY <1>1
<1>3. \A c \in Coverage : c.cover \in Nat /\ c.pct \in Nat
  BY DEF Coverage
<1> QED BY <1>1, <1>2, <1>3

LEMMA Coverages ==
    ASSUME InsuranceInv
    PROVE  /\ insured.status # "Defaulted" => Ins!ActiveCoverages = insured.insurance
           /\ insured.status = "Defaulted" => Ins!ActiveCoverages = <<>>
<1> DEFINE list == insured.insurance
           kept == {n \in DOMAIN list : list[n].active}
<1>1. Ins!ActiveCoverages = Sublist(list, kept)
  BY InsuranceOperators DEF Ins!ActiveCoverages
<1>2. list \in Seq(Coverage)
  BY InsuredTypes
<1>3. CASE insured.status # "Defaulted"
  <2>1. kept = DOMAIN list
    BY <1>3, Zenon DEF InsuranceInv
  <2> QED BY <1>1, <1>2, <1>3, <2>1, SublistAll
<1>4. CASE insured.status = "Defaulted"
  <2>1. kept = {}
    BY <1>4, Zenon DEF InsuranceInv
  <2> QED BY <1>1, <1>4, <2>1, SublistNone
<1> QED BY <1>3, <1>4

(* A new coverage: its numbers. *)
LEMMA NewCoverage ==
    ASSUME NEW amount \in Nat, NEW pct \in 1..100, Ins!Premium(amount, pct) > 0
    PROVE  /\ Ins!CoverOf(amount, pct) \in Nat
           /\ 100 * Ins!CoverOf(amount, pct) <= amount * pct
           /\ Ins!Premium(amount, pct) \in Nat
<1> DEFINE cover == Ins!CoverOf(amount, pct)
           premium == Ins!Premium(amount, pct)
           x == amount * pct
<1>1. x \in Nat /\ cover = x \div 100
  BY DEF Ins!CoverOf
<1> HIDE DEF x
<1>2. cover \in Nat /\ cover * 100 <= x
  BY <1>1, QuotientIs
<1>3. cover * 100 = 100 * cover
  BY <1>2
<1>4. premium \in Nat
  <2>1. premium = IF pct \notin Ins!MinCoverage..Ins!MaxCoverage \/ cover \notin 1..amount THEN 0
                  ELSE Max({(cover * Ins!PremiumBps) \div 10000, Ins!MinPremium})
    BY InsuranceOperators DEF Ins!Premium
  <2> HIDE DEF cover, premium
  <2>2. (cover * Ins!PremiumBps) \div 10000 \in Int /\ Ins!MinPremium \in Int
    BY <1>2 DEF Ins!PremiumBps, Ins!MinPremium
  <2>3. Max({(cover * Ins!PremiumBps) \div 10000, Ins!MinPremium}) \in Int
    BY <2>2, LargerOf
  <2>4. premium \in Int
    BY <2>1, <2>3
  <2>5. premium > 0
    BY DEF premium
  <2> QED BY <2>4, <2>5
<1> QED BY <1>2, <1>3, <1>4 DEF x

LEMMA AddInsurance ==
    ASSUME InsuranceInv, NEW p \in Providers, NEW pct \in Percentages, Ins!AddInsurance(p, pct)
    PROVE  InsuranceInv'
<1> DEFINE list == insured.insurance
           amount == insured.amount
           cover == Ins!CoverOf(amount, pct)
           premium == Ins!Premium(amount, pct)
           c == [provider |-> p, cover |-> cover, premium |-> premium, pct |-> pct, active |-> TRUE]
           new == Append(list, c)
           N == Len(list)
<1>1. /\ insured.status = "Active" /\ premium > 0 /\ pct \in 1..100
      /\ premium <= cover
      /\ insured' = [insured EXCEPT !.insurance = new]
      /\ UNCHANGED claims
      /\ Ins!FitsTotal(pct)
  BY DEF Ins!AddInsurance, Ins!Accepts, Ins!MinCoverage, Ins!MaxCoverage
<1>2. /\ amount \in Nat /\ list \in Seq(Coverage) /\ DOMAIN list = 1..N /\ N \in Nat
      /\ \A n \in DOMAIN list :
            /\ list[n] \in Coverage
            /\ list[n].cover \in Nat /\ list[n].pct \in Nat
  BY InsuredTypes
<1>3. /\ cover \in Nat /\ 100 * cover <= amount * pct
      /\ premium \in Nat
  BY <1>1, <1>2, NewCoverage
<1>4. c \in Coverage /\ c.cover = cover /\ c.pct = pct /\ c.premium = premium /\ c.active = TRUE
  <2> HIDE DEF cover, premium
  <2>1. c.cover = cover /\ c.pct = pct /\ c.premium = premium
    OBVIOUS
  <2>2. c \in Coverage /\ c.active = TRUE
    BY <1>1, <1>3, Zenon DEF Coverage
  <2> QED BY <2>1, <2>2
<1> HIDE DEF c
<1>0. pct \in Nat
  BY InsuranceOK
<1>5. /\ new \in Seq(Coverage) /\ DOMAIN new = 1..(N + 1)
      /\ \A n \in 1..N : new[n] = list[n]
      /\ new[N + 1] = c
  BY <1>2, <1>4
<1> HIDE DEF new
<1>6. /\ insured'.amount = amount /\ insured'.insurance = new
      /\ insured'.status = "Active"
      /\ insured' \in [amount : Nat, insurance : Seq(Coverage),
                       status : {"Active", "Defaulted", "Completed", "Refunded", "Withdrawn"}]
  <2>1. insured \in [amount : Nat, insurance : Seq(Coverage),
                     status : {"Active", "Defaulted", "Completed", "Refunded", "Withdrawn"}]
    BY DEF InsuranceInv
  <2> QED BY <1>1, <1>5, <2>1
<1>7. /\ Total(Percents(list)) \in Nat
      /\ Total(Percents(new)) = Total(Percents(list)) + pct
  <2> DEFINE f == Percents(list)
             g == Percents(new)
  <2>1. DOMAIN f = 1..N /\ DOMAIN g = 1..(N + 1)
    BY <1>2, <1>5 DEF Percents
  <2>2. \A m \in 1..N : f[m] \in Nat /\ g[m] = f[m]
    BY <1>2, <1>5 DEF Percents
  <2>3. g[N + 1] = pct
    BY <1>2, <1>4, <1>5 DEF Percents
  <2> HIDE DEF f, g
  <2>4. g[N + 1] \in Nat
    BY <1>0, <2>3
  <2>5. Total(f) \in Nat /\ Total(g) = Total(f) + g[N + 1]
    BY <1>2, <2>1, <2>2, <2>4, TotalAppend
  <2> QED BY <2>3, <2>5 DEF f, g
<1>8. /\ Total(Covers(list)) \in Nat
      /\ Total(Covers(new)) = Total(Covers(list)) + cover
  <2> DEFINE f == Covers(list)
             g == Covers(new)
  <2>1. DOMAIN f = 1..N /\ DOMAIN g = 1..(N + 1)
    BY <1>2, <1>5 DEF Covers
  <2>2. \A m \in 1..N : f[m] \in Nat /\ g[m] = f[m]
    BY <1>2, <1>5 DEF Covers
  <2>3. g[N + 1] = cover
    BY <1>2, <1>4, <1>5 DEF Covers
  <2>4. g[N + 1] \in Nat
    BY <1>3, <2>3
  <2> HIDE DEF f, g
  <2>5. Total(f) \in Nat /\ Total(g) = Total(f) + g[N + 1]
    BY <1>2, <2>1, <2>2, <2>4, TotalAppend
  <2> QED BY <2>3, <2>5 DEF f, g
<1>9. Total(Percents(list)) + pct <= 100
  <2>1. Ins!ActiveCoverages = list
    BY <1>1, Coverages
  <2> QED BY <1>1, <2>1, InsuranceOperators DEF Ins!FitsTotal, Ins!SumOf, Ins!MaxCoverage, Percents
<1>10. 100 * Total(Covers(new)) <= amount * Total(Percents(new))
  <2> DEFINE C == Total(Covers(list))
             P == Total(Percents(list))
  <2>1. 100 * C <= amount * P /\ C \in Nat /\ P \in Nat
        /\ amount \in Nat /\ pct \in Nat
    BY <1>2, <1>7, <1>8, <1>0 DEF InsuranceInv
  <2> HIDE DEF C, P, cover, amount
  <2>2. 100 * (C + cover) <= amount * (P + pct)
    <3>1. 100 * (C + cover) = 100 * C + 100 * cover
      BY <1>3, <2>1
    <3>2. amount * (P + pct) = amount * P + amount * pct
      BY <2>1
    <3> DEFINE x == amount * P
               y == amount * pct
    <3>3. x \in Int /\ y \in Int
      BY <2>1
    <3> HIDE DEF x, y
    <3>4. 100 * C <= x /\ 100 * cover <= y
      BY <1>3, <2>1 DEF x, y
    <3>5. 100 * C + 100 * cover <= x + y
      BY <1>3, <2>1, <3>3, <3>4
    <3> QED BY <3>1, <3>2, <3>5 DEF x, y
  <2> QED BY <1>7, <1>8, <2>2 DEF C, P
<1>11. \A n \in DOMAIN new : new[n].premium <= new[n].cover
  <2> TAKE n \in DOMAIN new
  <2>1. CASE n \in 1..N
    BY <1>2, <1>5, <2>1 DEF InsuranceInv
  <2>2. CASE n = N + 1
    BY <1>1, <1>4, <1>5, <2>2
  <2> QED BY <1>2, <1>5, <2>1, <2>2
<1>12. claims' = <<>> /\ \A n \in DOMAIN new : new[n].active
  <2>0. claims' = <<>> /\ \A n \in DOMAIN list : list[n].active
    <3>1. insured.status # "Defaulted"
      BY <1>1
    <3> QED BY <1>1, <3>1, Zenon DEF InsuranceInv
  <2>1. \A n \in DOMAIN new : n \in DOMAIN list \/ n = N + 1
    BY <1>2, <1>5
  <2>2. \A n \in DOMAIN list : new[n] = list[n]
    BY <1>2, <1>5
  <2>3. \A n \in DOMAIN list : new[n].active
    BY <2>0, <2>2, Zenon
  <2>4. new[N + 1].active
    BY <1>4, <1>5, Zenon
  <2> QED BY <2>0, <2>1, <2>3, <2>4, Zenon
<1>13. Total(Percents(new)) <= 100
  BY <1>7, <1>9
<1>14. "Active" # "Defaulted"
  OBVIOUS
<1> QED BY <1>6, <1>10, <1>11, <1>12, <1>13, <1>14, Zenon DEF InsuranceInv

LEMMA Default ==
    ASSUME InsuranceInv, Ins!Default PROVE InsuranceInv'
<1> DEFINE list == insured.insurance
           amount == insured.amount
           N == Len(list)
           new == Ins!Claimed(list)
           raised == [n \in DOMAIN list |-> [provider |-> list[n].provider, amount |-> list[n].cover]]
<1>1. /\ insured.status = "Active"
      /\ insured' = [insured EXCEPT !.status = "Defaulted", !.insurance = new]
      /\ Ins!ActiveCoverages = list
      /\ claims = <<>>
      /\ claims' = claims \o [n \in DOMAIN Ins!ActiveCoverages |->
            [provider |-> Ins!ActiveCoverages[n].provider, amount |-> Ins!ActiveCoverages[n].cover]]
  <2>1. insured.status = "Active" /\ insured.status # "Defaulted"
    BY DEF Ins!Default
  <2>2. Ins!ActiveCoverages = list
    BY <2>1, Coverages
  <2>3. claims = <<>>
    BY <2>1 DEF InsuranceInv
  <2> QED BY <2>1, <2>2, <2>3 DEF Ins!Default
<1>2. /\ amount \in Nat /\ list \in Seq(Coverage) /\ DOMAIN list = 1..N /\ N \in Nat
      /\ \A n \in DOMAIN list : list[n] \in Coverage
  BY InsuredTypes
<1>3. \A x \in Coverage :
         /\ x.provider \in Providers /\ x.cover \in Nat
         /\ [x EXCEPT !.active = FALSE] \in Coverage
         /\ [x EXCEPT !.active = FALSE].cover = x.cover
         /\ [x EXCEPT !.active = FALSE].pct = x.pct
         /\ [x EXCEPT !.active = FALSE].premium = x.premium
  BY DEF Coverage
<1>4. \A x \in Coverage : [x EXCEPT !.active = FALSE].active = FALSE
  BY Zenon DEF Coverage
<1>5. /\ DOMAIN new = DOMAIN list
      /\ \A n \in DOMAIN list : new[n] = [list[n] EXCEPT !.active = FALSE]
  BY DEF Ins!Claimed
<1>6. new \in Seq(Coverage)
  <2>1. new = [n \in 1..N |-> [list[n] EXCEPT !.active = FALSE]]
    BY <1>2 DEF Ins!Claimed
  <2>2. \A n \in 1..N : [list[n] EXCEPT !.active = FALSE] \in Coverage
    BY <1>2, <1>3
  <2> QED BY <1>2, <2>1, <2>2, SeqDef
<1> HIDE DEF new
<1>7. Covers(new) = Covers(list) /\ Percents(new) = Percents(list)
  <2>1. \A n \in DOMAIN list : new[n].cover = list[n].cover /\ new[n].pct = list[n].pct
    BY <1>2, <1>3, <1>5
  <2> HIDE DEF list
  <2> QED BY <1>5, <2>1 DEF Covers, Percents
<1>8. \A n \in DOMAIN new : ~new[n].active
  BY <1>2, <1>4, <1>5, Zenon
<1>9. \A n \in DOMAIN new : new[n].premium <= new[n].cover
  BY <1>2, <1>3, <1>5 DEF InsuranceInv
<1>10. raised \in Seq([provider : Providers, amount : Nat]) /\ DOMAIN raised = DOMAIN list
       /\ \A n \in DOMAIN list : raised[n].amount = list[n].cover
  <2>1. \A n \in 1..N : [provider |-> list[n].provider, amount |-> list[n].cover]
                            \in [provider : Providers, amount : Nat]
    BY <1>2, <1>3
  <2>2. raised = [n \in 1..N |-> [provider |-> list[n].provider, amount |-> list[n].cover]]
    BY <1>2
  <2>3. raised \in Seq([provider : Providers, amount : Nat])
    BY <1>2, <2>1, <2>2, SeqDef
  <2> QED BY <2>3
<1>11. claims' = raised
  <2>1. claims' = <<>> \o raised
    BY <1>1
  <2> HIDE DEF raised
  <2> QED BY <1>10, <2>1
<1> HIDE DEF raised
<1>12. \A n \in DOMAIN new : new[n].cover = list[n].cover
  BY <1>2, <1>3, <1>5
<1>13. /\ insured'.amount = amount /\ insured'.insurance = new
       /\ insured'.status = "Defaulted"
       /\ insured' \in [amount : Nat, insurance : Seq(Coverage),
                        status : {"Active", "Defaulted", "Completed", "Refunded", "Withdrawn"}]
  <2>1. insured \in [amount : Nat, insurance : Seq(Coverage),
                     status : {"Active", "Defaulted", "Completed", "Refunded", "Withdrawn"}]
    BY DEF InsuranceInv
  <2> QED BY <1>1, <1>6, <2>1
<1>14. /\ Total(Percents(insured'.insurance)) <= 100
       /\ 100 * Total(Covers(insured'.insurance)) <=
             insured'.amount * Total(Percents(insured'.insurance))
  BY <1>7, <1>13 DEF InsuranceInv
<1>0. /\ claims' \in Seq([provider : Providers, amount : Nat])
       /\ DOMAIN claims' = DOMAIN insured'.insurance
       /\ \A n \in DOMAIN claims' : claims'[n].amount = insured'.insurance[n].cover
  BY <1>5, <1>10, <1>11, <1>12, <1>13, Zenon
<1>16. /\ \A n \in DOMAIN insured'.insurance : ~insured'.insurance[n].active
       /\ \A n \in DOMAIN insured'.insurance :
             insured'.insurance[n].premium <= insured'.insurance[n].cover
  BY <1>8, <1>9, <1>13, Zenon
<1> QED BY <1>13, <1>14, <1>0, <1>16, Zenon DEF InsuranceInv

LEMMA InsuranceStep ==
    ASSUME InsuranceInv, [Ins!Next]_(Ins!vars) PROVE InsuranceInv'
<1>1. CASE UNCHANGED Ins!vars
  BY <1>1, Zenon DEF InsuranceInv, Ins!vars
<1>2. ASSUME NEW p \in Providers, NEW pct \in Percentages, Ins!AddInsurance(p, pct)
      PROVE  InsuranceInv'
  BY <1>2, AddInsurance
<1>3. CASE Ins!Default
  BY <1>3, Default
<1>4. ASSUME NEW s \in {"Completed", "Refunded", "Withdrawn"}, Ins!End(s) PROVE InsuranceInv'
  <2>1. /\ insured.status = "Active" /\ insured' = [insured EXCEPT !.status = s]
        /\ claims' = claims
    BY <1>4 DEF Ins!End
  <2>2. insured \in [amount : Nat, insurance : Seq(Coverage),
                     status : {"Active", "Defaulted", "Completed", "Refunded", "Withdrawn"}]
    BY DEF InsuranceInv
  <2>3. /\ insured'.amount = insured.amount /\ insured'.insurance = insured.insurance
        /\ insured'.status # "Defaulted" /\ insured.status # "Defaulted"
        /\ insured' \in [amount : Nat, insurance : Seq(Coverage),
                         status : {"Active", "Defaulted", "Completed", "Refunded", "Withdrawn"}]
    BY <2>1, <2>2
  <2> QED BY <2>1, <2>3, Zenon DEF InsuranceInv
<1> QED BY <1>1, <1>2, <1>3, <1>4 DEF Ins!Next

LEMMA InsuranceInvariant == Ins!Spec => []InsuranceInv
<1>1. Ins!Init => InsuranceInv
  <2> SUFFICES ASSUME Ins!Init PROVE InsuranceInv
    OBVIOUS
  <2>1. PICK a \in InsuredSums : insured = [amount |-> a, status |-> "Active", insurance |-> <<>>]
    BY DEF Ins!Init
  <2>2. claims = <<>> /\ a \in Nat
    BY InsuranceOK DEF Ins!Init
  <2>3. insured.amount = a /\ insured.status = "Active" /\ insured.insurance = <<>>
    BY <2>1
  <2>4. insured \in [amount : Nat, insurance : Seq(Coverage),
                     status : {"Active", "Defaulted", "Completed", "Refunded", "Withdrawn"}]
    BY <2>1, <2>2
  <2>5. DOMAIN Covers(<<>>) = {} /\ DOMAIN Percents(<<>>) = {} /\ DOMAIN <<>> = {}
    BY DEF Covers, Percents
  <2>6. Total(Covers(<<>>)) = 0 /\ Total(Percents(<<>>)) = 0
    BY <2>5, SumEmpty DEF Total
  <2>7. /\ Total(Percents(insured.insurance)) <= 100
        /\ 100 * Total(Covers(insured.insurance)) <=
              insured.amount * Total(Percents(insured.insurance))
    BY <2>2, <2>3, <2>6
  <2>8. insured.status # "Defaulted" /\ \A n \in DOMAIN insured.insurance : FALSE
    BY <2>3, <2>5
  <2> QED BY <2>2, <2>4, <2>7, <2>8, Zenon DEF InsuranceInv
<1> QED BY <1>1, InsuranceStep, PTL DEF Ins!Spec

(* What a default claims from all providers together is never more than was   *)
(* invested, and each coverage is claimed exactly once, at that default.     *)
THEOREM ClaimsHold == Ins!Spec => []ClaimsPaid
<1>1. ASSUME InsuranceInv PROVE ClaimsPaid
  <2> DEFINE list == insured.insurance
             amount == insured.amount
             C == Total(Covers(list))
             P == Total(Percents(list))
             N == Len(list)
  <2>1. /\ amount \in Nat /\ list \in Seq(Coverage) /\ DOMAIN list = 1..N /\ N \in Nat
        /\ \A n \in DOMAIN list : list[n].cover \in Nat /\ list[n].pct \in Nat
    BY <1>1, InsuredTypes
  <2>2. C \in Nat /\ P \in Nat
    <3>1. IsFiniteSet(1..N)
      BY <2>1, IndexesFinite, ZenonT(20)
    <3>2. /\ DOMAIN Covers(list) = 1..N /\ DOMAIN Percents(list) = 1..N
          /\ \A n \in 1..N : Covers(list)[n] \in Nat /\ Percents(list)[n] \in Nat
      BY <2>1 DEF Covers, Percents
    <3> QED BY <3>1, <3>2, SumNat DEF Total
  <2>3. C <= amount
    <3>1. P <= 100 /\ 100 * C <= amount * P
      BY <1>1 DEF InsuranceInv
    <3> HIDE DEF C, P, amount
    <3>2. P * amount <= 100 * amount
      BY <2>1, <2>2, <3>1, ProductGrows
    <3>3. amount * P = P * amount /\ P * amount \in Int
      BY <2>1, <2>2
    <3> QED BY <2>1, <2>2, <3>1, <3>2, <3>3
  <2>4. /\ Total([n \in DOMAIN <<>> |-> <<>>[n].amount]) = 0
        /\ Total([n \in DOMAIN <<>> |-> <<>>[n].cover]) = 0
    <3>1. /\ DOMAIN [n \in DOMAIN <<>> |-> <<>>[n].amount] = {}
          /\ DOMAIN [n \in DOMAIN <<>> |-> <<>>[n].cover] = {}
      OBVIOUS
    <3> QED BY <3>1, SumEmpty DEF Total
  <2>5. \A n \in DOMAIN list : list[n].premium <= list[n].cover
    BY <1>1 DEF InsuranceInv
  <2>6. CASE insured.status # "Defaulted"
    <3>1. claims = <<>> /\ Ins!ActiveCoverages = list
      BY <1>1, <2>6, Coverages DEF InsuranceInv
    <3>2. Ins!SumOf(claims, LAMBDA c : c.amount) = 0
      BY <3>1, <2>4, InsuranceOperators DEF Ins!SumOf
    <3>3. Ins!SumOf(Ins!ActiveCoverages, LAMBDA c : c.cover) = C
      BY <3>1, InsuranceOperators DEF Ins!SumOf, Covers
    <3>4. Len(claims) + Len(Ins!ActiveCoverages) = Len(list)
      BY <2>1, <3>1
    <3> HIDE DEF C
    <3> QED BY <2>1, <2>3, <2>5, <3>2, <3>3, <3>4
            DEF ClaimsPaid, Ins!ClaimsWithinInvestment, Ins!ClaimedOnce
  <2>7. CASE insured.status = "Defaulted"
    <3>1. /\ Ins!ActiveCoverages = <<>> /\ DOMAIN claims = DOMAIN list
          /\ \A n \in DOMAIN claims : claims[n].amount = list[n].cover
          /\ claims \in Seq([provider : Providers, amount : Nat])
      BY <1>1, <2>7, Coverages DEF InsuranceInv
    <3>2. Ins!SumOf(claims, LAMBDA c : c.amount) = C
      <4>1. [n \in DOMAIN claims |-> claims[n].amount] = Covers(list)
        BY <3>1 DEF Covers
      <4> QED BY <4>1, InsuranceOperators DEF Ins!SumOf
    <3>3. Ins!SumOf(Ins!ActiveCoverages, LAMBDA c : c.cover) = 0
      BY <3>1, <2>4, InsuranceOperators DEF Ins!SumOf
    <3>4. Len(claims) + Len(Ins!ActiveCoverages) = Len(list)
      <4>1. DOMAIN claims = 1..Len(claims) /\ Len(claims) \in Nat
        BY <3>1
      <4>2. Len(claims) = N
        BY <2>1, <3>1, <4>1
      <4> QED BY <2>1, <3>1, <4>2
    <3> HIDE DEF C
    <3> QED BY <2>1, <2>3, <2>5, <3>2, <3>3, <3>4
            DEF ClaimsPaid, Ins!ClaimsWithinInvestment, Ins!ClaimedOnce
  <2> QED BY <2>6, <2>7
<1> QED BY <1>1, InsuranceInvariant, PTL

----------------------------------------------------------------------------
(* Fees and revenue. *)

LEMMA FeeTotal == \A f : Fee!Total(f) = Total(f)
BY DEF Total, SumOver, MapThenSumSet, MapThenFoldSet,
       Fee!Total, Fee!SumOver, Fee!MapThenSumSet, Fee!MapThenFoldSet

LEMMA FeeSets ==
    /\ IsFiniteSet(Fee!FeeType)
    /\ IsFiniteSet(Fee!Shares)
    /\ IsFiniteSet(Fee!Periods) /\ Fee!Periods \subseteq Nat
<1>1. \A x : IsFiniteSet({x})
  BY FS_Singleton
<1>2. IsFiniteSet(Fee!Shares)
  <2>1. IsFiniteSet({"treasury"} \cup {"developer"})
    BY <1>1, FS_Union
  <2>2. IsFiniteSet(({"treasury"} \cup {"developer"}) \cup {"platform"})
    BY <1>1, <2>1, FS_Union
  <2>3. Fee!Shares = ({"treasury"} \cup {"developer"}) \cup {"platform"}
    BY DEF Fee!Shares
  <2> QED BY <2>2, <2>3
<1>3. IsFiniteSet(Fee!FeeType)
  <2>1. IsFiniteSet({"Platform"} \cup {"Processing"})
    BY <1>1, FS_Union
  <2>2. IsFiniteSet(({"Platform"} \cup {"Processing"}) \cup {"Verification"})
    BY <1>1, <2>1, FS_Union
  <2>3. IsFiniteSet({"EarlyPayment"} \cup {"LatePayment"})
    BY <1>1, FS_Union
  <2>4. IsFiniteSet((({"Platform"} \cup {"Processing"}) \cup {"Verification"})
                    \cup ({"EarlyPayment"} \cup {"LatePayment"}))
    BY <2>2, <2>3, FS_Union
  <2>5. Fee!FeeType = (({"Platform"} \cup {"Processing"}) \cup {"Verification"})
                    \cup ({"EarlyPayment"} \cup {"LatePayment"})
    BY DEF Fee!FeeType
  <2> QED BY <2>4, <2>5
<1>4. IsFiniteSet(Fee!Periods) /\ Fee!Periods \subseteq Nat
  <2>1. MaxFeeTime \div PeriodLength \in Nat
    BY FeesOK, QuotientIs
  <2>2. 0 \in Int /\ MaxFeeTime \div PeriodLength \in Int
    BY <2>1
  <2> QED BY <2>1, <2>2, FS_Interval DEF Fee!Periods
<1> QED BY <1>2, <1>3, <1>4

Revenue ==
    [collected : Nat, byType : [Fee!FeeType -> Nat], distributed : Nat, pending : Nat]

Distributed(rev) == [p \in Fee!Periods |-> rev[p].distributed]

RevenueInv ==
    /\ revenue \in [Fee!Periods -> Revenue]
    /\ \A p \in Fee!Periods :
          /\ revenue[p].collected = revenue[p].distributed + revenue[p].pending
          /\ revenue[p].collected = Total(revenue[p].byType)
    /\ paid \in [Fee!Shares -> Nat]
    /\ Total(paid) = Total(Distributed(revenue))
    /\ split # <<>> => split \in Splits /\ Fee!ValidSplit(split)
    /\ now \in Nat /\ now <= MaxFeeTime

LEMMA RevenueTypes ==
    ASSUME RevenueInv, NEW p \in Fee!Periods
    PROVE  /\ revenue[p] \in Revenue
           /\ revenue[p].collected \in Nat /\ revenue[p].distributed \in Nat
           /\ revenue[p].pending \in Nat /\ revenue[p].byType \in [Fee!FeeType -> Nat]
BY DEF RevenueInv, Revenue

LEMMA CollectFees ==
    ASSUME RevenueInv, NEW u \in FeePayers, NEW payment \in FeesPaid, NEW amount \in FeeSums,
           Fee!CollectFees(u, payment, amount)
    PROVE  RevenueInv'
<1> DEFINE p == now \div PeriodLength
           r == revenue[p]
           f == r.byType
           h == [t \in Fee!FeeType |-> f[t] + payment[t]]
           s == [r EXCEPT !.collected = @ + amount, !.pending = @ + amount, !.byType = h]
<1>1. /\ amount > 0 /\ amount \in Nat
      /\ payment \in [Fee!FeeType -> Nat] /\ Total(payment) = amount
      /\ revenue' = [revenue EXCEPT ![p] = s]
      /\ UNCHANGED <<split, now, paid>>
  <2>1. amount \in Int /\ payment \in [Fee!FeeType -> Int]
    BY FeesOK
  <2>2. amount > 0 /\ Fee!AddsUp(payment, amount)
    BY DEF Fee!CollectFees
  <2>3. \A t \in Fee!FeeType : payment[t] \in Nat
    BY <2>1, <2>2 DEF Fee!AddsUp
  <2>4. Total(payment) = amount
    BY <2>2, FeeTotal DEF Fee!AddsUp
  <2>5. revenue' = [revenue EXCEPT ![p] = s] /\ UNCHANGED <<split, now, paid>>
    BY DEF Fee!CollectFees
  <2> QED BY <2>1, <2>2, <2>3, <2>4, <2>5
<1>2. p \in Fee!Periods
  <2>1. now \in Nat /\ now <= MaxFeeTime
    BY DEF RevenueInv
  <2>2. p \in Nat /\ MaxFeeTime \div PeriodLength \in Nat /\ p <= MaxFeeTime \div PeriodLength
    BY <2>1, FeesOK, QuotientIs, QuotientGrows
  <2> HIDE DEF p
  <2> QED BY <2>2 DEF Fee!Periods
<1> HIDE DEF p
<1>3. /\ r \in Revenue /\ r.collected \in Nat /\ r.distributed \in Nat
      /\ r.pending \in Nat /\ r.byType \in [Fee!FeeType -> Nat]
  BY <1>2, RevenueTypes
<1>4. /\ s \in Revenue
      /\ s.collected = r.collected + amount /\ s.pending = r.pending + amount
      /\ s.distributed = r.distributed /\ s.byType = h
  <2>1. h \in [Fee!FeeType -> Nat]
    BY <1>1, <1>3
  <2>2. /\ s.collected = r.collected + amount /\ s.pending = r.pending + amount
        /\ s.distributed = r.distributed /\ s.byType = h
    BY <1>3 DEF Revenue
  <2> HIDE DEF h
  <2>3. s \in Revenue
    <3>1. r.collected + amount \in Nat /\ r.pending + amount \in Nat
      BY <1>1, <1>3
    <3> QED BY <1>3, <2>1, <3>1 DEF Revenue
  <2> QED BY <2>2, <2>3
<1>5. Total(h) = Total(f) + amount
  <2>1. \A t \in Fee!FeeType : f[t] \in Nat /\ payment[t] \in Nat /\ h[t] = f[t] + payment[t]
    BY <1>1, <1>3
  <2>2. DOMAIN h = Fee!FeeType /\ DOMAIN f = Fee!FeeType /\ DOMAIN payment = Fee!FeeType
    BY <1>1, <1>3
  <2> HIDE DEF h, f
  <2>3. SumOver(h, Fee!FeeType) = SumOver(f, Fee!FeeType) + SumOver(payment, Fee!FeeType)
    BY <2>1, FeeSets, SumAdd
  <2> QED BY <1>1, <2>2, <2>3 DEF Total
<1>6. r.collected = r.distributed + r.pending /\ r.collected = Total(f)
  BY <1>2 DEF RevenueInv
<1> HIDE DEF s, h
<1>7. s.collected = s.distributed + s.pending /\ s.collected = Total(s.byType)
  BY <1>1, <1>3, <1>4, <1>5, <1>6
<1>8. /\ revenue' \in [Fee!Periods -> Revenue]
      /\ \A q \in Fee!Periods : revenue'[q] = IF q = p THEN s ELSE revenue[q]
  BY <1>1, <1>2, <1>4 DEF RevenueInv
<1>9. Distributed(revenue') = Distributed(revenue)
  BY <1>4, <1>8 DEF Distributed
<1>10. \A q \in Fee!Periods :
          /\ revenue'[q].collected = revenue'[q].distributed + revenue'[q].pending
          /\ revenue'[q].collected = Total(revenue'[q].byType)
  BY <1>7, <1>8 DEF RevenueInv
<1> QED BY <1>1, <1>8, <1>9, <1>10 DEF RevenueInv, Fee!ValidSplit

(* What is distributed reaches the three recipients in full. *)
LEMMA PartsAddUp ==
    ASSUME RevenueInv, split # <<>>, NEW x \in Nat
    PROVE  /\ Fee!Parts(x) \in [Fee!Shares -> Nat]
           /\ Total(Fee!Parts(x)) = x
<1> DEFINE t == Fee!Part(x, split.tBps)
           d == Fee!Part(x, split.dBps)
           a == split.tBps
           b == split.dBps
           parts == Fee!Parts(x)
<1>1. a \in Nat /\ b \in Nat /\ a + b <= 10000
  <2>1. split \in Splits /\ Fee!ValidSplit(split)
    BY DEF RevenueInv
  <2>2. split.tBps \in Nat /\ split.dBps \in Nat /\ split.pBps \in Nat
    BY <2>1, FeesOK
  <2>3. split.tBps + split.dBps + split.pBps = Fee!Bps
    BY <2>1, Zenon DEF Fee!ValidSplit
  <2>4. Fee!Bps = 10000
    BY DEF Fee!Bps
  <2> QED BY <2>2, <2>3, <2>4
<1>2. t \in Nat /\ t * 10000 <= x * a /\ d \in Nat /\ d * 10000 <= x * b
  <2> DEFINE y == x * a
             z == x * b
  <2>1. y \in Nat /\ z \in Nat /\ t = y \div 10000 /\ d = z \div 10000
    BY <1>1 DEF Fee!Part, Fee!Bps
  <2> HIDE DEF y, z, t, d
  <2>2. t \in Nat /\ t * 10000 <= y /\ d \in Nat /\ d * 10000 <= z
    BY <2>1, QuotientIs
  <2> QED BY <2>2 DEF y, z
<1>3. /\ parts = [s \in Fee!Shares |-> CASE s = "treasury" -> t [] s = "developer" -> d
                                         [] OTHER -> x - t - d]
  BY DEF Fee!Parts
<1> HIDE DEF t, d, a, b
<1>4. t + d <= x
  <2>1. x * a + x * b = (a + b) * x
    BY <1>1
  <2>2. (a + b) * x <= 10000 * x
    BY <1>1, ProductGrows
  <2> DEFINE y == x * a
             z == x * b
             w == (a + b) * x
  <2>3. y \in Int /\ z \in Int /\ w \in Int
    BY <1>1
  <2> HIDE DEF y, z, w
  <2> QED BY <1>2, <2>1, <2>2, <2>3 DEF y, z, w
<1> HIDE DEF parts
<1>5. /\ parts["treasury"] = t /\ parts["developer"] = d /\ parts["platform"] = x - t - d
      /\ DOMAIN parts = Fee!Shares
  BY <1>3 DEF Fee!Shares
<1>6. \A s \in Fee!Shares : parts[s] \in Nat
  BY <1>2, <1>4, <1>5 DEF Fee!Shares
<1>7. SumOver(parts, Fee!Shares) = x
  <2> DEFINE two == Fee!Shares \ {"treasury"}
             one == two \ {"developer"}
             none == one \ {"platform"}
  <2>1. none = {} /\ "treasury" \in Fee!Shares /\ "developer" \in two /\ "platform" \in one
    BY DEF Fee!Shares
  <2>2. /\ IsFiniteSet(Fee!Shares) /\ IsFiniteSet(two) /\ IsFiniteSet(one)
        /\ \A s \in two : parts[s] \in Nat
        /\ \A s \in one : parts[s] \in Nat
    BY <1>6, FeeSets, FS_RemoveElement
  <2> HIDE DEF two, one, none
  <2>3. SumOver(parts, Fee!Shares) = parts["treasury"] + SumOver(parts, two)
    BY <1>6, <2>1, <2>2, SumStep DEF two
  <2>4. SumOver(parts, two) = parts["developer"] + SumOver(parts, one)
    BY <2>1, <2>2, SumStep DEF one
  <2>5. SumOver(parts, one) = parts["platform"] + SumOver(parts, none)
    BY <2>1, <2>2, SumStep DEF none
  <2>6. SumOver(parts, none) = 0
    BY <2>1, SumEmpty
  <2> QED BY <1>2, <1>4, <1>5, <2>3, <2>4, <2>5, <2>6
<1>8. parts \in [Fee!Shares -> Nat]
  BY <1>3, <1>5, <1>6
<1> QED BY <1>5, <1>7, <1>8 DEF parts, Total

LEMMA DistributeRevenue ==
    ASSUME RevenueInv, NEW p \in Fee!Periods, Fee!DistributeRevenue(p)
    PROVE  RevenueInv'
<1> DEFINE r == revenue[p]
           x == r.pending
           s == [r EXCEPT !.distributed = @ + x, !.pending = 0]
           parts == Fee!Parts(x)
           f == Distributed(revenue)
           g == Distributed(revenue')
<1>1. /\ split # <<>>
      /\ revenue' = [revenue EXCEPT ![p] = s]
      /\ paid' = [y \in Fee!Shares |-> paid[y] + parts[y]]
      /\ UNCHANGED <<split, now>>
  BY DEF Fee!DistributeRevenue
<1>2. /\ r \in Revenue /\ r.collected \in Nat /\ r.distributed \in Nat
      /\ x \in Nat /\ r.byType \in [Fee!FeeType -> Nat]
  BY RevenueTypes
<1>3. parts \in [Fee!Shares -> Nat] /\ Total(parts) = x
  BY <1>1, <1>2, PartsAddUp
<1>5. /\ s \in Revenue
      /\ s.collected = r.collected /\ s.pending = 0
      /\ s.distributed = r.distributed + x /\ s.byType = r.byType
  <2>1. r.distributed + x \in Nat
    BY <1>2
  <2> QED BY <1>2, <2>1 DEF Revenue
<1> HIDE DEF s, parts
<1>6. /\ revenue' \in [Fee!Periods -> Revenue]
      /\ \A q \in Fee!Periods : revenue'[q] = IF q = p THEN s ELSE revenue[q]
  BY <1>1, <1>5 DEF RevenueInv
<1>7. \A q \in Fee!Periods :
          /\ revenue'[q].collected = revenue'[q].distributed + revenue'[q].pending
          /\ revenue'[q].collected = Total(revenue'[q].byType)
  <2>1. r.collected = r.distributed + r.pending /\ r.collected = Total(r.byType)
    BY DEF RevenueInv
  <2>2. s.collected = s.distributed + s.pending /\ s.collected = Total(s.byType)
    BY <1>2, <1>5, <2>1
  <2> QED BY <1>6, <2>2 DEF RevenueInv
<1>8. paid \in [Fee!Shares -> Nat] /\ paid' \in [Fee!Shares -> Nat]
  BY <1>1, <1>3 DEF RevenueInv
<1>9. Total(paid') = Total(paid) + x
  <2>1. /\ \A y \in Fee!Shares :
              paid[y] \in Nat /\ parts[y] \in Nat /\ paid'[y] = paid[y] + parts[y]
        /\ DOMAIN paid = Fee!Shares /\ DOMAIN paid' = Fee!Shares /\ DOMAIN parts = Fee!Shares
    BY <1>1, <1>3, <1>8
  <2>2. SumOver(paid', Fee!Shares) = SumOver(paid, Fee!Shares) + SumOver(parts, Fee!Shares)
    BY <2>1, FeeSets, SumAdd
  <2> QED BY <1>3, <2>1, <2>2 DEF Total
<1>10. /\ Total(f) \in Nat /\ Total(g) \in Nat
       /\ Total(g) = Total(f) + x
  <2>1. DOMAIN f = Fee!Periods /\ DOMAIN g = Fee!Periods
    BY DEF Distributed
  <2>2. \A q \in Fee!Periods : f[q] \in Nat
    BY RevenueTypes DEF Distributed
  <2>3. \A q \in Fee!Periods : g[q] = IF q = p THEN f[p] + x ELSE f[q]
    BY <1>5, <1>6 DEF Distributed
  <2> HIDE DEF f, g, x
  <2>4. g[p] = f[p] + x /\ f[p] \in Nat
    BY <1>2, <2>2, <2>3
  <2>5. \A q \in Fee!Periods : f[q] \in Nat /\ g[q] \in Nat
    BY <1>2, <2>2, <2>3
  <2>6. \A q \in Fee!Periods \ {p} : g[q] = f[q]
    BY <2>3
  <2>7. IsFiniteSet(Fee!Periods)
    BY FeeSets
  <2>8. /\ Total(f) \in Nat /\ Total(g) \in Nat
        /\ Total(g) - g[p] = Total(f) - f[p]
    BY <2>1, <2>5, <2>6, <2>7, TotalChange
  <2> QED BY <1>2, <2>4, <2>8
<1>11. Total(paid') = Total(g)
  BY <1>9, <1>10 DEF RevenueInv
<1> QED BY <1>1, <1>6, <1>7, <1>8, <1>11 DEF RevenueInv, Fee!ValidSplit

LEMMA RevenueStep ==
    ASSUME RevenueInv, [Fee!Next]_(Fee!vars) PROVE RevenueInv'
<1>1. ASSUME UNCHANGED <<revenue, split, now, paid>> PROVE RevenueInv'
  BY <1>1 DEF RevenueInv, Fee!ValidSplit
<1>2. CASE UNCHANGED Fee!vars
  BY <1>1, <1>2 DEF Fee!vars
<1>3. CASE Fee!Initialize \/ Fee!CancelRotation
  BY <1>1, <1>3 DEF Fee!Initialize, Fee!CancelRotation
<1>4. CASE Fee!Tick
  <2>1. /\ now < MaxFeeTime /\ now' = now + 1 /\ UNCHANGED <<revenue, split, paid>>
    BY <1>4 DEF Fee!Tick
  <2>2. now' \in Nat /\ now' <= MaxFeeTime
    BY <2>1, FeesOK DEF RevenueInv
  <2> QED BY <2>1, <2>2 DEF RevenueInv, Fee!ValidSplit
<1>5. ASSUME NEW bps \in PlatformBps, Fee!UpdatePlatformFee(bps) \/ Fee!SetPlatformFee(bps)
      PROVE  RevenueInv'
  BY <1>1, <1>5 DEF Fee!UpdatePlatformFee, Fee!SetPlatformFee
<1>6. ASSUME NEW s \in Structures, Fee!UpdateFeeStructure(s) PROVE RevenueInv'
  BY <1>1, <1>6 DEF Fee!UpdateFeeStructure
<1>7. ASSUME NEW c \in Splits, Fee!ConfigureRevenueDistribution(c) PROVE RevenueInv'
  <2>1. /\ Fee!ValidSplit(c) /\ split' = c /\ UNCHANGED <<revenue, now, paid>>
    BY <1>7 DEF Fee!ConfigureRevenueDistribution
  <2>2. split' \in Splits /\ Fee!ValidSplit(split')
    BY <2>1, Zenon
  <2>3. (Fee!ValidSplit(split))' <=> Fee!ValidSplit(split')
    BY Zenon DEF Fee!ValidSplit
  <2>4. (split # <<>> => split \in Splits /\ Fee!ValidSplit(split))'
    BY <2>2, <2>3, Zenon
  <2> QED BY <2>1, <2>4 DEF RevenueInv
<1>8. ASSUME NEW u \in FeePayers, NEW amount \in FeeSums,
             Fee!UpdateUserVolume(u, amount)
                \/ \E payment \in FeesPaid : Fee!CollectFees(u, payment, amount)
      PROVE  RevenueInv'
  BY <1>1, <1>8, CollectFees DEF Fee!UpdateUserVolume
<1>9. ASSUME NEW p \in Fee!Periods, Fee!DistributeRevenue(p) PROVE RevenueInv'
  BY <1>9, DistributeRevenue
<1>10. ASSUME NEW a \in Treasuries,
              Fee!ConfigureTreasury(a) \/ Fee!InitiateRotation(a) \/ Fee!ConfirmRotation(a)
       PROVE  RevenueInv'
  BY <1>1, <1>10 DEF Fee!ConfigureTreasury, Fee!InitiateRotation, Fee!ConfirmRotation
<1> QED BY <1>2, <1>3, <1>4, <1>5, <1>6, <1>7, <1>8, <1>9, <1>10 DEF Fee!Next

LEMMA RevenueInvariant == Fee!Spec => []RevenueInv
<1>1. Fee!Init => RevenueInv
  <2> SUFFICES ASSUME Fee!Init PROVE RevenueInv
    OBVIOUS
  <2> DEFINE none == [t \in Fee!FeeType |-> 0]
  <2>1. /\ revenue = [p \in Fee!Periods |-> Fee!NoRevenue] /\ split = <<>> /\ now = 0
        /\ paid = [s \in Fee!Shares |-> 0]
    BY DEF Fee!Init
  <2>2. /\ Fee!NoRevenue \in Revenue
        /\ Fee!NoRevenue.collected = 0 /\ Fee!NoRevenue.distributed = 0
        /\ Fee!NoRevenue.pending = 0 /\ Fee!NoRevenue.byType = none
    BY DEF Revenue, Fee!NoRevenue
  <2>3. Total(none) = 0
    <3>1. DOMAIN none = Fee!FeeType /\ \A t \in Fee!FeeType : none[t] = 0
      OBVIOUS
    <3> HIDE DEF none
    <3> QED BY <3>1, FeeSets, SumZero DEF Total
  <2>4. Total(paid) = 0
    <3>1. DOMAIN paid = Fee!Shares /\ \A t \in Fee!Shares : paid[t] = 0
      BY <2>1
    <3> QED BY <3>1, FeeSets, SumZero DEF Total
  <2>5. Total(Distributed(revenue)) = 0
    <3> DEFINE f == Distributed(revenue)
    <3>1. DOMAIN f = Fee!Periods /\ \A t \in Fee!Periods : f[t] = 0
      BY <2>1, <2>2 DEF Distributed
    <3> HIDE DEF f
    <3>2. Total(f) = 0
      BY <3>1, FeeSets, SumZero DEF Total
    <3> QED BY <3>2 DEF f
  <2> HIDE DEF none
  <2>6. /\ revenue \in [Fee!Periods -> Revenue]
        /\ \A p \in Fee!Periods :
              /\ revenue[p].collected = revenue[p].distributed + revenue[p].pending
              /\ revenue[p].collected = Total(revenue[p].byType)
    <3>1. revenue \in [Fee!Periods -> Revenue] /\ \A p \in Fee!Periods : revenue[p] = Fee!NoRevenue
      BY <2>1, <2>2
    <3> QED BY <2>2, <2>3, <3>1
  <2>7. paid \in [Fee!Shares -> Nat] /\ now \in Nat /\ now <= MaxFeeTime
    BY <2>1, FeesOK
  <2> QED BY <2>1, <2>4, <2>5, <2>6, <2>7 DEF RevenueInv
<1> QED BY <1>1, RevenueStep, PTL DEF Fee!Spec

(* Whoever confirms a rotation does so within its window.                    *)
RotationInv ==
    /\ now \in Nat
    /\ rotation # <<>> =>
          rotation.at \in Nat /\ rotation.at <= now /\ rotation.until = rotation.at + RotationTtl
    /\ rotated \in Seq([to : Treasuries, after : Int])
    /\ \A n \in DOMAIN rotated : rotated[n].after <= RotationTtl

LEMMA RotationStep ==
    ASSUME RotationInv, [Fee!Next]_(Fee!vars) PROVE RotationInv'
<1>1. ASSUME UNCHANGED <<rotation, rotated, now>> PROVE RotationInv'
  BY <1>1 DEF RotationInv
<1>2. CASE UNCHANGED Fee!vars
  BY <1>1, <1>2 DEF Fee!vars
<1>3. CASE Fee!Initialize
  BY <1>1, <1>3 DEF Fee!Initialize
<1>4. CASE Fee!CancelRotation
  BY <1>4 DEF RotationInv, Fee!CancelRotation
<1>5. CASE Fee!Tick
  <2>1. now' = now + 1 /\ UNCHANGED <<rotation, rotated>>
    BY <1>5 DEF Fee!Tick
  <2> QED BY <2>1 DEF RotationInv
<1>6. ASSUME NEW bps \in PlatformBps, Fee!UpdatePlatformFee(bps) \/ Fee!SetPlatformFee(bps)
      PROVE  RotationInv'
  BY <1>1, <1>6 DEF Fee!UpdatePlatformFee, Fee!SetPlatformFee
<1>7. ASSUME NEW s \in Structures, Fee!UpdateFeeStructure(s) PROVE RotationInv'
  BY <1>1, <1>7 DEF Fee!UpdateFeeStructure
<1>8. ASSUME NEW c \in Splits, Fee!ConfigureRevenueDistribution(c) PROVE RotationInv'
  BY <1>1, <1>8 DEF Fee!ConfigureRevenueDistribution
<1>9. ASSUME NEW u \in FeePayers, NEW amount \in FeeSums,
             Fee!UpdateUserVolume(u, amount)
                \/ \E payment \in FeesPaid : Fee!CollectFees(u, payment, amount)
      PROVE  RotationInv'
  BY <1>1, <1>9 DEF Fee!UpdateUserVolume, Fee!CollectFees
<1>10. ASSUME NEW p \in Fee!Periods, Fee!DistributeRevenue(p) PROVE RotationInv'
  BY <1>1, <1>10 DEF Fee!DistributeRevenue
<1>11. ASSUME NEW a \in Treasuries, Fee!ConfigureTreasury(a) PROVE RotationInv'
  BY <1>1, <1>11 DEF Fee!ConfigureTreasury
<1>12. ASSUME NEW a \in Treasuries, Fee!InitiateRotation(a) PROVE RotationInv'
  <2>1. /\ rotation' = [to |-> a, at |-> now, until |-> now + RotationTtl]
        /\ UNCHANGED <<rotated, now>>
    BY <1>12 DEF Fee!InitiateRotation
  <2>2. rotation'.at = now /\ rotation'.until = now + RotationTtl
    BY <2>1
  <2> QED BY <2>1, <2>2 DEF RotationInv
<1>13. ASSUME NEW a \in Treasuries, Fee!ConfirmRotation(a) PROVE RotationInv'
  <2> DEFINE last == [to |-> a, after |-> now - rotation.at]
  <2>1. /\ rotation # <<>> /\ now <= rotation.until
        /\ rotation' = <<>> /\ rotated' = Append(rotated, last) /\ now' = now
    BY <1>13 DEF Fee!ConfirmRotation, Fee!InTime
  <2>2. /\ last \in [to : Treasuries, after : Int] /\ last.after <= RotationTtl
    BY <2>1, FeesOK DEF RotationInv
  <2> HIDE DEF last
  <2>3. /\ rotated' \in Seq([to : Treasuries, after : Int])
        /\ \A n \in DOMAIN rotated' :
              (n \in DOMAIN rotated /\ rotated'[n] = rotated[n]) \/ rotated'[n] = last
    BY <2>1, <2>2 DEF RotationInv
  <2>4. \A n \in DOMAIN rotated' : rotated'[n].after <= RotationTtl
    BY <2>2, <2>3 DEF RotationInv
  <2> QED BY <2>1, <2>3, <2>4 DEF RotationInv
<1> QED BY <1>2, <1>3, <1>4, <1>5, <1>6, <1>7, <1>8, <1>9, <1>10, <1>11, <1>12, <1>13
        DEF Fee!Next

LEMMA RotationInvariant == Fee!Spec => []RotationInv
<1>1. Fee!Init => RotationInv
  BY DEF Fee!Init, RotationInv
<1> QED BY <1>1, RotationStep, PTL DEF Fee!Spec

(* Collected fees are pending or were paid out in full, and a treasury took   *)
(* over within its window.                                                   *)
THEOREM RevenueHolds == Fee!Spec => []RevenueAccounted
<1>1. ASSUME RevenueInv, RotationInv PROVE RevenueAccounted
  <2>1. Fee!RevenueAccounted
    BY <1>1, FeeTotal DEF RevenueInv, Distributed, Fee!RevenueAccounted
  <2>2. Fee!RotatedInTime
    BY <1>1 DEF RotationInv, Fee!RotatedInTime
  <2> QED BY <2>1, <2>2 DEF RevenueAccounted
<1> QED BY <1>1, RevenueInvariant, RotationInvariant, PTL

----------------------------------------------------------------------------
(* What a transaction is charged. *)

(* What is left of an amount after a rebate of D of 10000. *)
LEMMA RebateGrows ==
    ASSUME NEW a \in Nat, NEW b \in Nat, a <= b,
           NEW D \in Nat, NEW E \in Nat, E <= D, D <= 10000
    PROVE  /\ a - (a * D) \div 10000 \in Nat /\ b - (b * E) \div 10000 \in Nat
           /\ a - (a * D) \div 10000 <= b - (b * E) \div 10000
<1> DEFINE p == a * D
           q == a * E
           r == b * E
           x == p \div 10000
           y == q \div 10000
           z == r \div 10000
           c == b - a
<1>1. /\ p \in Nat /\ q \in Nat /\ r \in Nat /\ c \in Nat
      /\ q <= p /\ p <= a * 10000 /\ r <= b * 10000
      /\ r <= q + c * 10000
  <2>1. /\ D * a \in Nat /\ E * a \in Nat /\ E * a <= D * a
        /\ D * a <= 10000 * a
    BY ProductGrows
  <2>2. E * b \in Nat /\ E * b <= 10000 * b
    BY ProductGrows
  <2>3. c \in Nat
    OBVIOUS
  <2>4. E * c \in Nat /\ E * c <= 10000 * c
    BY <2>3, ProductGrows
  <2>5. p = D * a /\ q = E * a /\ r = E * b
    OBVIOUS
  <2>6. E * b = E * a + E * c
    OBVIOUS
  <2>7. 10000 * a = a * 10000 /\ 10000 * b = b * 10000 /\ 10000 * c = c * 10000
    BY <2>3
  <2> HIDE DEF p, q, r, c
  <2>8. q <= p /\ p <= a * 10000 /\ r <= b * 10000
    BY <2>1, <2>2, <2>5, <2>7
  <2>9. r <= q + c * 10000
    <3> DEFINE ea == E * a
               eb == E * b
               ec == E * c
    <3>1. /\ ea \in Nat /\ eb \in Nat /\ ec \in Nat
          /\ ec <= c * 10000 /\ q = ea /\ r = eb /\ eb = ea + ec
      BY <2>1, <2>2, <2>4, <2>5, <2>6, <2>7
    <3> HIDE DEF ea, eb, ec
    <3> QED BY <2>3, <3>1
  <2> QED BY <2>1, <2>2, <2>3, <2>5, <2>8, <2>9
<1> HIDE DEF p, q, r
<1>2. /\ x \in Nat /\ x * 10000 <= p
      /\ y \in Nat /\ q < (y + 1) * 10000 /\ y <= x
      /\ z \in Nat /\ z * 10000 <= r
  BY <1>1, QuotientIs, QuotientGrows
<1> HIDE DEF x, y, z
<1>3. x <= a /\ z <= b
  BY <1>1, <1>2
<1>4. z <= y + c
  BY <1>1, <1>2
<1>5. a - x \in Nat /\ b - z \in Nat /\ a - x <= b - z
  BY <1>1, <1>2, <1>3, <1>4 DEF c
<1> QED BY <1>5 DEF x, z, p, r

LEMMA BaseFeeGrows ==
    ASSUME NEW bps \in Nat, NEW s, s.bps = bps, s.min \in Nat, s.max \in Nat, s.min <= s.max,
           NEW a \in Nat, NEW b \in Nat, a <= b
    PROVE  /\ Fee!BaseFee(s, a) \in Nat /\ Fee!BaseFee(s, b) \in Nat
           /\ Fee!BaseFee(s, a) <= Fee!BaseFee(s, b)
<1> DEFINE x == Fee!Part(a, bps)
           y == Fee!Part(b, bps)
<1>1. x \in Nat /\ y \in Nat /\ x <= y
  <2>1. a * bps \in Nat /\ b * bps \in Nat /\ a * bps <= b * bps
    BY ProductGrows
  <2>2. x = (a * bps) \div 10000 /\ y = (b * bps) \div 10000
    BY DEF Fee!Part, Fee!Bps
  <2> HIDE DEF x, y
  <2> DEFINE p == a * bps
             q == b * bps
  <2>3. p \in Nat /\ q \in Nat /\ p <= q /\ x = p \div 10000 /\ y = q \div 10000
    BY <2>1, <2>2
  <2> HIDE DEF p, q
  <2> QED BY <2>3, QuotientIs, QuotientGrows
<1> HIDE DEF x, y
<1>2. /\ Fee!BaseFee(s, a) = IF x < s.min THEN s.min ELSE IF x > s.max THEN s.max ELSE x
      /\ Fee!BaseFee(s, b) = IF y < s.min THEN s.min ELSE IF y > s.max THEN s.max ELSE y
  BY DEF Fee!BaseFee, x, y
<1> QED BY <1>1, <1>2

LEMMA DiscountGrows ==
    ASSUME NEW v \in Int, NEW w \in Int, v >= w
    PROVE  /\ Fee!TierDiscount(Fee!Tier(v)) \in Nat /\ Fee!TierDiscount(Fee!Tier(w)) \in Nat
           /\ Fee!TierDiscount(Fee!Tier(v)) <= 10000
           /\ Fee!TierDiscount(Fee!Tier(w)) <= Fee!TierDiscount(Fee!Tier(v))
<1> DEFINE S == TierFrom.Silver
           G == TierFrom.Gold
           P == TierFrom.Platinum
<1>1. S \in Nat /\ G \in Nat /\ P \in Nat /\ S <= G /\ G <= P
  BY FeesOK
<1> HIDE DEF S, G, P
<1>2. ASSUME NEW x \in Int
      PROVE  Fee!TierDiscount(Fee!Tier(x)) =
                IF x >= P THEN 1500 ELSE IF x >= G THEN 1000 ELSE IF x >= S THEN 500 ELSE 0
  <2>1. CASE x >= P
    <3>1. Fee!Tier(x) = "Platinum"
      BY <2>1 DEF Fee!Tier, P
    <3> QED BY <2>1, <3>1 DEF Fee!TierDiscount
  <2>2. CASE ~(x >= P) /\ x >= G
    <3>1. Fee!Tier(x) = "Gold"
      BY <2>2 DEF Fee!Tier, P, G
    <3> QED BY <2>2, <3>1 DEF Fee!TierDiscount
  <2>3. CASE ~(x >= P) /\ ~(x >= G) /\ x >= S
    <3>1. Fee!Tier(x) = "Silver"
      BY <2>3 DEF Fee!Tier, P, G, S
    <3> QED BY <2>3, <3>1 DEF Fee!TierDiscount
  <2>4. CASE ~(x >= P) /\ ~(x >= G) /\ ~(x >= S)
    <3>1. Fee!Tier(x) = "Standard"
      BY <2>4 DEF Fee!Tier, P, G, S
    <3> QED BY <2>4, <3>1 DEF Fee!TierDiscount
  <2> QED BY <2>1, <2>2, <2>3, <2>4
<1> QED BY <1>1, <1>2

FeesInv ==
    /\ DOMAIN fees = Fee!FeeType
    /\ \A t \in Fee!FeeType : fees[t] # <<>> =>
          /\ fees[t].bps \in Nat /\ fees[t].min \in Nat /\ fees[t].max \in Nat
          /\ fees[t].min <= fees[t].max
    /\ volume \in [FeePayers -> Int]

(* The charge by one structure, at the discounts of two volumes. *)
LEMMA ChargedGrows ==
    ASSUME FeesInv, NEW t \in Fee!FeeType, NEW early, NEW late,
           Fee!Applies(t, early, late),
           NEW v \in Int, NEW w \in Int, v >= w, NEW a \in Nat, NEW b \in Nat, a <= b
    PROVE  /\ Fee!Charged(t, Fee!Tier(v), a, early, late) \in Nat
           /\ Fee!Charged(t, Fee!Tier(w), b, early, late) \in Nat
           /\ Fee!Charged(t, Fee!Tier(v), a, early, late) <=
                 Fee!Charged(t, Fee!Tier(w), b, early, late)
<1> DEFINE x == Fee!BaseFee(fees[t], a)
           y == Fee!BaseFee(fees[t], b)
           D == Fee!TierDiscount(Fee!Tier(v))
           E == Fee!TierDiscount(Fee!Tier(w))
           p == x - Fee!Part(x, D)
           q == y - Fee!Part(y, E)
           full == Fee!Charged(t, Fee!Tier(v), a, early, late)
           less == Fee!Charged(t, Fee!Tier(w), b, early, late)
<1>1. x \in Nat /\ y \in Nat /\ x <= y
  <2>1. /\ fees[t].bps \in Nat /\ fees[t].min \in Nat /\ fees[t].max \in Nat
        /\ fees[t].min <= fees[t].max
    BY DEF FeesInv, Fee!Applies
  <2> QED BY <2>1, BaseFeeGrows
<1>2. D \in Nat /\ E \in Nat /\ E <= D /\ D <= 10000
  BY DiscountGrows
<1> HIDE DEF x, y, D, E
<1>3. p \in Nat /\ q \in Nat /\ p <= q
  BY <1>1, <1>2, RebateGrows DEF Fee!Part, Fee!Bps
<1>4. CASE t = "LatePayment"
  <2>1. late
    BY <1>4 DEF Fee!Applies
  <2>2. full = x + Fee!Part(x, 2000) /\ less = y + Fee!Part(y, 2000)
    BY <1>4, <2>1 DEF Fee!Charged, x, y
  <2> HIDE DEF full, less
  <2> DEFINE m == x * 2000
             n == y * 2000
  <2>3. m \in Nat /\ n \in Nat /\ m <= n
    BY <1>1
  <2>4. Fee!Part(x, 2000) = m \div 10000 /\ Fee!Part(y, 2000) = n \div 10000
    BY DEF Fee!Part, Fee!Bps
  <2> HIDE DEF m, n
  <2>5. m \div 10000 \in Nat /\ n \div 10000 \in Nat /\ m \div 10000 <= n \div 10000
    BY <2>3, QuotientIs, QuotientGrows
  <2>6. full \in Nat /\ less \in Nat /\ full <= less
    BY <1>1, <2>2, <2>4, <2>5
  <2> QED BY <2>6 DEF full, less
<1>5. CASE t = "Platform" /\ early
  <2>1. full = p - Fee!Part(p, 1000) /\ less = q - Fee!Part(q, 1000)
    BY <1>5 DEF Fee!Charged, x, y, D, E
  <2> HIDE DEF full, less, p, q
  <2>2. full \in Nat /\ less \in Nat /\ full <= less
    BY <1>3, <2>1, RebateGrows DEF Fee!Part, Fee!Bps
  <2> QED BY <2>2 DEF full, less
<1>6. CASE t # "LatePayment" /\ ~(t = "Platform" /\ early)
  <2>1. full = p /\ less = q
    BY <1>6 DEF Fee!Charged, x, y, D, E
  <2> QED BY <1>3, <2>1
<1> QED BY <1>4, <1>5, <1>6

LEMMA TotalFeesGrow ==
    ASSUME FeesInv, NEW early, NEW late, NEW u \in FeePayers, NEW w \in FeePayers,
           volume[u] >= volume[w], NEW a \in Nat, NEW b \in Nat, a <= b
    PROVE  Fee!TotalFees(u, a, early, late) <= Fee!TotalFees(w, b, early, late)
<1> DEFINE S == {t \in Fee!FeeType : Fee!Applies(t, early, late)}
           f == [t \in S |-> Fee!Charged(t, Fee!Tier(volume[u]), a, early, late)]
           g == [t \in S |-> Fee!Charged(t, Fee!Tier(volume[w]), b, early, late)]
<1>1. IsFiniteSet(S)
  BY FeeSets, FS_Subset
<1>2. \A t \in S : f[t] \in Nat /\ g[t] \in Nat /\ f[t] <= g[t]
  <2>1. volume[u] \in Int /\ volume[w] \in Int
    BY DEF FeesInv
  <2> QED BY <2>1, ChargedGrows
<1>3. DOMAIN f = S /\ DOMAIN g = S
  OBVIOUS
<1>4. Fee!TotalFees(u, a, early, late) = Total(f) /\ Fee!TotalFees(w, b, early, late) = Total(g)
  BY FeeTotal, Zenon DEF Fee!TotalFees
<1> HIDE DEF f, g, S
<1>5. SumOver(f, S) <= SumOver(g, S)
  BY <1>1, <1>2, SumLeq
<1> QED BY <1>3, <1>4, <1>5 DEF Total

LEMMA DefaultFees ==
    /\ DOMAIN Fee!DefaultFees = Fee!FeeType
    /\ \A t \in Fee!FeeType : Fee!DefaultFees[t] # <<>> =>
          /\ Fee!DefaultFees[t].bps \in Nat /\ Fee!DefaultFees[t].min \in Nat
          /\ Fee!DefaultFees[t].max \in Nat
          /\ Fee!DefaultFees[t].min <= Fee!DefaultFees[t].max
<1> DEFINE d == Fee!DefaultFees
<1>1. DOMAIN d = Fee!FeeType
  BY DEF Fee!DefaultFees
<1>2. /\ d["Platform"] = Fee!Structure("Platform", 200, 100, 1000000)
      /\ d["Processing"] = Fee!Structure("Processing", 50, 50, 500000)
      /\ d["Verification"] = Fee!Structure("Verification", 100, 100, 100000)
      /\ d["EarlyPayment"] = <<>> /\ d["LatePayment"] = <<>>
  BY DEF Fee!DefaultFees, Fee!FeeType
<1> HIDE DEF d
<1>3. \A t, bps, min, max :
         /\ Fee!Structure(t, bps, min, max).bps = bps
         /\ Fee!Structure(t, bps, min, max).min = min
         /\ Fee!Structure(t, bps, min, max).max = max
  BY DEF Fee!Structure
<1>4. \A t \in Fee!FeeType : d[t] # <<>> =>
         /\ d[t].bps \in Nat /\ d[t].min \in Nat /\ d[t].max \in Nat
         /\ d[t].min <= d[t].max
  <2>1. \A t \in Fee!FeeType : t = "Platform" \/ t = "Processing" \/ t = "Verification"
                                \/ t = "EarlyPayment" \/ t = "LatePayment"
    BY DEF Fee!FeeType
  <2> QED BY <1>2, <1>3, <2>1
<1> QED BY <1>1, <1>4 DEF d

LEMMA FeesStep ==
    ASSUME FeesInv, [Fee!Next]_(Fee!vars) PROVE FeesInv'
<1>1. ASSUME UNCHANGED <<fees, volume>> PROVE FeesInv'
  BY <1>1 DEF FeesInv
<1>2. CASE UNCHANGED Fee!vars
  BY <1>1, <1>2 DEF Fee!vars
<1>3. CASE Fee!Initialize
  BY <1>3, DefaultFees DEF FeesInv, Fee!Initialize
<1>4. CASE Fee!CancelRotation \/ Fee!Tick
  BY <1>1, <1>4 DEF Fee!CancelRotation, Fee!Tick
<1>5. ASSUME NEW bps \in PlatformBps, Fee!UpdatePlatformFee(bps) \/ Fee!SetPlatformFee(bps)
      PROVE  FeesInv'
  BY <1>1, <1>5 DEF Fee!UpdatePlatformFee, Fee!SetPlatformFee
<1>6. ASSUME NEW s \in Structures, Fee!UpdateFeeStructure(s) PROVE FeesInv'
  <2>1. /\ s.type \in Fee!FeeType /\ s.bps \in Nat /\ s.min \in Int /\ s.max \in Int
    BY FeesOK
  <2>2. /\ s.min >= 0 /\ s.max >= s.min
        /\ fees' = [fees EXCEPT ![s.type] = s] /\ volume' = volume
    BY <1>6 DEF Fee!UpdateFeeStructure, Fee!Consistent
  <2>3. s.min \in Nat /\ s.max \in Nat /\ s.min <= s.max
    BY <2>1, <2>2
  <2> QED BY <2>1, <2>2, <2>3 DEF FeesInv
<1>7. ASSUME NEW c \in Splits, Fee!ConfigureRevenueDistribution(c) PROVE FeesInv'
  BY <1>1, <1>7 DEF Fee!ConfigureRevenueDistribution
<1>8. ASSUME NEW u \in FeePayers, NEW amount \in FeeSums,
             Fee!UpdateUserVolume(u, amount)
                \/ \E payment \in FeesPaid : Fee!CollectFees(u, payment, amount)
      PROVE  FeesInv'
  <2>1. amount \in Int
    BY FeesOK
  <2>2. fees' = fees /\ volume' = [volume EXCEPT ![u] = @ + amount]
    BY <1>8 DEF Fee!UpdateUserVolume, Fee!CollectFees
  <2> QED BY <2>1, <2>2 DEF FeesInv
<1>9. ASSUME NEW p \in Fee!Periods, Fee!DistributeRevenue(p) PROVE FeesInv'
  BY <1>1, <1>9 DEF Fee!DistributeRevenue
<1>10. ASSUME NEW a \in Treasuries,
              Fee!ConfigureTreasury(a) \/ Fee!InitiateRotation(a) \/ Fee!ConfirmRotation(a)
       PROVE  FeesInv'
  BY <1>1, <1>10 DEF Fee!ConfigureTreasury, Fee!InitiateRotation, Fee!ConfirmRotation
<1> QED BY <1>2, <1>3, <1>4, <1>5, <1>6, <1>7, <1>8, <1>9, <1>10 DEF Fee!Next

LEMMA FeesInvariant == Fee!Spec => []FeesInv
<1>1. Fee!Init => FeesInv
  BY DEF Fee!Init, FeesInv
<1> QED BY <1>1, FeesStep, PTL DEF Fee!Spec

(* Whatever structures were set: a larger transaction is never charged less   *)
(* than a smaller one, nor a user with more volume more than one with less.  *)
THEOREM FeesGrow == Fee!Spec => []FeesMonotone
<1>1. ASSUME FeesInv PROVE FeesMonotone
  <2> DEFINE charges == {[volume |-> volume[u], amount |-> a, early |-> early, late |-> late,
                          fee |-> Fee!TotalFees(u, a, early, late)] :
                            u \in FeePayers, a \in Transactions,
                            early \in BOOLEAN, late \in BOOLEAN}
  <2>1. SUFFICES \A c, d \in charges :
                    /\ c.early = d.early /\ c.late = d.late
                    /\ c.amount <= d.amount /\ c.volume >= d.volume
                    => c.fee <= d.fee
    BY DEF FeesMonotone, Fee!FeesMonotone
  <2> TAKE c \in charges, d \in charges
  <2>2. PICK u \in FeePayers, a \in Transactions, early \in BOOLEAN, late \in BOOLEAN :
           c = [volume |-> volume[u], amount |-> a, early |-> early, late |-> late,
                fee |-> Fee!TotalFees(u, a, early, late)]
    OBVIOUS
  <2>3. PICK w \in FeePayers, b \in Transactions, early2 \in BOOLEAN, late2 \in BOOLEAN :
           d = [volume |-> volume[w], amount |-> b, early |-> early2, late |-> late2,
                fee |-> Fee!TotalFees(w, b, early2, late2)]
    OBVIOUS
  <2> HIDE DEF charges
  <2>4. HAVE /\ c.early = d.early /\ c.late = d.late
             /\ c.amount <= d.amount /\ c.volume >= d.volume
  <2>5. /\ c.early = early /\ c.late = late /\ c.amount = a /\ c.volume = volume[u]
        /\ c.fee = Fee!TotalFees(u, a, early, late)
    BY <2>2, Zenon
  <2>6. /\ d.early = early2 /\ d.late = late2 /\ d.amount = b /\ d.volume = volume[w]
        /\ d.fee = Fee!TotalFees(w, b, early2, late2)
    BY <2>3, Zenon
  <2>7. early2 = early /\ late2 = late
    BY <2>4, <2>5, <2>6, Zenon
  <2>8. a \in Nat /\ b \in Nat
    BY FeesOK
  <2>9. a <= b /\ volume[u] >= volume[w]
    BY <2>4, <2>5, <2>6, Zenon
  <2>10. Fee!TotalFees(u, a, early, late) <= Fee!TotalFees(w, b, early, late)
    BY <1>1, <2>8, <2>9, TotalFeesGrow
  <2> QED BY <2>5, <2>6, <2>7, <2>10, Zenon
<1> QED BY <1>1, FeesInvariant, PTL

----------------------------------------------------------------------------
(* Analytics. *)

MetricInvoice ==
    [status : Ana!Listed \cup {"Cancelled"}, business : Owners, category : Sectors,
     currency : Moneys, amount : Faces, createdAt : Nat, rating : Grades \cup {0}]

MetricInvestment ==
    [status : {"Active", "Completed", "Defaulted"}, investor : Lenders, amount : Lent,
     fundedAt : Nat]

(* What the metrics are computed from: whatever is invested in is stored, and *)
(* whatever is funded is invested in.                                        *)
RecordsRight ==
    /\ now \in Nat
    /\ counted \in [1..Counted -> {Ana!None} \cup MetricInvoice]
    /\ investment \in [1..Counted -> {Ana!None} \cup MetricInvestment]
    /\ \A i \in 1..Counted :
          /\ investment[i] # Ana!None => counted[i] # Ana!None
          /\ counted[i].status = "Funded" => investment[i] # Ana!None

ReportKeys == {"business", "investor"} \X (0..MaxReportTime)

ReportsInv == RecordsRight /\ DOMAIN reports = ReportKeys /\ Ana!ReportsConsistent

AmountOf == [i \in 1..Counted |-> counted[i].amount]
CategoryOf == [i \in 1..Counted |-> counted[i].category]
CurrencyOf == [i \in 1..Counted |-> counted[i].currency]

LEMMA AnaTotal == \A f : Ana!Total(f) = Total(f)
BY DEF Total, SumOver, MapThenSumSet, MapThenFoldSet,
       Ana!Total, Ana!SumOver, Ana!MapThenSumSet, Ana!MapThenFoldSet

LEMMA AnaCardinality == \A S : Ana!Cardinality(S) = Cardinality(S)
BY Zenon DEF Cardinality, Ana!Cardinality

LEMMA StoredOnes ==
    ASSUME RecordsRight, NEW S \in SUBSET Ana!Stored
    PROVE  /\ S \in SUBSET (1..Counted)
           /\ IsFiniteSet(S) /\ Cardinality(S) \in Nat
           /\ \A i \in S : /\ counted[i] \in MetricInvoice
                           /\ AmountOf[i] = counted[i].amount /\ AmountOf[i] \in Nat
                           /\ CategoryOf[i] = counted[i].category /\ CategoryOf[i] \in Sectors
                           /\ CurrencyOf[i] = counted[i].currency /\ CurrencyOf[i] \in Moneys
<1>1. S \in SUBSET (1..Counted) /\ \A i \in S : counted[i] \in MetricInvoice
  BY DEF RecordsRight, Ana!Stored
<1>2. \A i \in S : /\ counted[i].amount \in Faces /\ counted[i].category \in Sectors
                   /\ counted[i].currency \in Moneys
  BY <1>1 DEF MetricInvoice
<1>3. IsFiniteSet(1..Counted)
  BY AnalyticsOK, FS_Interval
<1>4. IsFiniteSet(S) /\ Cardinality(S) \in Nat
  BY <1>1, <1>3, FS_Subset, FS_CardinalityType
<1> QED BY <1>1, <1>2, <1>4, AnalyticsOK DEF AmountOf, CategoryOf, CurrencyOf

LEMMA VolumeIs ==
    ASSUME RecordsRight, NEW S \in SUBSET Ana!Stored
    PROVE  Ana!Volume(S) = SumOver(AmountOf, S) /\ Ana!Volume(S) \in Nat
<1> DEFINE g == [i \in S |-> counted[i].amount]
<1>1. Ana!Volume(S) = Ana!Total(g)
  BY DEF Ana!Volume, Ana!SumOf
<1>2. DOMAIN g = S /\ \A i \in S : g[i] = AmountOf[i] /\ AmountOf[i] \in Nat
  BY StoredOnes
<1> HIDE DEF g
<1>3. Ana!Total(g) = SumOver(g, S)
  BY <1>2, AnaTotal DEF Total
<1>4. IsFiniteSet(S)
  BY StoredOnes
<1>5. SumOver(g, S) = SumOver(AmountOf, S) /\ SumOver(AmountOf, S) \in Nat
  BY <1>2, <1>4, SumSame, SumNat
<1> QED BY <1>1, <1>3, <1>5

LEMMA RateNat ==
    ASSUME NEW a \in Nat, NEW n \in Nat
    PROVE  Ana!RateOf(a, n) \in Nat
<1>1. a * 10000 \in Nat
  OBVIOUS
<1> QED BY <1>1, QuotientIs DEF Ana!RateOf, Ana!Bps

(* Two rates of the same whole, of parts that fit in it together. *)
LEMMA RatesFit ==
    ASSUME NEW a \in Nat, NEW b \in Nat, NEW n \in Nat, a + b <= n
    PROVE  Ana!RateOf(a, n) + Ana!RateOf(b, n) <= Ana!Bps
<1> DEFINE q == (a * 10000) \div n
           r == (b * 10000) \div n
<1>1. CASE n = 0
  BY <1>1 DEF Ana!RateOf, Ana!Bps
<1>2. CASE n # 0
  <2>1. Ana!RateOf(a, n) = q /\ Ana!RateOf(b, n) = r
    BY <1>2 DEF Ana!RateOf, Ana!Bps
  <2>2. a * 10000 \in Nat /\ b * 10000 \in Nat /\ a * 10000 + b * 10000 <= n * 10000
    OBVIOUS
  <2>3. q \in Nat /\ r \in Nat /\ q * n <= a * 10000 /\ r * n <= b * 10000
    BY <1>2, <2>2, QuotientIs
  <2> HIDE DEF q, r
  <2>4. (q + r) * n = q * n + r * n
    BY <2>3
  <2>5. ASSUME q + r >= 10001 PROVE FALSE
    <3>1. 10001 * n <= (q + r) * n
      BY <2>3, <2>5, ProductGrows
    <3> DEFINE x == q * n
               y == r * n
    <3>2. x + y <= a * 10000 + b * 10000 /\ 10001 * n <= x + y /\ x \in Int /\ y \in Int
      BY <2>3, <2>4, <3>1
    <3> HIDE DEF x, y
    <3> QED BY <1>2, <3>2
  <2> QED BY <2>1, <2>3, <2>5 DEF Ana!Bps
<1> QED BY <1>1, <1>2

(* The parts of a set in disjoint sets have rates that fit in the whole. *)
LEMMA PartsFit ==
    ASSUME NEW S, IsFiniteSet(S), NEW T \in SUBSET S, NEW U \in SUBSET S, T \cap U = {}
    PROVE  /\ Cardinality(T) \in Nat /\ Cardinality(U) \in Nat /\ Cardinality(S) \in Nat
           /\ Cardinality(T) <= Cardinality(S)
           /\ Ana!RateOf(Cardinality(T), Cardinality(S)) +
                  Ana!RateOf(Cardinality(U), Cardinality(S)) <= Ana!Bps
<1>1. /\ IsFiniteSet(T) /\ IsFiniteSet(U) /\ IsFiniteSet(T \cup U)
      /\ Cardinality(T \cup U) <= Cardinality(S) /\ Cardinality(T) <= Cardinality(S)
  BY FS_Subset, T \cup U \in SUBSET S
<1>2. Cardinality(T \cup U) = Cardinality(T) + Cardinality(U)
  <2>1. Cardinality(T \cup U) = Cardinality(T) + Cardinality(U) - Cardinality(T \cap U)
    BY <1>1, FS_Union
  <2>2. Cardinality(T \cap U) = 0
    BY FS_EmptySet
  <2>3. Cardinality(T) \in Nat /\ Cardinality(U) \in Nat
    BY <1>1, FS_CardinalityType
  <2> QED BY <2>1, <2>2, <2>3
<1>3. Cardinality(T) \in Nat /\ Cardinality(U) \in Nat /\ Cardinality(S) \in Nat
  BY <1>1, FS_CardinalityType
<1> QED BY <1>1, <1>2, <1>3, RatesFit

LEMMA PeriodStarts ==
    ASSUME RecordsRight, NEW p \in DOMAIN Spans
    PROVE  Ana!StartOf(p) \in 0..now
BY AnalyticsOK DEF RecordsRight, Ana!StartOf

LEMMA CountedByCategory ==
    ASSUME RecordsRight, NEW S \in SUBSET Ana!Stored,
           NEW g, g = [c \in Sectors |-> Cardinality({i \in S : counted[i].category = c})]
    PROVE  Ana!Total(g) = Cardinality(S)
<1>1. IsFiniteSet(S) /\ \A i \in S : CategoryOf[i] = counted[i].category /\ CategoryOf[i] \in Sectors
  BY StoredOnes
<1>2. CountsByKind(g, Sectors, S, CategoryOf)
  <2> SUFFICES ASSUME NEW c \in Sectors PROVE g[c] = Cardinality(OfKind(S, CategoryOf, {c}))
    BY DEF CountsByKind
  <2>1. {i \in S : counted[i].category = c} = OfKind(S, CategoryOf, {c})
    BY <1>1 DEF OfKind
  <2> QED BY <2>1
<1>3. IsFiniteSet(Sectors)
  BY AnalyticsOK
<1>4. SumOver(g, Sectors) = Cardinality(S)
  BY <1>1, <1>2, <1>3, CountByKind
<1> QED BY <1>4, AnaTotal DEF Total

LEMMA BusinessReportRight ==
    ASSUME RecordsRight, NEW b \in Owners, NEW p \in DOMAIN Spans
    PROVE  Ana!Consistent("business", Ana!BusinessReport(b, p))
<1> DEFINE r == Ana!BusinessReport(b, p)
           mine == Ana!CreatedIn(p, {i \in Ana!Stored : counted[i].business = b})
           cash == mine \cap Ana!WithStatus({"Paid"})
           lost == mine \cap Ana!WithStatus({"Defaulted"})
           funded == Ana!WereFunded(mine)
           g == [c \in Sectors |-> Cardinality({i \in mine : counted[i].category = c})]
<1>1. r.from = Ana!StartOf(p) /\ r.to = now
  BY AnaCardinality DEF Ana!BusinessReport, Ana!SumOf
<1>2. r.uploaded = Cardinality(mine) /\ r.funded = Cardinality(funded)
  BY AnaCardinality DEF Ana!BusinessReport, Ana!SumOf
<1>3. r.successRate = Ana!RateOf(Cardinality(cash), Cardinality(mine))
  BY AnaCardinality DEF Ana!BusinessReport, Ana!SumOf
<1>4. r.defaultRate = Ana!RateOf(Cardinality(lost), Cardinality(mine))
  BY AnaCardinality DEF Ana!BusinessReport, Ana!SumOf
<1>5. r.byCategory = g
  <2> DEFINE h == [c \in Sectors |-> Ana!Cardinality({i \in mine : counted[i].category = c})]
  <2>1. h = g
    BY AnaCardinality, Zenon
  <2>2. r.byCategory = h
    BY DEF Ana!BusinessReport, Ana!SumOf
  <2> QED BY <2>1, <2>2, Zenon
<1>6. mine \in SUBSET Ana!Stored
  BY DEF Ana!CreatedIn
<1>7. /\ cash \in SUBSET mine /\ lost \in SUBSET mine /\ funded \in SUBSET mine
      /\ cash \cap lost = {} /\ funded \cap lost = {}
  BY DEF Ana!WithStatus, Ana!WereFunded
<1>8. Ana!Total(g) = Cardinality(mine)
  BY <1>6, CountedByCategory
<1>9. Ana!SumOf(Sectors, LAMBDA c : r.byCategory[c]) = Cardinality(mine)
  <2>1. [c \in Sectors |-> g[c]] = g
    OBVIOUS
  <2>2. [c \in Sectors |-> r.byCategory[c]] = g
    BY <1>5, <2>1, Zenon
  <2> HIDE DEF r, g, mine
  <2> QED BY <1>8, <2>2 DEF Ana!SumOf
<1>10. IsFiniteSet(mine)
  BY <1>6, StoredOnes
<1> HIDE DEF r, mine, cash, lost, funded, g
<1>11. /\ Cardinality(funded) \in Nat /\ Cardinality(mine) \in Nat /\ Cardinality(lost) \in Nat
       /\ Cardinality(cash) \in Nat /\ Cardinality(funded) <= Cardinality(mine)
       /\ r.successRate + r.defaultRate <= Ana!Bps
       /\ Ana!RateOf(r.funded, r.uploaded) + r.defaultRate <= Ana!Bps
  BY <1>2, <1>3, <1>4, <1>7, <1>10, PartsFit
<1>12. Ana!RateOf(r.funded, r.uploaded) \in Int /\ r.defaultRate \in Int
  BY <1>2, <1>4, <1>11, RateNat
<1>13. r.from <= r.to
  BY <1>1, PeriodStarts DEF RecordsRight
<1>14. Ana!Bps \in Int /\ "business" # "investor"
  BY DEF Ana!Bps
<1>15. Ana!RateOf(r.funded, r.uploaded) <= Ana!Bps - r.defaultRate
  BY <1>11, <1>12, <1>14
<1>16. Ana!SumOf(Sectors, LAMBDA c : r.byCategory[c]) = r.uploaded
  BY <1>9, <1>2 DEF Ana!SumOf
<1> QED BY <1>2, <1>16, <1>11, <1>13, <1>14, <1>15 DEF Ana!Consistent, r, Ana!SumOf

LEMMA InvestorReportRight ==
    ASSUME RecordsRight, NEW v \in Lenders, NEW p \in DOMAIN Spans
    PROVE  Ana!Consistent("investor", Ana!InvestorReport(v, p))
<1> DEFINE r == Ana!InvestorReport(v, p)
           mine == {i \in Ana!Invested(Ana!Stored) :
                       /\ investment[i].investor = v
                       /\ investment[i].fundedAt >= Ana!StartOf(p)}
           won == {i \in mine : investment[i].status = "Completed"}
           lost == {i \in mine : investment[i].status = "Defaulted"}
           g == [c \in Sectors |-> Cardinality({i \in mine : counted[i].category = c})]
<1>1. r.from = Ana!StartOf(p) /\ r.to = now
  BY AnaCardinality DEF Ana!InvestorReport, Ana!SumOf
<1>2. r.made = Cardinality(mine)
  BY AnaCardinality DEF Ana!InvestorReport, Ana!SumOf
<1>3. r.successRate = Ana!RateOf(Cardinality(won), Cardinality(mine))
  BY AnaCardinality DEF Ana!InvestorReport, Ana!SumOf
<1>4. r.defaultRate = Ana!RateOf(Cardinality(lost), Cardinality(mine))
  BY AnaCardinality DEF Ana!InvestorReport, Ana!SumOf
<1>5. r.byCategory = g
  <2> DEFINE h == [c \in Sectors |-> Ana!Cardinality({i \in mine : counted[i].category = c})]
  <2>1. h = g
    BY AnaCardinality, Zenon
  <2>2. r.byCategory = h
    BY DEF Ana!InvestorReport, Ana!SumOf
  <2> QED BY <2>1, <2>2, Zenon
<1>6. mine \in SUBSET Ana!Stored /\ IsFiniteSet(mine)
  BY StoredOnes DEF Ana!Invested
<1>7. won \in SUBSET mine /\ lost \in SUBSET mine /\ won \cap lost = {}
  OBVIOUS
<1>8. Ana!SumOf(Sectors, LAMBDA c : r.byCategory[c]) = r.made
  <2>1. Ana!Total(g) = Cardinality(mine)
    BY <1>6, CountedByCategory
  <2>2. [c \in Sectors |-> g[c]] = g
    OBVIOUS
  <2>3. [c \in Sectors |-> r.byCategory[c]] = g
    BY <1>5, <2>2, Zenon
  <2> HIDE DEF r, g, mine
  <2> QED BY <1>2, <2>1, <2>3 DEF Ana!SumOf
<1> HIDE DEF r, mine, won, lost, g
<1>9. r.successRate + r.defaultRate <= Ana!Bps
  BY <1>3, <1>4, <1>6, <1>7, PartsFit
<1>10. r.from <= r.to /\ "business" # "investor"
  BY <1>1, PeriodStarts DEF RecordsRight
<1> QED BY <1>8, <1>9, <1>10 DEF Ana!Consistent, r, Ana!SumOf

----------------------------------------------------------------------------
(* The metrics. *)

VolumesByKind(g, C, S, key) == g = [c \in C |-> Ana!Volume(OfKind(S, key, {c}))]

LEMMA VolumeByKind ==
    ASSUME RecordsRight, NEW S \in SUBSET Ana!Stored, NEW C, IsFiniteSet(C),
           NEW key, \A i \in S : key[i] \in C,
           NEW g, VolumesByKind(g, C, S, key)
    PROVE  Ana!Total(g) = Ana!Volume(S)
<1>1. IsFiniteSet(S) /\ \A i \in S : AmountOf[i] \in Nat
  BY StoredOnes
<1>2. ASSUME NEW c \in C PROVE g[c] = SumOver(AmountOf, OfKind(S, key, {c}))
  <2>1. OfKind(S, key, {c}) \in SUBSET Ana!Stored
    BY DEF OfKind
  <2> QED BY <2>1, VolumeIs DEF VolumesByKind
<1>3. AddsByKind(g, C, AmountOf, S, key)
  BY <1>2 DEF AddsByKind
<1>4. SumOver(g, C) = SumOver(AmountOf, S)
  BY <1>1, <1>3, SumByKind
<1> QED BY <1>4, AnaTotal, VolumeIs DEF Total, VolumesByKind

LEMMA FinancialRight ==
    ASSUME RecordsRight, NEW p \in DOMAIN Spans
    PROVE  LET f == Ana!FinancialMetrics(p)
               inPeriod == Ana!CreatedIn(p, Ana!WithStatus(Ana!Listed))
           IN  /\ f.volume = Ana!Volume(inPeriod)
               /\ f.fees = Ana!Total([i \in Ana!Invested(inPeriod \cap Ana!WithStatus({"Paid"})) |->
                                         Ana!FeeOn(i)])
               /\ Ana!Total([c \in Sectors |-> f.byCategory[c]]) = f.volume
               /\ Ana!Total([c \in DOMAIN f.byCurrency |-> f.byCurrency[c]]) = f.volume
               /\ f.volume <= Ana!Volume(Ana!WithStatus(Ana!Listed))
<1> DEFINE f == Ana!FinancialMetrics(p)
           all == Ana!WithStatus(Ana!Listed)
           inPeriod == Ana!CreatedIn(p, all)
           K == {counted[i].currency : i \in inPeriod}
           g == [c \in Sectors |-> Ana!Volume({i \in inPeriod : counted[i].category = c})]
           h == [c \in K |-> Ana!Volume({i \in inPeriod : counted[i].currency = c})]
<1>1. f.volume = Ana!Volume(inPeriod)
  BY DEF Ana!FinancialMetrics, Ana!SumOf
<1>2. f.fees = Ana!Total([i \in Ana!Invested(inPeriod \cap Ana!WithStatus({"Paid"})) |-> Ana!FeeOn(i)])
  BY DEF Ana!FinancialMetrics, Ana!SumOf
<1>3. f.byCategory = g
  BY DEF Ana!FinancialMetrics, Ana!SumOf
<1>4. f.byCurrency = h
  BY DEF Ana!FinancialMetrics, Ana!SumOf
<1>5. all \in SUBSET Ana!Stored /\ inPeriod \in SUBSET all /\ inPeriod \in SUBSET Ana!Stored
  BY DEF Ana!WithStatus, Ana!CreatedIn
<1> HIDE DEF f, all, inPeriod
<1>6. /\ IsFiniteSet(inPeriod)
      /\ \A i \in inPeriod : /\ CategoryOf[i] = counted[i].category /\ CategoryOf[i] \in Sectors
                           /\ CurrencyOf[i] = counted[i].currency
  BY <1>5, StoredOnes
<1>7. Ana!Total(g) = Ana!Volume(inPeriod)
  <2>1. ASSUME NEW c PROVE {i \in inPeriod : counted[i].category = c} = OfKind(inPeriod, CategoryOf, {c})
    BY <1>6 DEF OfKind
  <2>2. VolumesByKind(g, Sectors, inPeriod, CategoryOf)
    BY <2>1, Zenon DEF VolumesByKind
  <2>3. IsFiniteSet(Sectors)
    BY AnalyticsOK
  <2> HIDE DEF g
  <2> QED BY <1>5, <1>6, <2>2, <2>3, VolumeByKind
<1>8. Ana!Total(h) = Ana!Volume(inPeriod)
  <2>1. ASSUME NEW c PROVE {i \in inPeriod : counted[i].currency = c} = OfKind(inPeriod, CurrencyOf, {c})
    BY <1>6 DEF OfKind
  <2>2. VolumesByKind(h, K, inPeriod, CurrencyOf)
    BY <2>1, Zenon DEF VolumesByKind
  <2>3. \A i \in inPeriod : CurrencyOf[i] \in K
    BY <1>6
  <2>4. IsFiniteSet(K)
    <3> DEFINE to == [i \in inPeriod |-> counted[i].currency]
    <3>1. to \in Surjection(inPeriod, K)
      BY DEF Surjection
    <3> HIDE DEF to, K
    <3> QED BY <1>6, <3>1, FS_Surjection
  <2> HIDE DEF h, K
  <2> QED BY <1>5, <2>2, <2>3, <2>4, VolumeByKind
<1>9. Ana!Volume(inPeriod) <= Ana!Volume(all)
  <2>1. IsFiniteSet(all) /\ \A i \in all : AmountOf[i] \in Nat
    BY <1>5, StoredOnes
  <2> QED BY <1>5, <2>1, SumMono, VolumeIs
<1>10. [c \in Sectors |-> f.byCategory[c]] = g
  BY <1>3
<1>11. [c \in DOMAIN f.byCurrency |-> f.byCurrency[c]] = h
  BY <1>4
<1> HIDE DEF g, h
<1> QED BY <1>1, <1>2, <1>7, <1>8, <1>9, <1>10, <1>11 DEF f, all, inPeriod

LEMMA PlatformRight ==
    /\ Ana!PlatformMetrics.volume = Ana!Volume(Ana!WithStatus(Ana!Listed))
    /\ Ana!PlatformMetrics.fees =
           Ana!Total([i \in Ana!Invested(Ana!WithStatus({"Paid"})) |-> Ana!FeeOn(i)])
BY DEF Ana!PlatformMetrics, Ana!SumOf

LEMMA MetricsRight == ASSUME RecordsRight PROVE Ana!MetricsAgree
<1> DEFINE all == Ana!WithStatus(Ana!Listed)
           financial == [p \in Ana!Period |-> Ana!FinancialMetrics(p)]
<1>1. \A p \in DOMAIN Spans : financial[p] = Ana!FinancialMetrics(p)
  BY DEF Ana!Period
<1>2. "AllTime" \in DOMAIN Spans /\ Ana!StartOf("AllTime") = 0
  BY AnalyticsOK DEF Ana!StartOf
<1>3. Ana!CreatedIn("AllTime", all) = all
  <2>1. \A i \in all : counted[i] \in MetricInvoice
    BY StoredOnes DEF Ana!WithStatus
  <2>2. \A i \in all : counted[i].createdAt >= 0
    BY <2>1 DEF MetricInvoice
  <2> HIDE DEF all
  <2> QED BY <1>2, <2>2 DEF Ana!CreatedIn
<1>4. all \cap Ana!WithStatus({"Paid"}) = Ana!WithStatus({"Paid"})
  BY DEF Ana!WithStatus, Ana!Listed
<1> HIDE DEF financial
<1>5. /\ financial["AllTime"].volume = Ana!PlatformMetrics.volume
      /\ financial["AllTime"].fees = Ana!PlatformMetrics.fees
  <2>1. financial["AllTime"] = Ana!FinancialMetrics("AllTime")
    BY <1>1, <1>2
  <2> QED BY <1>2, <1>3, <1>4, <2>1, FinancialRight, PlatformRight
<1>6. ASSUME NEW p \in Ana!Period
      PROVE  LET f == financial[p] IN
             /\ Ana!SumOf(Sectors, LAMBDA c : f.byCategory[c]) = f.volume
             /\ Ana!SumOf(DOMAIN f.byCurrency, LAMBDA c : f.byCurrency[c]) = f.volume
             /\ f.volume <= Ana!PlatformMetrics.volume
  <2>1. p \in DOMAIN Spans /\ financial[p] = Ana!FinancialMetrics(p)
    BY <1>1 DEF Ana!Period
  <2> QED BY <2>1, FinancialRight, PlatformRight DEF Ana!SumOf
<1> QED BY <1>5, <1>6 DEF Ana!MetricsAgree, financial, Ana!SumOf

----------------------------------------------------------------------------
(* Every report is stored as it was computed. *)
LEMMA StoreReport ==
    ASSUME ReportsInv, NEW kind \in {"business", "investor"}, NEW r, Ana!Consistent(kind, r),
           reports' = [reports EXCEPT ![<<kind, now>>] = r],
           UNCHANGED <<counted, investment, now>>
    PROVE  ReportsInv'
<1>1. RecordsRight'
  BY DEF ReportsInv, RecordsRight
<1>2. DOMAIN reports' = ReportKeys
  BY DEF ReportsInv
<1>3. ASSUME NEW key \in ReportKeys, reports'[key] # Ana!None
      PROVE  Ana!Consistent(key[1], reports'[key])
  <2>1. CASE key = <<kind, now>>
    <3>1. key[1] = kind /\ reports'[key] = r
      BY <2>1 DEF ReportsInv
    <3> QED BY <3>1
  <2>2. CASE key # <<kind, now>>
    <3>1. reports'[key] = reports[key]
      BY <2>2 DEF ReportsInv
    <3> QED BY <1>3, <3>1 DEF ReportsInv, Ana!ReportsConsistent
  <2> QED BY <2>1, <2>2
<1>4. Ana!ReportsConsistent'
  BY <1>2, <1>3 DEF Ana!ReportsConsistent, Ana!None
<1> QED BY <1>1, <1>2, <1>4 DEF ReportsInv

LEMMA RecordsStep ==
    ASSUME RecordsRight, NEW i \in 1..Counted,
           \/ \E b \in Owners, c \in Sectors, m \in Moneys, a \in Faces : Ana!Store(i, b, c, m, a)
           \/ \E v \in Lenders, a \in Lent : Ana!Fund(i, v, a)
           \/ \E r \in Grades : Ana!Rate(i, r)
           \/ Ana!Cancel(i) \/ Ana!Finish(i, "Paid") \/ Ana!Finish(i, "Defaulted")
    PROVE  RecordsRight' /\ reports' = reports
<1>1. Ana!None.status = "None" /\ Ana!Listed = {"Pending", "Verified", "Funded", "Paid", "Defaulted"}
  BY DEF Ana!None, Ana!Listed
<1>2. /\ counted[i] = Ana!None \/ counted[i] \in MetricInvoice
      /\ investment[i] = Ana!None \/ investment[i] \in MetricInvestment
  BY DEF RecordsRight
<1>3. \A r \in MetricInvoice \cup MetricInvestment : r # Ana!None
  BY <1>1 DEF MetricInvoice, MetricInvestment
<1>4. ASSUME NEW b \in Owners, NEW c \in Sectors, NEW m \in Moneys, NEW a \in Faces,
             Ana!Store(i, b, c, m, a)
      PROVE  RecordsRight' /\ reports' = reports
  <2> DEFINE r == [status |-> "Pending", business |-> b, category |-> c, currency |-> m,
                   amount |-> a, createdAt |-> now, rating |-> 0]
  <2>1. /\ counted' = [counted EXCEPT ![i] = r]
        /\ investment' = investment /\ reports' = reports /\ now' = now
    BY <1>4 DEF Ana!Store
  <2>2. r \in MetricInvoice
    BY <1>1 DEF MetricInvoice, RecordsRight
  <2>3. r.status = "Pending"
    OBVIOUS
  <2> HIDE DEF r
  <2> QED BY <1>1, <1>3, <2>3, <2>1, <2>2 DEF RecordsRight
<1>5. ASSUME NEW v \in Lenders, NEW a \in Lent, Ana!Fund(i, v, a)
      PROVE  RecordsRight' /\ reports' = reports
  <2> DEFINE r == [counted[i] EXCEPT !.status = "Funded"]
             s == [status |-> "Active", investor |-> v, amount |-> a, fundedAt |-> now]
  <2>1. /\ counted[i].status = "Pending" /\ counted' = [counted EXCEPT ![i] = r]
        /\ investment' = [investment EXCEPT ![i] = s] /\ reports' = reports /\ now' = now
    BY <1>5 DEF Ana!Fund
  <2>2. r \in MetricInvoice
    BY <1>1, <1>2, <2>1 DEF MetricInvoice
  <2>3. s \in MetricInvestment
    BY DEF MetricInvestment, RecordsRight
  <2>4. r.status = "Funded"
    OBVIOUS
  <2> HIDE DEF r, s
  <2> QED BY <1>1, <1>3, <2>4, <2>1, <2>2, <2>3 DEF RecordsRight
<1>6. ASSUME NEW g \in Grades, Ana!Rate(i, g) PROVE RecordsRight' /\ reports' = reports
  <2> DEFINE r == [counted[i] EXCEPT !.rating = g]
  <2>1. /\ counted[i].status \in {"Funded", "Paid"} /\ counted' = [counted EXCEPT ![i] = r]
        /\ investment' = investment /\ reports' = reports /\ now' = now
    BY <1>6 DEF Ana!Rate
  <2>2. r \in MetricInvoice
    BY <1>1, <1>2, <2>1 DEF MetricInvoice
  <2>3. r.status = counted[i].status
    OBVIOUS
  <2> HIDE DEF r
  <2> QED BY <1>1, <1>3, <2>3, <2>1, <2>2 DEF RecordsRight
<1>7. ASSUME Ana!Cancel(i) PROVE RecordsRight' /\ reports' = reports
  <2> DEFINE r == [counted[i] EXCEPT !.status = "Cancelled"]
  <2>1. /\ counted[i].status = "Pending" /\ counted' = [counted EXCEPT ![i] = r]
        /\ investment' = investment /\ reports' = reports /\ now' = now
    BY <1>7 DEF Ana!Cancel
  <2>2. r \in MetricInvoice
    BY <1>1, <1>2, <2>1 DEF MetricInvoice
  <2>3. r.status = "Cancelled"
    OBVIOUS
  <2> HIDE DEF r
  <2> QED BY <1>1, <1>3, <2>3, <2>1, <2>2 DEF RecordsRight
<1>8. ASSUME NEW outcome \in {"Paid", "Defaulted"}, Ana!Finish(i, outcome)
      PROVE  RecordsRight' /\ reports' = reports
  <2> DEFINE r == [counted[i] EXCEPT !.status = outcome]
             end == IF outcome = "Paid" THEN "Completed" ELSE "Defaulted"
             s == [investment[i] EXCEPT !.status = end]
  <2>1. /\ counted[i].status = "Funded" /\ counted' = [counted EXCEPT ![i] = r]
        /\ investment' = [investment EXCEPT ![i] = s] /\ reports' = reports /\ now' = now
    BY <1>8 DEF Ana!Finish
  <2>2. r \in MetricInvoice
    BY <1>1, <1>2, <2>1 DEF MetricInvoice
  <2>3. s \in MetricInvestment
    <3>1. end \in {"Completed", "Defaulted"}
      OBVIOUS
    <3> HIDE DEF end
    <3>2. investment[i] \in MetricInvestment
      BY <1>2, <2>1 DEF RecordsRight
    <3> QED BY <3>1, <3>2 DEF MetricInvestment
  <2>4. r.status = outcome
    OBVIOUS
  <2> HIDE DEF r, s
  <2> QED BY <1>1, <1>3, <2>4, <2>1, <2>2, <2>3 DEF RecordsRight
<1> QED BY <1>4, <1>5, <1>6, <1>7, <1>8

LEMMA ReportsStep == ASSUME ReportsInv, [Ana!Next]_(Ana!vars) PROVE ReportsInv'
<1>1. ASSUME RecordsRight', reports' = reports PROVE ReportsInv'
  BY <1>1 DEF ReportsInv, Ana!ReportsConsistent, Ana!None
<1>2. ASSUME Ana!Tick PROVE ReportsInv'
  BY <1>1, <1>2 DEF ReportsInv, RecordsRight, Ana!Tick
<1>3. ASSUME NEW p \in Ana!Period, NEW b \in Owners, Ana!GenerateBusinessReport(b, p)
      PROVE  ReportsInv'
  <2>1. Ana!Consistent("business", Ana!BusinessReport(b, p))
    BY BusinessReportRight DEF ReportsInv, Ana!Period
  <2>2. /\ reports' = [reports EXCEPT ![<<"business", now>>] = Ana!BusinessReport(b, p)]
        /\ UNCHANGED <<counted, investment, now>>
    BY <1>3 DEF Ana!GenerateBusinessReport
  <2> QED BY <2>1, <2>2, StoreReport
<1>4. ASSUME NEW p \in Ana!Period, NEW v \in Lenders, Ana!GenerateInvestorReport(v, p)
      PROVE  ReportsInv'
  <2>1. Ana!Consistent("investor", Ana!InvestorReport(v, p))
    BY InvestorReportRight DEF ReportsInv, Ana!Period
  <2>2. /\ reports' = [reports EXCEPT ![<<"investor", now>>] = Ana!InvestorReport(v, p)]
        /\ UNCHANGED <<counted, investment, now>>
    BY <1>4 DEF Ana!GenerateInvestorReport
  <2> QED BY <2>1, <2>2, StoreReport
<1>5. CASE UNCHANGED Ana!vars
  BY <1>1, <1>5 DEF ReportsInv, RecordsRight, Ana!vars
<1>6. RecordsRight
  BY DEF ReportsInv
<1>7. CASE \E i \in 1..Counted :
              \/ \E b \in Owners, c \in Sectors, m \in Moneys, a \in Faces : Ana!Store(i, b, c, m, a)
              \/ \E v \in Lenders, a \in Lent : Ana!Fund(i, v, a)
              \/ \E r \in Grades : Ana!Rate(i, r)
              \/ Ana!Cancel(i) \/ Ana!Finish(i, "Paid") \/ Ana!Finish(i, "Defaulted")
  BY <1>1, <1>6, <1>7, RecordsStep
<1> QED BY <1>2, <1>3, <1>4, <1>5, <1>7 DEF Ana!Next

LEMMA ReportsInvariant == Ana!Spec => []ReportsInv
<1>1. Ana!Init => ReportsInv
  <2> SUFFICES ASSUME Ana!Init PROVE ReportsInv
    OBVIOUS
  <2>1. /\ counted = [i \in 1..Counted |-> Ana!None] /\ investment = [i \in 1..Counted |-> Ana!None]
        /\ reports = [key \in ReportKeys |-> Ana!None] /\ now = 0
    BY DEF Ana!Init, ReportKeys
  <2>2. RecordsRight
    BY <2>1 DEF RecordsRight, Ana!None
  <2>3. DOMAIN reports = ReportKeys /\ Ana!ReportsConsistent
    BY <2>1 DEF Ana!ReportsConsistent
  <2> QED BY <2>2, <2>3 DEF ReportsInv
<1>2. ReportsInv /\ [Ana!Next]_(Ana!vars) => ReportsInv'
  BY ReportsStep
<1> QED BY <1>1, <1>2, PTL DEF Ana!Spec

(* Whatever is stored, funded, rated, paid and defaulted, and whenever a      *)
(* report is generated: its rates fit in the whole and its categories add up *)
(* to all it counts; and the platform's figures are always the financial     *)
(* metrics' of all time, and those of its categories and currencies together.*)
THEOREM ReportsHold == Ana!Spec => []ReportsAgree
<1>1. ReportsInv => ReportsAgree
  BY MetricsRight DEF ReportsInv, ReportsAgree
<1> QED BY <1>1, ReportsInvariant, PTL

----------------------------------------------------------------------------
(* The entries of these services have their types. *)

LEMMA InsuranceTyped == Ins!Spec => []Ins!TypeOK
<1> DEFINE Fits == insured.amount \in InsuredSums /\ Len(insured.insurance) <= MaxCoverages
<1>1. Ins!Init => Fits
  BY MoneyBoundsOK DEF Ins!Init
<1>2. InsuranceInv /\ Fits /\ [Ins!Next]_(Ins!vars) => Fits'
  <2> SUFFICES ASSUME InsuranceInv, Fits, [Ins!Next]_(Ins!vars) PROVE Fits'
    OBVIOUS
  <2>1. /\ insured \in [amount : Nat, insurance : Seq(Coverage),
                        status : {"Active", "Defaulted", "Completed", "Refunded", "Withdrawn"}]
        /\ Len(insured.insurance) \in Nat /\ MaxCoverages \in Nat
    BY MoneyBoundsOK DEF InsuranceInv
  <2>2. ASSUME NEW p, NEW pct, Ins!AddInsurance(p, pct) PROVE Fits'
    <3>1. PICK c : /\ Len(insured.insurance) < MaxCoverages
                   /\ insured' = [insured EXCEPT !.insurance = Append(insured.insurance, c)]
      BY <2>2 DEF Ins!AddInsurance
    <3>2. insured'.amount = insured.amount /\ insured'.insurance = Append(insured.insurance, c)
      BY <2>1, <3>1
    <3>3. Len(insured'.insurance) = Len(insured.insurance) + 1
      BY <2>1, <3>2
    <3> QED BY <2>1, <3>1, <3>2, <3>3
  <2>3. ASSUME Ins!Default PROVE Fits'
    <3>1. insured' = [insured EXCEPT !.status = "Defaulted", !.insurance = Ins!Claimed(insured.insurance)]
      BY <2>3 DEF Ins!Default
    <3>2. insured'.amount = insured.amount /\ insured'.insurance = Ins!Claimed(insured.insurance)
      BY <2>1, <3>1
    <3>3. Len(Ins!Claimed(insured.insurance)) = Len(insured.insurance)
      BY <2>1 DEF Ins!Claimed
    <3> QED BY <3>2, <3>3
  <2>4. ASSUME UNCHANGED Ins!vars \/ \E s : Ins!End(s) PROVE Fits'
    <3>1. insured' = insured \/ \E s : insured' = [insured EXCEPT !.status = s]
      BY <2>4 DEF Ins!End, Ins!vars
    <3>2. insured'.amount = insured.amount /\ insured'.insurance = insured.insurance
      BY <2>1, <3>1
    <3> QED BY <3>2
  <2> QED BY <2>2, <2>3, <2>4 DEF Ins!Next
<1>3. InsuranceInv /\ Fits => Ins!TypeOK
  <2> SUFFICES ASSUME InsuranceInv, Fits PROVE Ins!TypeOK
    OBVIOUS
  <2>1. \A n \in DOMAIN insured.insurance : insured.insurance[n].provider \in Providers
    BY InsuredTypes DEF Coverage
  <2>2. Len(claims) <= MaxCoverages
    <3>1. CASE insured.status = "Defaulted"
      <4>1. claims \in Seq([provider : Providers, amount : Nat]) /\ DOMAIN claims = DOMAIN insured.insurance
        BY <3>1 DEF InsuranceInv
      <4>2. Len(claims) = Len(insured.insurance)
        BY <4>1, InsuredTypes
      <4> QED BY <4>2
    <3>2. CASE insured.status # "Defaulted"
      <4>1. claims = <<>>
        BY <3>2 DEF InsuranceInv
      <4> QED BY <4>1, MoneyBoundsOK
    <3> QED BY <3>1, <3>2
  <2> QED BY <2>1, <2>2 DEF Ins!TypeOK
<1> HIDE DEF Fits
<1> QED BY <1>1, <1>2, <1>3, InsuranceInvariant, PTL DEF Ins!Spec

(* What the beneficiaries received, the contract holds or the admin has kept  *)
(* is what the admin had.                                                    *)
VestingFunds ==
    /\ Len(schedules) <= MaxSchedules
    /\ grantor \in Nat /\ received \in [Beneficiaries -> Nat]
    /\ grantor + vestingVault + Total(received) = AdminFunds

LEMMA VestingConserves ==
    ASSUME VestingInv, VestingFunds, [Vest!Next]_(Vest!vars), VestingInv'
    PROVE  VestingFunds'
<1>1. /\ schedules \in Seq(Schedule) /\ Len(schedules) \in Nat /\ vestingVault \in Nat /\ now \in Nat
      /\ MaxSchedules \in Nat /\ grantor \in Nat /\ Total(received) \in Nat
  <2>1. Total(received) \in Nat
    BY VestingOK, SumNat DEF Total, VestingFunds
  <2> QED BY <2>1, MoneyBoundsOK DEF VestingInv, VestingFunds
<1>2. ASSUME NEW b, NEW total \in Totals, NEW start, NEW cliff, NEW end,
             Vest!CreateSchedule(b, total, start, cliff, end)
      PROVE  VestingFunds'
  <2>1. /\ grantor >= total /\ grantor' = grantor - total /\ vestingVault' = vestingVault + total
        /\ received' = received /\ Len(schedules) < MaxSchedules
        /\ \E s : schedules' = Append(schedules, s)
    BY <1>2 DEF Vest!CreateSchedule
  <2>2. Len(schedules') = Len(schedules) + 1
    BY <1>1, <2>1
  <2>3. total \in Nat
    BY VestingOK
  <2> QED BY <1>1, <2>1, <2>2, <2>3 DEF VestingFunds
<1>3. ASSUME NEW id \in DOMAIN schedules, Vest!Release(id) PROVE VestingFunds'
  <2> DEFINE s == schedules[id]
             r == Vest!Releasable(s)
             b == s.beneficiary
             g == received'
  <2>1. /\ r > 0 /\ vestingVault' = vestingVault - r /\ received' = [received EXCEPT ![b] = received[b] + r]
        /\ grantor' = grantor /\ schedules' = [schedules EXCEPT ![id].released = schedules[id].released + r]
    BY <1>3 DEF Vest!Release
  <2>2. s \in Schedule /\ OnLine(s, now)
    BY <1>1 DEF VestingInv
  <2>3. r \in Nat /\ b \in Beneficiaries
    <3>1. Vest!Vested(s, now) \in Nat /\ s.released \in Nat /\ b \in Beneficiaries
      BY <1>1, <2>2, VestedIs DEF OnLine, Schedule
    <3> QED BY <2>1, <3>1 DEF Vest!Releasable
  <2>4. Len(schedules') = Len(schedules)
    BY <1>1, <2>1
  <2> HIDE DEF s, r, b
  <2>5. /\ received \in [Beneficiaries -> Nat] /\ g \in [Beneficiaries -> Nat]
        /\ g[b] = received[b] + r /\ received[b] \in Nat
        /\ \A y \in Beneficiaries \ {b} : g[y] = received[y]
    BY <2>1, <2>3 DEF VestingFunds
  <2> HIDE DEF g
  <2>6. Total(g) \in Nat /\ Total(g) - g[b] = Total(received) - received[b]
    <3>1. /\ DOMAIN received = Beneficiaries /\ DOMAIN g = Beneficiaries
          /\ \A y \in Beneficiaries : received[y] \in Nat /\ g[y] \in Nat
      BY <2>5
    <3> QED BY <2>3, <2>5, <3>1, VestingOK, TotalChange
  <2>7. Total(g) = Total(received) + r /\ r \in Nat
    <3> DEFINE x == Total(g)
               y == Total(received)
               u == g[b]
               v == received[b]
    <3>1. x \in Nat /\ y \in Nat /\ v \in Nat /\ r \in Nat /\ u = v + r /\ x - u = y - v
      BY <1>1, <2>3, <2>5, <2>6
    <3> HIDE DEF x, y, u, v
    <3>2. x = y + r
      BY <3>1
    <3> QED BY <3>1, <3>2 DEF x, y
  <2>8. grantor' + vestingVault' + Total(g) = AdminFunds
    BY <1>1, <2>1, <2>7 DEF VestingFunds
  <2> QED BY <1>1, <2>1, <2>4, <2>5, <2>8 DEF VestingFunds, g
<1>4. ASSUME UNCHANGED <<schedules, grantor, vestingVault, received>> PROVE VestingFunds'
  BY <1>4 DEF VestingFunds
<1> QED BY <1>2, <1>3, <1>4 DEF Vest!Next, Vest!vars, Vest!Tick, Vest!SetPaused

LEMMA VestingTyped == Vest!Spec => []Vest!TypeOK
<1>1. Vest!Init => VestingFunds
  <2> SUFFICES ASSUME Vest!Init PROVE VestingFunds
    OBVIOUS
  <2>1. /\ schedules = <<>> /\ grantor = AdminFunds /\ vestingVault = 0
        /\ received \in [Beneficiaries -> Nat] /\ \A b \in Beneficiaries : received[b] = 0
    BY DEF Vest!Init
  <2>2. Total(received) = 0
    BY <2>1, VestingOK, SumZero DEF Total
  <2> QED BY <2>1, <2>2, VestingOK, MoneyBoundsOK DEF VestingFunds
<1>2. VestingInv /\ VestingFunds /\ [Vest!Next]_(Vest!vars) /\ VestingInv' => VestingFunds'
  BY VestingConserves
<1> DEFINE Flagged == paused \in BOOLEAN
<1>3. Vest!Init => Flagged
  BY DEF Vest!Init
<1>4. Flagged /\ [Vest!Next]_(Vest!vars) => Flagged'
  <2>1. [Vest!Next]_(Vest!vars) => paused' = paused \/ paused' \in BOOLEAN
    BY Zenon DEF Vest!Next, Vest!vars, Vest!CreateSchedule, Vest!Release, Vest!SetPaused, Vest!Tick
  <2> QED BY <2>1, Zenon
<1>5. VestingInv /\ VestingFunds /\ Flagged => Vest!TypeOK
  <2> SUFFICES ASSUME VestingInv, VestingFunds, paused \in BOOLEAN PROVE Vest!TypeOK
    OBVIOUS
  <2>1. ASSUME NEW id \in DOMAIN schedules PROVE schedules[id].released \in 0..schedules[id].total
    <3>1. schedules[id] \in Schedule /\ schedules[id].released <= schedules[id].total
      BY DEF VestingInv, OnLine
    <3> QED BY <3>1 DEF Schedule
  <2>2. grantor + vestingVault + Vest!Total(received) = AdminFunds
    BY VestingTotal DEF VestingFunds
  <2>3. Len(schedules) <= MaxSchedules
    BY DEF VestingFunds
  <2> QED BY <2>1, <2>2, <2>3 DEF Vest!TypeOK
<1> HIDE DEF Flagged
<1> QED BY <1>1, <1>2, <1>3, <1>4, <1>5, VestingInvariant, PTL DEF Vest!Spec

(* The fees are within their bounds, and treasuries are addresses. *)
FeeTerms ==
    /\ \A t \in Fee!FeeType : fees[t] # <<>> => fees[t].bps \in 0..Fee!MaxBps
    /\ platform # <<>> => platform \in [bps : 0..Fee!MaxBps, treasury : Treasuries \cup {Nobody}]
    /\ rotation # <<>> => rotation.to \in Treasuries

LEMMA FeeTermsStep == ASSUME FeesInv, FeeTerms, [Fee!Next]_(Fee!vars) PROVE FeeTerms'
<1>1. ASSUME UNCHANGED <<fees, platform, rotation>> PROVE FeeTerms'
  BY <1>1 DEF FeeTerms
<1>2. ASSUME Fee!Initialize PROVE FeeTerms'
  <2>1. \A t \in Fee!FeeType : fees'[t] # <<>> => fees'[t].bps \in {50, 100, 200}
    <3>1. \A t \in Fee!FeeType : fees'[t] = Fee!DefaultFees[t]
      BY <1>2 DEF Fee!Initialize
    <3>2. \A t \in Fee!FeeType :
             Fee!DefaultFees[t] # <<>> => Fee!DefaultFees[t].bps \in {50, 100, 200}
      BY DEF Fee!DefaultFees, Fee!Structure, Fee!FeeType
    <3> QED BY <3>1, <3>2
  <2>2. 50 \in 0..Fee!MaxBps /\ 100 \in 0..Fee!MaxBps /\ 200 \in 0..Fee!MaxBps
    BY DEF Fee!MaxBps
  <2>3. platform' = [bps |-> 200, treasury |-> Nobody] /\ rotation' = rotation
    BY <1>2 DEF Fee!Initialize
  <2> QED BY <2>1, <2>2, <2>3 DEF FeeTerms
<1>3. ASSUME NEW bps \in PlatformBps, Fee!UpdatePlatformFee(bps) \/ Fee!SetPlatformFee(bps)
      PROVE  FeeTerms'
  <2>1. bps \in 0..Fee!MaxBps
    <3>1. bps \in Nat /\ bps <= Fee!MaxBps
      BY <1>3, FeesOK DEF Fee!UpdatePlatformFee, Fee!SetPlatformFee
    <3> QED BY <3>1 DEF Fee!MaxBps
  <2>2. /\ UNCHANGED <<fees, rotation>>
        /\ \/ platform # <<>> /\ platform' = [platform EXCEPT !.bps = bps]
           \/ platform' = [bps |-> bps, treasury |-> Nobody]
    BY <1>3 DEF Fee!UpdatePlatformFee, Fee!SetPlatformFee
  <2> QED BY <2>1, <2>2 DEF FeeTerms
<1>4. ASSUME NEW s \in Structures, Fee!UpdateFeeStructure(s) PROVE FeeTerms'
  <2>1. /\ fees' = [fees EXCEPT ![s.type] = s] /\ s.bps <= Fee!MaxBps
        /\ UNCHANGED <<platform, rotation>>
    BY <1>4 DEF Fee!UpdateFeeStructure
  <2>2. s.bps \in 0..Fee!MaxBps
    BY <2>1, FeesOK DEF Fee!MaxBps
  <2>3. DOMAIN fees = Fee!FeeType
    BY DEF FeesInv
  <2> QED BY <2>1, <2>2, <2>3 DEF FeeTerms
<1>5. ASSUME NEW a \in Treasuries, Fee!ConfigureTreasury(a) \/ Fee!ConfirmRotation(a)
      PROVE  FeeTerms'
  <2>1. /\ fees' = fees /\ rotation' \in {rotation, <<>>}
        /\ platform # <<>> /\ platform' = [platform EXCEPT !.treasury = a]
    BY <1>5 DEF Fee!ConfigureTreasury, Fee!ConfirmRotation
  <2> QED BY <2>1 DEF FeeTerms
<1>6. ASSUME NEW a \in Treasuries, Fee!InitiateRotation(a) PROVE FeeTerms'
  BY <1>6 DEF FeeTerms, Fee!InitiateRotation
<1>7. ASSUME Fee!CancelRotation PROVE FeeTerms'
  BY <1>7 DEF FeeTerms, Fee!CancelRotation
<1>8. ASSUME \/ Fee!Tick \/ UNCHANGED Fee!vars
             \/ \E c \in Splits : Fee!ConfigureRevenueDistribution(c)
             \/ \E u \in FeePayers, amount \in FeeSums :
                   \/ Fee!UpdateUserVolume(u, amount)
                   \/ \E payment \in FeesPaid : Fee!CollectFees(u, payment, amount)
             \/ \E p \in Fee!Periods : Fee!DistributeRevenue(p)
      PROVE  FeeTerms'
  <2>1. UNCHANGED <<fees, platform, rotation>>
    BY <1>8 DEF Fee!Tick, Fee!vars, Fee!ConfigureRevenueDistribution, Fee!UpdateUserVolume,
       Fee!CollectFees, Fee!DistributeRevenue
  <2> QED BY <1>1, <2>1
<1> QED BY <1>2, <1>3, <1>4, <1>5, <1>6, <1>7, <1>8 DEF Fee!Next

LEMMA FeesTyped == Fee!Spec => []Fee!TypeOK
<1>1. Fee!Init => FeeTerms
  BY DEF Fee!Init, FeeTerms
<1>2. FeesInv /\ FeeTerms /\ [Fee!Next]_(Fee!vars) => FeeTerms'
  BY FeeTermsStep
<1>3. FeesInv /\ RevenueInv /\ RotationInv /\ FeeTerms => Fee!TypeOK
  <2> SUFFICES ASSUME FeesInv, RevenueInv, RotationInv, FeeTerms PROVE Fee!TypeOK
    OBVIOUS
  <2>1. \A t \in Fee!FeeType : fees[t] # <<>> =>
           fees[t].bps \in 0..Fee!MaxBps /\ fees[t].min \in Nat /\ fees[t].max \in Nat
    BY DEF FeesInv, FeeTerms
  <2>2. platform # <<>> => platform.bps \in 0..Fee!MaxBps /\ platform.treasury \in Treasuries \cup {Nobody}
    BY DEF FeeTerms
  <2>3. rotation # <<>> => rotation.to \in Treasuries /\ rotation.until \in Nat
    BY FeesOK DEF FeeTerms, RotationInv
  <2>4. now \in 0..MaxFeeTime
    BY FeesOK DEF RevenueInv
  <2>5. volume \in [FeePayers -> Int] /\ paid \in [Fee!Shares -> Nat]
    BY DEF FeesInv, RevenueInv
  <2> QED BY <2>1, <2>2, <2>3, <2>4, <2>5 DEF Fee!TypeOK
<1> QED BY <1>1, <1>2, <1>3, FeesInvariant, RevenueInvariant, RotationInvariant, PTL DEF Fee!Spec

(* What an investor's profile is scored by. *)
History(p) == p.invested \in Nat /\ p.won \in Nat /\ p.lost \in Nat

LEMMA ScoreBounded ==
    ASSUME NEW p, History(p)
    PROVE  Inv!RiskScore(p) \in 0..100
<1> DEFINE x == Inv!SaturatingSub(Inv!KycScore(p.kyc) + Inv!DefaultRate(p), Inv!VolumeCredit(p))
<1>1. Inv!KycScore(p.kyc) \in {10, 20, 30} /\ Inv!VolumeCredit(p) \in {0, 10, 20}
  BY DEF Inv!KycScore, Inv!VolumeCredit
<1>2. Inv!DefaultRate(p) \in Nat
  <2>1. p.lost * 100 \in Nat /\ p.won + p.lost \in Nat
    BY DEF History
  <2>2. p.won + p.lost # 0 => (p.lost * 100) \div (p.won + p.lost) \in Nat
    BY <2>1, QuotientIs
  <2> QED BY <2>2, Zenon DEF Inv!DefaultRate
<1>3. x \in Nat
  <2>1. \A a, b \in Nat : Inv!SaturatingSub(a, b) \in Nat
    BY DEF Inv!SaturatingSub
  <2>2. Inv!KycScore(p.kyc) + Inv!DefaultRate(p) \in Nat /\ Inv!VolumeCredit(p) \in Nat
    BY <1>1, <1>2
  <2> QED BY <2>1, <2>2
<1> HIDE DEF x
<1>4. Inv!Min({100, x}) \in 0..100
  <2>1. \E y \in {100, x} : \A z \in {100, x} : y <= z
    BY <1>3
  <2>2. /\ Inv!Min({100, x}) \in {100, x} /\ \A z \in {100, x} : Inv!Min({100, x}) <= z
    BY <2>1 DEF Inv!Min
  <2> QED BY <1>3, <2>2
<1> QED BY <1>4 DEF Inv!RiskScore, x

ProfileTypes == History(profile) /\ profile.score \in 0..100

LEMMA RescoredTypes ==
    ASSUME NEW p, DOMAIN p = Fields, p = [f \in Fields |-> p[f]], History(p),
           NEW old, History(old), NEW base, profile' = Inv!Rescored(p, old, base)
    PROVE  ProfileTypes'
<1>1. PICK tier, level, limit :
         profile' = [p EXCEPT !.score = Inv!RiskScore(old), !.tier = tier, !.level = level, !.limit = limit]
  BY DEF Inv!Rescored
<1>2. /\ profile'.score = Inv!RiskScore(old) /\ profile'.invested = p.invested
      /\ profile'.won = p.won /\ profile'.lost = p.lost
  BY <1>1 DEF Fields
<1> QED BY <1>2, ScoreBounded DEF ProfileTypes, History

LEMMA InvestorTyped == Inv!Spec => []Inv!TypeOK
<1> DEFINE Bounded == granted \in Bases /\ updates \in 0..MaxUpdates
<1>1. Inv!Init => ProfileTypes /\ Bounded
  <2> SUFFICES ASSUME NEW kyc \in KycLengths, NEW h \in Histories, NEW base \in Bases,
                      granted = base, updates = 0,
                      profile = Inv!Scored([Inv!NewProfile(kyc) EXCEPT !.invested = h[1],
                                                                       !.won = h[2]], base)
               PROVE  ProfileTypes /\ Bounded
    BY DEF Inv!Init
  <2> DEFINE p == [Inv!NewProfile(kyc) EXCEPT !.invested = h[1], !.won = h[2]]
  <2>1. DOMAIN p = Fields /\ p.invested = h[1] /\ p.won = h[2] /\ p.lost = 0
    BY DEF Inv!NewProfile, Fields
  <2>2. h[1] \in Nat /\ h[2] \in Nat
    BY GrantsOK
  <2>3. History(p)
    BY <2>1, <2>2 DEF History
  <2>4. profile = Inv!Scored(p, base)
    OBVIOUS
  <2> HIDE DEF p
  <2>5. ProfileTypes
    <3>1. PICK tier, level, limit :
             profile = [p EXCEPT !.score = Inv!RiskScore(p), !.tier = tier, !.level = level, !.limit = limit]
      BY <2>4 DEF Inv!Scored, Inv!Rescored
    <3>2. /\ profile.score = Inv!RiskScore(p) /\ profile.invested = p.invested
          /\ profile.won = p.won /\ profile.lost = p.lost
      BY <2>1, <3>1 DEF Fields
    <3> QED BY <2>3, <3>2, ScoreBounded DEF ProfileTypes, History
  <2> QED BY <2>5, MoneyBoundsOK
<1>2. ProfileInv /\ ProfileTypes /\ Bounded /\ [Inv!Next]_(Inv!vars) => ProfileTypes' /\ Bounded'
  <2> SUFFICES ASSUME ProfileInv, ProfileTypes, Bounded, [Inv!Next]_(Inv!vars)
               PROVE  ProfileTypes' /\ Bounded'
    OBVIOUS
  <2>1. DOMAIN profile = Fields /\ profile = [f \in Fields |-> profile[f]]
    BY DEF ProfileInv, Stands
  <2>2. ASSUME NEW amount \in InvestedSums, NEW success, Inv!UpdateInvestorAnalytics(amount, success)
        PROVE  ProfileTypes' /\ Bounded'
    <3> DEFINE p == Updated(profile, amount, success)
    <3>1. /\ amount > 0 /\ updates < MaxUpdates /\ updates' = updates + 1 /\ granted' = granted
          /\ \E b : profile' = Inv!Rescored(p, profile, b)
      BY <2>2, Zenon DEF Inv!UpdateInvestorAnalytics, Inv!AfterInvestment, Updated
    <3>2. /\ DOMAIN p = Fields /\ p = [f \in Fields |-> p[f]]
          /\ p.invested = profile.invested + amount
          /\ p.won \in {profile.won, profile.won + 1} /\ p.lost \in {profile.lost, profile.lost + 1}
      BY <2>1 DEF Updated, Fields
    <3> HIDE DEF p
    <3>3. History(p)
      BY <3>1, <3>2, GrantsOK DEF History, ProfileTypes
    <3>4. ProfileTypes'
      BY <3>1, <3>2, <3>3, RescoredTypes DEF ProfileTypes
    <3>5. updates' \in 0..MaxUpdates
      BY <3>1, MoneyBoundsOK
    <3> QED BY <3>1, <3>4, <3>5
  <2>3. ASSUME NEW base \in Bases, Inv!SetInvestmentLimit(base) PROVE ProfileTypes' /\ Bounded'
    <3>1. updates' = updates /\ granted' = base /\ \E l : profile' = [profile EXCEPT !.limit = l]
      BY <2>3 DEF Inv!SetInvestmentLimit
    <3>2. /\ profile'.score = profile.score /\ profile'.invested = profile.invested
          /\ profile'.won = profile.won /\ profile'.lost = profile.lost
      BY <2>1, <3>1 DEF Fields
    <3> QED BY <3>1, <3>2 DEF ProfileTypes, History
  <2>4. CASE UNCHANGED Inv!vars
    BY <2>4 DEF Inv!vars, ProfileTypes, History
  <2> QED BY <2>2, <2>3, <2>4 DEF Inv!Next
<1>3. ProfileInv /\ ProfileTypes /\ Bounded => Inv!TypeOK
  <2> SUFFICES ASSUME ProfileInv, ProfileTypes, Bounded PROVE Inv!TypeOK
    OBVIOUS
  <2>1. Stands(profile, granted) /\ granted \in Nat
    BY DEF ProfileInv
  <2>2. profile.limit \in Nat
    BY <2>1, RecoveredBase
  <2>3. profile.tier \in Inv!Tiers /\ profile.level \in Inv!RiskLevels
    BY <2>1 DEF Stands
  <2> QED BY <2>2, <2>3 DEF Inv!TypeOK, ProfileTypes, History
<1> HIDE DEF Bounded
<1> QED BY <1>1, <1>2, <1>3, LimitsInvariant, PTL DEF Inv!Spec

(* A report is stored under the moment it is made, up to which it reaches.   *)
DatedReports ==
    /\ now \in 0..MaxReportTime
    /\ \A key \in ReportKeys : reports[key] = Ana!None \/ reports[key].to = key[2]

LEMMA DatedStep == ASSUME ReportsInv, DatedReports, [Ana!Next]_(Ana!vars) PROVE DatedReports'
<1>1. ASSUME NEW kind \in {"business", "investor"}, NEW r, r.to = now, now' = now,
             reports' = [reports EXCEPT ![<<kind, now>>] = r]
      PROVE  DatedReports'
  <2>1. <<kind, now>>[2] = now
    OBVIOUS
  <2>2. \A key \in ReportKeys : reports'[key] = reports[key] \/ (key = <<kind, now>> /\ reports'[key] = r)
    BY <1>1 DEF ReportsInv
  <2>3. \A key \in ReportKeys : reports'[key] = Ana!None \/ reports'[key].to = key[2]
    BY <1>1, <2>1, <2>2, Zenon DEF DatedReports
  <2> QED BY <1>1, <2>3, Zenon DEF DatedReports, Ana!None
<1>2. ASSUME NEW b, NEW p, Ana!GenerateBusinessReport(b, p) PROVE DatedReports'
  <2>1. Ana!BusinessReport(b, p).to = now
    BY DEF Ana!BusinessReport
  <2> QED BY <1>1, <1>2, <2>1 DEF Ana!GenerateBusinessReport
<1>3. ASSUME NEW v, NEW p, Ana!GenerateInvestorReport(v, p) PROVE DatedReports'
  <2>1. Ana!InvestorReport(v, p).to = now
    BY DEF Ana!InvestorReport
  <2> QED BY <1>1, <1>3, <2>1 DEF Ana!GenerateInvestorReport
<1>4. ASSUME reports' = reports, now' \in 0..MaxReportTime PROVE DatedReports'
  BY <1>4, Zenon DEF DatedReports, Ana!None
<1>5. now \in 0..MaxReportTime
  BY DEF DatedReports
<1>6. ASSUME Ana!Tick PROVE DatedReports'
  <2>1. reports' = reports /\ now' \in 0..MaxReportTime
    BY <1>5, <1>6, MoneyBoundsOK DEF Ana!Tick
  <2> QED BY <1>4, <2>1
<1>7. ASSUME NEW i, \/ \E b, c, m, a : Ana!Store(i, b, c, m, a)
                    \/ \E v, a : Ana!Fund(i, v, a)
                    \/ \E r : Ana!Rate(i, r) \/ Ana!Finish(i, r)
                    \/ Ana!Cancel(i)
      PROVE  DatedReports'
  <2>1. UNCHANGED <<reports, now>>
    BY <1>7, Zenon DEF Ana!Store, Ana!Fund, Ana!Rate, Ana!Finish, Ana!Cancel
  <2> QED BY <1>4, <1>5, <2>1
<1>8. ASSUME UNCHANGED Ana!vars PROVE DatedReports'
  BY <1>4, <1>5, <1>8 DEF Ana!vars
<1> QED BY <1>2, <1>3, <1>6, <1>7, <1>8, Zenon DEF Ana!Next

LEMMA AnalyticsTyped == Ana!Spec => []Ana!TypeOK
<1>1. Ana!Init => DatedReports
  BY MoneyBoundsOK DEF Ana!Init, DatedReports, ReportKeys
<1>2. ReportsInv /\ DatedReports /\ [Ana!Next]_(Ana!vars) => DatedReports'
  BY DatedStep
<1>3. ReportsInv /\ DatedReports => Ana!TypeOK
  <2> SUFFICES ASSUME ReportsInv, DatedReports PROVE Ana!TypeOK
    OBVIOUS
  <2>1. ASSUME NEW i \in 1..Counted PROVE counted[i].status \in Ana!Listed \cup {"None", "Cancelled"}
    <3>1. CASE counted[i] = Ana!None
      BY <3>1 DEF Ana!None
    <3>2. CASE counted[i] \in MetricInvoice
      BY <3>2 DEF MetricInvoice
    <3> QED BY <3>1, <3>2 DEF ReportsInv, RecordsRight
  <2> QED BY <2>1, Zenon DEF ReportsInv, DatedReports, Ana!TypeOK
<1> QED BY <1>1, <1>2, <1>3, ReportsInvariant, PTL DEF Ana!Spec
=============================================================================
