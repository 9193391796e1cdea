-------------------------- MODULE RiskManagerProofs ---------------------------
(***************************************************************************)
(* The rate limit and the kill switch of the risk manager, for every rate, *)
(* any calls and any clock.                                                *)
(***************************************************************************)
EXTENDS RiskManager, SequenceTheorems, TLAPS

RiskFields ==
  [position : Int, bid : Int, ask : Int, tokens : Nat, lastRefill : Nat,
   kill : BOOLEAN, lossKill : BOOLEAN, cash : Int, pnl : Int, cap : Nat, maxLots : Nat]

\* The bucket: what is left in it and what was approved since any earlier approval
\* together stay within the cap and the refill of the time between.
Bucket ==
  /\ risk \in RiskFields /\ risk.tokens <= risk.cap
  /\ now \in Nat \ {0}
  /\ approved \in Seq(Nat \ {0})
  /\ \A i \in 1..Len(approved) :
       /\ approved[i] <= risk.lastRefill
       /\ (Len(approved) - i + 1) * Cost + risk.tokens
            <= risk.cap + (risk.lastRefill - approved[i])

BucketInv == Bucket /\ RateBound

LEMMA OneMore ==
  ASSUME NEW a \in Int, NEW b \in Int
  PROVE  (a + 1) * b = a * b + b
  OBVIOUS

LEMMA ProductInt ==
  ASSUME NEW a \in Int, NEW b \in Int
  PROVE  a * b \in Int
  OBVIOUS

\* Updates of the bucket's fields leave the others alone.
LEMMA SetTokens ==
  ASSUME NEW q \in RiskFields, NEW x \in Nat, NEW r, r = [q EXCEPT !.tokens = x]
  PROVE  r \in RiskFields /\ r.tokens = x /\ r.lastRefill = q.lastRefill /\ r.cap = q.cap
         /\ r.kill = q.kill
  BY DEF RiskFields

LEMMA SetRefill ==
  ASSUME NEW q \in RiskFields, NEW y \in Nat, NEW r, r = [q EXCEPT !.lastRefill = y]
  PROVE  r \in RiskFields /\ r.tokens = q.tokens /\ r.lastRefill = y /\ r.cap = q.cap
         /\ r.kill = q.kill
  BY DEF RiskFields

\* What Refill() does to the three fields of the bucket.
LEMMA RefillFacts ==
  ASSUME Bucket
  PROVE  LET r == Refill(risk, now)
         IN /\ r \in RiskFields
            /\ r.cap = risk.cap /\ r.tokens <= r.cap /\ r.kill = risk.kill
            /\ r.lastRefill # 0 /\ r.lastRefill >= risk.lastRefill
            /\ risk.lastRefill # 0 => r.tokens <= risk.tokens + (r.lastRefill - risk.lastRefill)
<1> DEFINE last == IF risk.lastRefill = 0 THEN now ELSE risk.lastRefill
           sum == risk.tokens + (now - last)
           r == Refill(risk, now)
<1>0. risk \in RiskFields
  BY DEF Bucket
<1>1. /\ risk.tokens \in Nat /\ risk.cap \in Nat /\ risk.lastRefill \in Nat
      /\ now \in Nat \ {0} /\ risk.tokens <= risk.cap
  BY DEF Bucket, RiskFields
<1>2. last \in Nat \ {0} /\ last >= risk.lastRefill /\ sum \in Int
  BY <1>1
<1>3. CASE now > last
  <2> DEFINE new == IF sum > risk.cap THEN risk.cap ELSE sum
  <2>1. new \in Nat /\ now \in Nat
    BY <1>1, <1>2, <1>3
  <2> DEFINE q == [risk EXCEPT !.tokens = new]
  <2>2. r = [q EXCEPT !.lastRefill = now]
    BY <1>3 DEF Refill
  <2>3. /\ r \in RiskFields /\ r.tokens = new /\ r.lastRefill = now /\ r.cap = risk.cap
        /\ r.kill = risk.kill
    <3> HIDE DEF new
    <3>1. q \in RiskFields /\ q.tokens = new /\ q.cap = risk.cap /\ q.kill = risk.kill
      BY <1>0, <2>1, SetTokens, ZenonT(60)
    <3> HIDE DEF q, r
    <3>2. /\ r \in RiskFields /\ r.tokens = q.tokens /\ r.lastRefill = now /\ r.cap = q.cap
          /\ r.kill = q.kill
      <4>1. q \in RiskFields
        BY <3>1
      <4>2. now \in Nat
        BY <2>1
      <4> QED BY <2>2, <4>1, <4>2, SetRefill, ZenonT(60)
    <3> QED BY <3>1, <3>2
  <2> QED BY <1>1, <1>2, <1>3, <2>3
<1>4. CASE ~ (now > last)
  <2>1. r = [risk EXCEPT !.lastRefill = last]
    BY <1>4 DEF Refill
  <2>2. /\ r \in RiskFields /\ r.tokens = risk.tokens /\ r.lastRefill = last /\ r.cap = risk.cap
        /\ r.kill = risk.kill
    <3>1. last \in Nat
      BY <1>2
    <3> HIDE DEF last, r
    <3> QED BY <1>0, <2>1, <3>1, SetRefill, ZenonT(60)
  <2> QED BY <1>1, <1>2, <1>4, <2>2
<1> QED BY <1>3, <1>4

LEMMA RefillArithmetic ==
  ASSUME NEW p \in Int, NEW a \in Nat \ {0}, NEW c \in Nat, NEW t \in Nat, NEW l \in Nat,
         NEW u \in Nat, NEW m \in Nat,
         a <= l, p + t <= c + (l - a), m >= l, l # 0 => u <= t + (m - l)
  PROVE  a <= m /\ p + u <= c + (m - a)
  OBVIOUS

\* Refilling keeps the bound of every earlier approval.
LEMMA RefillBound ==
  ASSUME Bucket
  PROVE  LET r == Refill(risk, now)
         IN \A i \in 1..Len(approved) :
              /\ approved[i] <= r.lastRefill
              /\ (Len(approved) - i + 1) * Cost + r.tokens
                   <= r.cap + (r.lastRefill - approved[i])
<1> DEFINE r == Refill(risk, now)
<1> SUFFICES ASSUME NEW i \in 1..Len(approved)
             PROVE  /\ approved[i] <= r.lastRefill
                    /\ (Len(approved) - i + 1) * Cost + r.tokens
                         <= r.cap + (r.lastRefill - approved[i])
  OBVIOUS
<1>1. /\ r.cap = risk.cap /\ r.lastRefill >= risk.lastRefill
      /\ risk.lastRefill # 0 => r.tokens <= risk.tokens + (r.lastRefill - risk.lastRefill)
  BY RefillFacts
<1>2. /\ r.cap \in Nat /\ r.tokens \in Nat /\ r.lastRefill \in Nat
      /\ risk.cap \in Nat /\ risk.tokens \in Nat /\ risk.lastRefill \in Nat
  BY RefillFacts DEF Bucket, RiskFields
<1> DEFINE p == (Len(approved) - i + 1) * Cost
           a == approved[i]
<1>3. /\ a \in Nat \ {0} /\ a <= risk.lastRefill
      /\ p + risk.tokens <= risk.cap + (risk.lastRefill - a)
  BY DEF Bucket
<1>4. p \in Int
  <2>1. Len(approved) - i + 1 \in Int /\ Cost \in Int
    BY RiskAssumption DEF Bucket
  <2> QED BY <2>1, ProductInt
<1> HIDE DEF r, p, a
<1>5. a <= r.lastRefill /\ p + r.tokens <= risk.cap + (r.lastRefill - a)
  BY <1>1, <1>2, <1>3, <1>4, RefillArithmetic
<1>6. a <= r.lastRefill /\ p + r.tokens <= r.cap + (r.lastRefill - a)
  BY <1>1, <1>5
<1> QED BY <1>6 DEF p, a

\* A step that leaves the bucket and the approvals alone keeps the invariant.
LEMMA BucketKept ==
  ASSUME BucketInv, approved' = approved, now' \in Nat \ {0}, risk' \in RiskFields,
         risk'.cap = risk.cap, risk'.tokens = risk.tokens, risk'.lastRefill = risk.lastRefill
  PROVE  BucketInv'
<1>1. Bucket'
  BY DEF BucketInv, Bucket
<1>2. RateBound'
  BY DEF BucketInv, RateBound
<1> QED BY <1>1, <1>2 DEF BucketInv

\* The rate limiter refuses: the bucket is refilled and nothing is taken.
LEMMA LimitedKeeps ==
  ASSUME BucketInv, CheckLimited
  PROVE  BucketInv'
<1> DEFINE r == Refill(risk, now)
<1>1. risk' = r /\ approved' = approved /\ now' = now
  BY DEF CheckLimited
<1>2. Bucket
  BY DEF BucketInv
<1>3. r \in RiskFields /\ r.cap = risk.cap /\ r.tokens <= r.cap
  BY <1>2, RefillFacts
<1>4. \A i \in 1..Len(approved) :
        /\ approved[i] <= r.lastRefill
        /\ (Len(approved) - i + 1) * Cost + r.tokens <= r.cap + (r.lastRefill - approved[i])
  BY <1>2, RefillBound
<1> HIDE DEF r
<1>5. Bucket'
  BY <1>1, <1>2, <1>3, <1>4 DEF Bucket
<1>6. RateBound'
  BY <1>1, <1>3 DEF BucketInv, RateBound
<1> QED BY <1>5, <1>6 DEF BucketInv

\* check() approves: the token is taken after the refill.
LEMMA ApproveKeeps ==
  ASSUME BucketInv, CheckApprove
  PROVE  BucketInv'
<1> DEFINE r == Refill(risk, now)
           t == r.tokens
           l == r.lastRefill
           c == r.cap
           n == Len(approved)
           P(i) == (n - i + 1) * Cost
<1>1. /\ risk' = [r EXCEPT !.tokens = t - Cost]
      /\ approved' = Append(approved, l) /\ now' = now
      /\ t >= Cost
  BY DEF CheckApprove, HasToken
<1>2. Bucket
  BY DEF BucketInv
<1>3. r \in RiskFields /\ c = risk.cap /\ t <= c /\ l # 0
  BY <1>2, RefillFacts
<1>4. Cost \in Nat \ {0} /\ c \in Nat /\ t \in Nat /\ l \in Nat \ {0}
  BY <1>3, RiskAssumption DEF RiskFields
<1>5. n \in Nat /\ approved \in Seq(Nat \ {0}) /\ now \in Nat \ {0}
  BY <1>2 DEF Bucket
<1>6. \A i \in 1..n : approved[i] \in Nat \ {0} /\ approved[i] <= l
                     /\ P(i) + t <= c + (l - approved[i])
  BY <1>2, <1>5, RefillBound
<1> HIDE DEF r
<1>7. /\ risk' \in RiskFields /\ risk'.tokens = t - Cost
      /\ risk'.lastRefill = l /\ risk'.cap = c
  <2>1. t - Cost \in Nat
    <3> HIDE DEF t
    <3> QED BY <1>1, <1>4
  <2> QED BY <1>1, <1>3, <2>1, SetTokens, ZenonT(60)
<1> HIDE DEF t, l, c
<1>8. /\ approved' \in Seq(Nat \ {0}) /\ Len(approved') = n + 1
      /\ approved'[n + 1] = l
      /\ \A i \in 1..n : approved'[i] = approved[i]
  BY <1>1, <1>4, <1>5
<1>9. \A i \in 1..n : P(i) \in Int /\ (n + 1 - i + 1) * Cost = P(i) + Cost
  <2> SUFFICES ASSUME NEW i \in 1..n
               PROVE  P(i) \in Int /\ (n + 1 - i + 1) * Cost = P(i) + Cost
    OBVIOUS
  <2> DEFINE a == n - i + 1
  <2>1. a \in Int /\ Cost \in Int /\ n + 1 - i + 1 = a + 1
    BY <1>4, <1>5
  <2>2. (a + 1) * Cost = a * Cost + Cost /\ a * Cost \in Int
    <3> HIDE DEF a
    <3> QED BY <2>1, OneMore, ProductInt
  <2> QED BY <2>1, <2>2
<1>10. (n + 1 - (n + 1) + 1) * Cost = Cost
  BY <1>4, <1>5
<1> HIDE DEF n
<1>11. \A i \in 1..(n + 1) :
         /\ approved'[i] <= l
         /\ (n + 1 - i + 1) * Cost + (t - Cost) <= c + (l - approved'[i])
  <2> SUFFICES ASSUME NEW i \in 1..(n + 1)
               PROVE  /\ approved'[i] <= l
                      /\ (n + 1 - i + 1) * Cost + (t - Cost) <= c + (l - approved'[i])
    OBVIOUS
  <2>1. CASE i = n + 1
    <3>1. (n + 1 - i + 1) * Cost = Cost /\ approved'[i] = l
      BY <1>8, <1>10, <2>1
    <3> QED BY <1>3, <1>4, <3>1
  <2>2. CASE i # n + 1
    <3>1. i \in 1..n
      BY <1>5, <2>2
    <3>2. /\ P(i) \in Int /\ (n + 1 - i + 1) * Cost = P(i) + Cost /\ approved'[i] = approved[i]
          /\ approved[i] \in Nat \ {0} /\ approved[i] <= l
          /\ P(i) + t <= c + (l - approved[i])
      BY <1>6, <1>8, <1>9, <3>1
    <3> HIDE DEF P
    <3> QED BY <1>4, <3>2
  <2> QED BY <2>1, <2>2
<1>12. Bucket'
  <2>1. risk'.tokens <= risk'.cap
    <3>1. t - Cost <= c
      BY <1>3, <1>4
    <3> QED BY <1>7, <3>1
  <2>2. \A i \in 1..Len(approved') :
          /\ approved'[i] <= risk'.lastRefill
          /\ (Len(approved') - i + 1) * Cost + risk'.tokens
               <= risk'.cap + (risk'.lastRefill - approved'[i])
    <3> SUFFICES ASSUME NEW i \in 1..Len(approved')
                 PROVE  /\ approved'[i] <= risk'.lastRefill
                        /\ (Len(approved') - i + 1) * Cost + risk'.tokens
                             <= risk'.cap + (risk'.lastRefill - approved'[i])
      OBVIOUS
    <3>1. i \in 1..(n + 1) /\ Len(approved') - i + 1 = n + 1 - i + 1
      BY <1>5, <1>8
    <3>2. /\ approved'[i] <= l
          /\ (n + 1 - i + 1) * Cost + (t - Cost) <= c + (l - approved'[i])
      BY <1>11, <3>1
    <3> QED BY <1>7, <3>1, <3>2, ZenonT(60)
  <2>3. now' \in Nat \ {0}
    BY <1>1, <1>5
  <2> QED BY <1>7, <1>8, <2>1, <2>2, <2>3 DEF Bucket
<1>13. RateBound'
  <2>0. DOMAIN approved' = 1..(n + 1) /\ DOMAIN approved = 1..n
    BY <1>5, <1>8 DEF n
  <2> SUFFICES ASSUME NEW i \in 1..(n + 1), NEW j \in 1..(n + 1), i <= j
               PROVE  (j - i + 1) * Cost <= c + (approved'[j] - approved'[i])
    BY <1>7, <2>0 DEF RateBound
  <2>1. CASE j = n + 1
    <3> DEFINE p == (n + 1 - i + 1) * Cost
               a == approved'[i]
    <3>1. approved'[j] = l /\ p + (t - Cost) <= c + (l - a)
      BY <1>8, <1>11, <2>1
    <3>2. p \in Int
      <4>1. n + 1 - i + 1 \in Int /\ Cost \in Int
        BY <1>4, <1>5
      <4> QED BY <4>1, ProductInt
    <3>3. a \in Nat
      BY <1>5, <1>8
    <3> HIDE DEF p, a
    <3>4. p <= c + (l - a)
      BY <1>1, <1>4, <3>1, <3>2, <3>3
    <3>5. p = (j - i + 1) * Cost
      <4>1. n + 1 - i + 1 = j - i + 1
        BY <1>5, <2>1
      <4> QED BY <4>1 DEF p
    <3> QED BY <3>1, <3>4, <3>5 DEF a
  <2>2. CASE j # n + 1
    <3>1. i \in 1..n /\ j \in 1..n
      BY <1>5, <2>2
    <3>2. (j - i + 1) * Cost <= risk.cap + (approved[j] - approved[i])
      BY <2>0, <3>1 DEF BucketInv, RateBound
    <3> QED BY <1>3, <1>8, <3>1, <3>2
  <2> QED BY <2>1, <2>2
<1> QED BY <1>12, <1>13 DEF BucketInv

LEMMA TruncInt ==
  ASSUME NEW x \in Int
  PROVE  Trunc(x, 100) \in Int
  BY DEF Trunc

\* The other calls replace fields that the bucket does not use.
LEMMA FillFields ==
  ASSUME NEW q \in RiskFields, NEW f \in Orders, NEW r, r = risk_on_fill(q, f)
  PROVE  r \in RiskFields /\ r.cap = q.cap /\ r.tokens = q.tokens /\ r.lastRefill = q.lastRefill
         /\ r.kill = q.kill
<1> DEFINE position == q.position + Signed(f.side, f.qty)
           cash == q.cash - Signed(f.side, f.qty) * f.price
           pnl == Trunc(cash + position * f.price, 100)
           lossKill == q.lossKill \/ pnl < -MaxLoss
<1>1. /\ f.price \in Int /\ Signed(f.side, f.qty) \in Int
      /\ q.position \in Int /\ q.cash \in Int
  BY DEF Orders, RiskFields, Signed
<1>2. position \in Int
  BY <1>1
<1>3. Signed(f.side, f.qty) * f.price \in Int
  BY <1>1, ProductInt
<1>4. cash \in Int
  BY <1>1, <1>3
<1>5. position * f.price \in Int
  <2> HIDE DEF position
  <2> QED BY <1>1, <1>2, ProductInt
<1>6. pnl \in Int
  <2>1. cash + position * f.price \in Int
    <3> HIDE DEF cash, position
    <3> QED BY <1>4, <1>5
  <2> QED BY <2>1, TruncInt
<1>7. lossKill \in BOOLEAN
  OBVIOUS
<1> DEFINE w == [q EXCEPT !.position = position, !.cash = cash]
<1>8. r = RecomputePnl(w, f.price)
  BY DEF risk_on_fill
<1>9. /\ w \in RiskFields /\ w.position = position /\ w.cash = cash /\ w.lossKill = q.lossKill
      /\ w.cap = q.cap /\ w.tokens = q.tokens /\ w.lastRefill = q.lastRefill /\ w.kill = q.kill
  <2> HIDE DEF position, cash
  <2> QED BY <1>2, <1>4 DEF RiskFields
<1>10. r = [w EXCEPT !.pnl = pnl, !.lossKill = lossKill]
  <2> HIDE DEF w, position, cash
  <2> QED BY <1>8, <1>9 DEF RecomputePnl, RiskFields
<1> HIDE DEF w, position, cash, pnl, lossKill
<1> QED BY <1>6, <1>7, <1>9, <1>10 DEF RiskFields

LEMMA ReferenceFields ==
  ASSUME NEW q \in RiskFields, NEW b \in Int, NEW a \in Int, NEW r, r = update_reference(q, b, a)
  PROVE  r \in RiskFields /\ r.cap = q.cap /\ r.tokens = q.tokens /\ r.lastRefill = q.lastRefill
         /\ r.kill = q.kill
  BY DEF RiskFields, update_reference

LEMMA KillField ==
  ASSUME NEW q \in RiskFields, NEW on \in BOOLEAN, NEW r, r = [q EXCEPT !.kill = on]
  PROVE  r \in RiskFields /\ r.cap = q.cap /\ r.tokens = q.tokens /\ r.lastRefill = q.lastRefill
         /\ r.kill = on
  BY DEF RiskFields

LEMMA BucketInit == RiskInit => BucketInv
<1> SUFFICES ASSUME RiskInit PROVE BucketInv
  OBVIOUS
<1>1. PICK cap \in Nat, maxLots \in Nat : risk = NewRisk(cap, maxLots)
  BY DEF RiskInit
<1>2. risk \in RiskFields /\ risk.tokens <= risk.cap
  BY <1>1 DEF NewRisk, RiskFields
<1>3. approved = <<>> /\ now \in Nat \ {0}
  BY DEF RiskInit
<1>4. approved \in Seq(Nat \ {0}) /\ Len(approved) = 0 /\ DOMAIN approved = {}
  BY <1>3
<1> QED BY <1>2, <1>3, <1>4 DEF BucketInv, Bucket, RateBound

LEMMA BucketStep == BucketInv /\ [RiskNext]_riskVars => BucketInv'
<1> SUFFICES ASSUME BucketInv, [RiskNext]_riskVars PROVE BucketInv'
  OBVIOUS
<1>1. risk \in RiskFields /\ now \in Nat \ {0}
  BY DEF BucketInv, Bucket
<1>2. ASSUME NEW o \in Orders, CheckStart(o) PROVE BucketInv'
  BY <1>1, <1>2, BucketKept DEF CheckStart
<1>3. CASE CheckInvalid
  BY <1>1, <1>3, BucketKept DEF CheckInvalid
<1>4. CASE CheckLimited
  BY <1>4, LimitedKeeps
<1>5. CASE CheckApprove
  BY <1>5, ApproveKeeps
<1>6. ASSUME NEW on \in BOOLEAN, set_kill_switch(on) PROVE BucketInv'
  <2>1. risk' = [risk EXCEPT !.kill = on] /\ now' = now /\ approved' = approved
    BY <1>6 DEF set_kill_switch
  <2>2. /\ risk' \in RiskFields /\ risk'.cap = risk.cap
        /\ risk'.tokens = risk.tokens /\ risk'.lastRefill = risk.lastRefill
    BY <1>1, <2>1, KillField, ZenonT(60)
  <2> QED BY <1>1, <2>1, <2>2, BucketKept
<1>7. ASSUME NEW t \in Nat \ {0}, SetNow(t) PROVE BucketInv'
  BY <1>1, <1>7, BucketKept DEF SetNow
<1>8. ASSUME NEW f \in Orders, risk' = risk_on_fill(risk, f),
             UNCHANGED <<now, checking, approved, afterKill>>
      PROVE  BucketInv'
  <2>1. /\ risk' \in RiskFields /\ risk'.cap = risk.cap
        /\ risk'.tokens = risk.tokens /\ risk'.lastRefill = risk.lastRefill
    BY <1>1, <1>8, FillFields, ZenonT(60)
  <2> QED BY <1>1, <1>8, <2>1, BucketKept
<1>9. ASSUME NEW b \in Int, NEW a \in Int, risk' = update_reference(risk, b, a),
             UNCHANGED <<now, checking, approved, afterKill>>
      PROVE  BucketInv'
  <2>1. /\ risk' \in RiskFields /\ risk'.cap = risk.cap
        /\ risk'.tokens = risk.tokens /\ risk'.lastRefill = risk.lastRefill
    <3>1. risk \in RiskFields
      BY <1>1
    <3>2. risk' = update_reference(risk, b, a)
      BY <1>9
    <3> QED BY <3>1, <3>2, ReferenceFields
  <2> QED BY <1>1, <1>9, <2>1, BucketKept
<1>10. CASE UNCHANGED riskVars
  BY <1>1, <1>10, BucketKept DEF riskVars
<1> QED
  BY <1>2, <1>3, <1>4, <1>5, <1>6, <1>7, <1>8, <1>9, <1>10 DEF RiskNext

\* The rate limiter of check(): between any two approvals no more was approved than
\* a full bucket and the refill of the time between, for every rate, every
\* sequence of calls and every clock, also one that is stepped back.
THEOREM RateLimited == RiskSpec => []RateBound
<1>1. BucketInv => RateBound
  BY DEF BucketInv
<1> QED BY <1>1, BucketInit, BucketStep, PTL DEF RiskSpec

\* Approvals are counted only while the switch is thrown.
KillInv ==
  /\ afterKill \in Nat
  /\ ~ risk.kill => afterKill = 0
  /\ KillLag

\* "Kill switches: reject everything" (risk_manager.hpp:72): whatever the trading
\* thread and the thread that throws the switch do, at most the one check() that
\* had already loaded the switch still approves.
THEOREM KillStops == RiskSpec => []KillLag
<1>1. RiskInit => KillInv
  BY DEF RiskInit, KillInv, KillLag
<1>2. KillInv /\ BucketInv /\ [RiskNext]_riskVars => KillInv'
  <2> SUFFICES ASSUME KillInv, BucketInv, [RiskNext]_riskVars PROVE KillInv'
    OBVIOUS
  <2>1. Bucket /\ risk \in RiskFields
    BY DEF BucketInv, Bucket
  <2>2. ASSUME NEW o \in Orders, CheckStart(o) PROVE KillInv'
    BY <2>2 DEF CheckStart, Killed, KillInv, KillLag
  <2>3. CASE CheckInvalid
    BY <2>3 DEF CheckInvalid, KillInv, KillLag
  <2>4. CASE CheckLimited
    <3>1. risk'.kill = risk.kill
      BY <2>1, <2>4, RefillFacts DEF CheckLimited
    <3> QED BY <2>4, <3>1 DEF CheckLimited, KillInv, KillLag
  <2>5. CASE CheckApprove
    <3> DEFINE r == Refill(risk, now)
    <3>1. risk' = [r EXCEPT !.tokens = r.tokens - Cost] /\ r.tokens >= Cost
      BY <2>5 DEF CheckApprove, HasToken
    <3>2. r \in RiskFields /\ r.kill = risk.kill
      BY <2>1, RefillFacts
    <3>3. r.tokens - Cost \in Nat
      <4>1. r.tokens \in Nat
        BY <3>2 DEF RiskFields
      <4> DEFINE t == r.tokens
      <4> HIDE DEF t
      <4>2. t \in Nat /\ t >= Cost
        BY <3>1, <4>1 DEF t
      <4>3. t - Cost \in Nat
        BY <4>2, RiskAssumption
      <4> QED BY <4>3 DEF t
    <3>4. risk'.kill = risk.kill
      <4> DEFINE x == r.tokens - Cost
      <4>1. r \in RiskFields /\ r.kill = risk.kill /\ x \in Nat /\ risk' = [r EXCEPT !.tokens = x]
        BY <3>1, <3>2, <3>3
      <4> HIDE DEF r, x
      <4>2. risk'.kill = r.kill
        BY <4>1, SetTokens
      <4> QED BY <4>1, <4>2
    <3> QED BY <2>5, <3>4 DEF CheckApprove, KillInv, KillLag
  <2>6. ASSUME NEW on \in BOOLEAN, set_kill_switch(on) PROVE KillInv'
    BY <2>6 DEF set_kill_switch, KillInv, KillLag
  <2>7. ASSUME NEW t \in Nat \ {0}, SetNow(t) PROVE KillInv'
    BY <2>7 DEF SetNow, KillInv, KillLag
  <2>8. ASSUME NEW f \in Orders, risk' = risk_on_fill(risk, f),
               UNCHANGED <<now, checking, approved, afterKill>>
        PROVE  KillInv'
    <3>1. risk'.kill = risk.kill
      BY <2>1, <2>8, FillFields, ZenonT(60)
    <3> QED BY <2>8, <3>1 DEF KillInv, KillLag
  <2>9. ASSUME NEW b \in Int, NEW a \in Int, risk' = update_reference(risk, b, a),
               UNCHANGED <<now, checking, approved, afterKill>>
        PROVE  KillInv'
    <3>1. risk'.kill = risk.kill
      <4>1. risk \in RiskFields
        BY <2>1
      <4>2. risk' = update_reference(risk, b, a)
        BY <2>9
      <4> QED BY <4>1, <4>2, ReferenceFields
    <3> QED BY <2>9, <3>1 DEF KillInv, KillLag
  <2>10. CASE UNCHANGED riskVars
    BY <2>10 DEF riskVars, KillInv, KillLag
  <2> QED
    BY <2>2, <2>3, <2>4, <2>5, <2>6, <2>7, <2>8, <2>9, <2>10 DEF RiskNext
<1>3. KillInv => KillLag
  BY DEF KillInv
<1> QED BY <1>1, <1>2, <1>3, BucketInit, BucketStep, PTL DEF RiskSpec
==============================================================================
