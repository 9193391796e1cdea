------------------------------ MODULE IrageProofs -----------------------------
(***************************************************************************)
(* The reject backoff, the kill switch and the position gates of           *)
(* IrageStrat, for any number of symbols, any settings and any markets.    *)
(***************************************************************************)
EXTENDS IrageStrat, TLAPS

\* Only the shape of a slot matters here, not its prices.
IsSlot(o) ==
  \E p, l, k, rp, rq :
    o = [price |-> p, leaves |-> l, req |-> k, reqPrice |-> rp, reqQty |-> rq]

Quoting(o) == o.req \in {"N", "R"}

Shape ==
  /\ slots = [s \in Syms |-> [d \in Sides |-> slots[s][d]]]
  /\ \A s \in Syms, d \in Sides : IsSlot(slots[s][d])
  /\ rejects \in [Syms -> [Sides -> Nat]]
  /\ report = [kind |-> report.kind, sym |-> report.sym, side |-> report.side]
  /\ report.sym \in Syms /\ report.side \in Sides

\* Is a quote of the side planned by the pass under way?
Planned(d) == pass.plan[d].act = "quote"

\* Where a pass can be, and what it can plan there.
Control ==
  /\ pass = [mode |-> pass.mode, next |-> pass.next, opsOk |-> pass.opsOk,
             at |-> pass.at, plan |-> pass.plan]
  /\ pass.plan = [d \in Sides |-> pass.plan[d]]
  /\ pass.next \in 1..Len(Symbols) /\ pass.mode \in {"idle", "sweep", "quote"}
  /\ pass.at \in {"look", "judge"} \cup Sides
  /\ pass.at = "judge" => pass.mode = "quote"
  /\ pass.at \in Sides => pass.mode # "idle"
  /\ \A d \in Sides : Planned(d) => pass.mode = "quote" /\ pass.at # "look"

\* Rejects of a side that are not in its counter: answered and not yet counted; of
\* the quote in flight; of the quote that has passed the backoff and is to be sent.
Uncounted(s, d) ==
  IF report.kind = "rej" /\ report.sym = s /\ report.side = d THEN 1 ELSE 0
InFlight(s, d) == IF Quoting(slots[s][d]) THEN 1 ELSE 0
ToSend(s, d) ==
  IF s = Symbols[pass.next] /\ Planned(d) /\ pass.at # "judge" THEN 1 ELSE 0

Backoff ==
  \A s \in Syms, d \in Sides :
    rejects[s][d] + Uncounted(s, d) + InFlight(s, d) + ToSend(s, d) <= MaxRejects + 2

\* A pass that quotes although the switch is thrown had begun before, and has
\* sent at most two messages for each symbol behind it.
Counted ==
  /\ sinceKill \in Nat
  /\ killed => /\ sinceKill <= 2 * Len(Symbols)
               /\ pass.mode = "quote" =>
                    sinceKill <= 2 * (pass.next - 1) + (IF pass.at = "sell" THEN 1 ELSE 0)

IrageInv == Shape /\ Control /\ Backoff /\ Counted

------------------------------------------------------------------------------
\* A slot without a request.
LEMMA StandingShape ==
  ASSUME NEW p, NEW l
  PROVE  IsSlot(Standing(p, l)) /\ ~ Quoting(Standing(p, l))
BY DEF IsSlot, Standing, Quoting

\* A new request in a slot.
Request(o, k, price, qty) ==
  [price |-> o.price, leaves |-> o.leaves, req |-> k, reqPrice |-> price, reqQty |-> qty]

LEMMA RequestShape ==
  ASSUME NEW o, IsSlot(o), NEW k, NEW price, NEW qty
  PROVE  IsSlot(Request(o, k, price, qty)) /\ Request(o, k, price, qty).req = k
BY DEF IsSlot, Request

\* sendOrder() leaves the slot alone or adds a request to one that has none.
LEMMA SendShape ==
  ASSUME NEW o, IsSlot(o), NEW price, NEW qty
  PROVE  /\ IsSlot(sendOrder(o, price, qty))
         /\ sendOrder(o, price, qty) = o \/ o.req = "none"
<1>1. \/ sendOrder(o, price, qty) = o
      \/ /\ o.req = "none"
         /\ \E k \in {"X", "N", "R"} : sendOrder(o, price, qty) = Request(o, k, price, qty)
  BY DEF sendOrder, Request
<1> QED BY <1>1, RequestShape

\* A cancel starts no quote.
LEMMA CancelShape ==
  ASSUME NEW o, IsSlot(o)
  PROVE  /\ IsSlot(CancelSide(o))
         /\ Quoting(CancelSide(o)) => CancelSide(o) = o
<1>1. CancelSide(o) = o \/ CancelSide(o) = sendOrder(o, 0, 0)
  BY DEF CancelSide
<1>2. sendOrder(o, 0, 0) = o \/ sendOrder(o, 0, 0) = Request(o, "X", 0, 0)
  BY DEF sendOrder, Request
<1>3. IsSlot(Request(o, "X", 0, 0)) /\ ~ Quoting(Request(o, "X", 0, 0))
  BY RequestShape DEF Quoting
<1> QED BY <1>1, <1>2, <1>3

------------------------------------------------------------------------------
\* A pass at the beginning of a symbol plans no quote.
LEMMA AtStart ==
  ASSUME NEW mode \in {"idle", "sweep", "quote"}, NEW i \in 1..Len(Symbols), NEW ops,
         pass' = At(mode, i, ops)
  PROVE  /\ Control' /\ \A d \in Sides : ~ Planned(d)'
         /\ pass'.mode = mode /\ pass'.next = i /\ pass'.at # "sell" /\ pass'.at # "judge"
<1>1. /\ pass'.mode = mode /\ pass'.next = i /\ pass'.opsOk = ops
      /\ pass'.at = (IF mode = "sweep" THEN "buy" ELSE "look")
      /\ pass'.plan = [d \in Sides |-> IF mode = "sweep" THEN Cancel ELSE Leave]
      /\ pass' = [mode |-> mode, next |-> i, opsOk |-> ops, at |-> pass'.at, plan |-> pass'.plan]
  BY DEF At, Both
<1>2. \A d \in Sides : ~ Planned(d)'
  BY <1>1 DEF Planned, Cancel, Leave
<1>3. pass'.plan = [d \in Sides |-> pass'.plan[d]]
  BY <1>1
<1> QED BY <1>1, <1>2, <1>3 DEF Control, Sides

\* Look() plans quotes, but they still have to be judged.
LEMMA LookPass ==
  ASSUME Control, NEW t, Look(t)
  PROVE  /\ Control' /\ pass'.mode = "quote" /\ pass.mode = "quote" /\ pass'.next = pass.next
         /\ pass'.at # "sell" /\ pass.at = "look"
         /\ \A d \in Sides : Planned(d)' => pass'.at = "judge"
<1>1. pass.mode = "quote" /\ pass.at = "look"
  BY DEF Look
<1>2. CASE Pulled(t)
  <2>1. pass' = [mode |-> pass.mode, next |-> pass.next, opsOk |-> pass.opsOk,
                 at |-> "buy", plan |-> [d \in Sides |-> Cancel]]
    BY <1>2 DEF Look, Control, Both
  <2>2. \A d \in Sides : ~ Planned(d)'
    BY <2>1 DEF Planned, Cancel
  <2> QED BY <1>1, <2>1, <2>2 DEF Control, Sides
<1>3. CASE ~ Pulled(t)
  <2> DEFINE f == [d \in Sides |-> Plan(t, d, inventory[Symbols[pass.next]])]
  <2>1. pass' = [mode |-> pass.mode, next |-> pass.next, opsOk |-> pass.opsOk,
                 at |-> "judge", plan |-> f]
    BY <1>3 DEF Look, Control
  <2>2. f = [d \in Sides |-> f[d]]
    OBVIOUS
  <2> HIDE DEF f
  <2> QED BY <1>1, <2>1, <2>2 DEF Control, Sides
<1> QED BY <1>2, <1>3

\* Judge() lets a quote pass only below the maximum of rejects.
LEMMA JudgePass ==
  ASSUME Control, Judge
  PROVE  /\ Control' /\ pass'.mode = "quote" /\ pass.mode = "quote" /\ pass'.next = pass.next
         /\ pass'.at = "buy"
         /\ \A d \in Sides : Planned(d)' =>
              Planned(d) /\ ~ (rejects[Symbols[pass.next]][d] >= MaxRejects)
<1> DEFINE f == [d \in Sides |-> Judged(pass.plan[d], rejects[Symbols[pass.next]][d])]
<1>1. pass' = [mode |-> pass.mode, next |-> pass.next, opsOk |-> pass.opsOk,
               at |-> "buy", plan |-> f]
  BY DEF Judge, Control
<1>2. pass.mode = "quote"
  BY DEF Judge, Control
<1>3. \A d \in Sides : f[d].act = "quote" =>
        pass.plan[d].act = "quote" /\ ~ (rejects[Symbols[pass.next]][d] >= MaxRejects)
  BY DEF Judged, Cancel, Leave
<1> HIDE DEF f
<1>4. pass'.plan = f
  BY <1>1
<1>5. f = [d \in Sides |-> f[d]]
  BY DEF f
<1> QED BY <1>1, <1>2, <1>3, <1>4, <1>5 DEF Control, Sides, Planned

\* Act() deals with one side and forgets its plan.
LEMMA ActPass ==
  ASSUME Control, Act
  PROVE  /\ Control' /\ pass.at \in Sides /\ Symbols[pass.next] \in Syms
         /\ \A d \in Sides : Planned(d)' =>
              Planned(d) /\ d # pass.at /\ pass'.next = pass.next /\ pass'.at # "judge"
         /\ pass'.mode = "quote" => pass.mode = "quote"
         /\ pass'.mode = "quote" /\ pass.at = "buy" =>
              pass'.next = pass.next /\ pass'.at = "sell"
         /\ pass'.mode = "quote" /\ pass.at = "sell" =>
              pass'.next = pass.next + 1 /\ pass'.at # "sell"
<1>1. Len(Symbols) \in Nat \ {0} /\ DOMAIN Symbols = 1..Len(Symbols)
  BY IrageAssumption
<1>2. pass.at \in Sides /\ pass.next \in 1..Len(Symbols) /\ pass.mode # "idle"
  BY DEF Act, Control
<1>3. Symbols[pass.next] \in Syms
  BY <1>1, <1>2 DEF Syms
<1>4. CASE pass.at = "buy"
  <2> DEFINE f == [pass.plan EXCEPT !["buy"] = Leave]
  <2>1. pass' = [mode |-> pass.mode, next |-> pass.next, opsOk |-> pass.opsOk,
                 at |-> "sell", plan |-> f]
    BY <1>4 DEF Act, Control
  <2>2. f = [d \in Sides |-> f[d]] /\ f["buy"] = Leave /\ f["sell"] = pass.plan["sell"]
    BY DEF Control, Sides
  <2> HIDE DEF f
  <2>3. pass'.plan = f /\ pass'.at = "sell" /\ pass'.next = pass.next /\ pass'.mode = pass.mode
    BY <2>1
  <2>4. \A d \in Sides : Planned(d)' => Planned(d) /\ d # "buy"
    BY <2>2, <2>3 DEF Planned, Leave, Sides
  <2>5. Control'
    BY <1>2, <1>4, <2>1, <2>2, <2>3, <2>4 DEF Control, Sides
  <2> QED BY <1>2, <1>3, <1>4, <2>3, <2>4, <2>5
<1>5. CASE pass.at = "sell"
  <2>1. CASE pass.next = Len(Symbols)
    <3>1. pass' = At("idle", 1, TRUE) /\ 1 \in 1..Len(Symbols)
      BY <1>1, <1>5, <2>1 DEF Act, Idle
    <3> QED BY <1>2, <1>3, <1>5, <3>1, AtStart
  <2>2. CASE pass.next # Len(Symbols)
    <3>1. pass' = At(pass.mode, pass.next + 1, pass.opsOk)
      BY <1>5, <2>2 DEF Act
    <3>2. pass.next + 1 \in 1..Len(Symbols)
      BY <1>1, <1>2, <2>2
    <3>3. pass.mode \in {"idle", "sweep", "quote"}
      BY DEF Control
    <3> QED BY <1>2, <1>3, <1>5, <3>1, <3>2, <3>3, AtStart
  <2> QED BY <2>1, <2>2
<1> QED BY <1>2, <1>4, <1>5 DEF Sides

------------------------------------------------------------------------------
\* SEND plans quotes that passed the backoff or none.
LEMMA PassKeepsBackoff ==
  ASSUME IrageInv, UNCHANGED <<slots, rejects, report>>,
         \A s \in Syms, d \in Sides : ToSend(s, d)' = 1 =>
           ToSend(s, d) = 1 \/ ~ (rejects[s][d] >= MaxRejects)
  PROVE  Shape' /\ Backoff'
<1>1. Shape'
  BY DEF IrageInv, Shape
<1>2. ASSUME NEW s \in Syms, NEW d \in Sides
      PROVE  (rejects[s][d] + Uncounted(s, d) + InFlight(s, d) + ToSend(s, d) <= MaxRejects + 2)'
  <2>1. rejects[s][d] \in Nat /\ MaxRejects \in Nat
    BY IrageAssumption DEF IrageInv, Shape
  <2>2. /\ rejects'[s][d] = rejects[s][d] /\ Uncounted(s, d)' = Uncounted(s, d)
        /\ InFlight(s, d)' = InFlight(s, d)
    BY DEF Uncounted, InFlight, Quoting
  <2>3. Uncounted(s, d) \in 0..1 /\ InFlight(s, d) \in 0..1
    BY DEF Uncounted, InFlight
  <2>4. ToSend(s, d) \in 0..1 /\ ToSend(s, d)' \in 0..1
    BY DEF ToSend
  <2>5. rejects[s][d] + Uncounted(s, d) + InFlight(s, d) + ToSend(s, d) <= MaxRejects + 2
    BY DEF IrageInv, Backoff
  <2>6. CASE ToSend(s, d)' = 1 /\ ToSend(s, d) # 1
    BY <2>1, <2>2, <2>3, <2>4, <2>6
  <2>7. CASE ~ (ToSend(s, d)' = 1 /\ ToSend(s, d) # 1)
    BY <2>1, <2>2, <2>3, <2>4, <2>5, <2>7
  <2> QED BY <2>6, <2>7
<1> QED BY <1>1, <1>2 DEF Backoff

\* What Act() does to the slot of its side.
LEMMA ActSlot ==
  ASSUME IrageInv, Act
  PROVE  \E new :
           LET s == Symbols[pass.next]
               d == pass.at
           IN /\ IsSlot(new) /\ slots' = [slots EXCEPT ![s][d] = new]
              /\ Quoting(new) => new = slots[s][d] \/ (slots[s][d].req = "none" /\ Planned(d))
              /\ sinceKill' = IF killed /\ slots[s][d].req = "none" /\ Quoting(new)
                              THEN sinceKill + 1 ELSE sinceKill
<1> DEFINE s == Symbols[pass.next]
           d == pass.at
           p == pass.plan[d]
           o == slots[s][d]
           new == IF p.act = "cancel" THEN CancelSide(o)
                  ELSE IF p.act = "quote" THEN QuoteSide(o, p.price, p.qty) ELSE o
<1>1. d \in Sides /\ s \in Syms
  BY ActPass DEF IrageInv
<1>2. IsSlot(o)
  BY <1>1 DEF IrageInv, Shape
<1>3. /\ slots' = [slots EXCEPT ![s][d] = new]
      /\ sinceKill' = IF killed /\ o.req = "none" /\ Quoting(new)
                      THEN sinceKill + 1 ELSE sinceKill
  BY DEF Act, Quoting
<1> HIDE DEF o
<1>4. /\ IsSlot(QuoteSide(o, p.price, p.qty))
      /\ QuoteSide(o, p.price, p.qty) = o \/ o.req = "none"
  BY <1>2, SendShape DEF QuoteSide
<1>5. IsSlot(CancelSide(o)) /\ (Quoting(CancelSide(o)) => CancelSide(o) = o)
  BY <1>2, CancelShape
<1>6. IsSlot(new) /\ (Quoting(new) => new = o \/ (o.req = "none" /\ Planned(d)))
  BY <1>2, <1>4, <1>5 DEF Planned
<1> HIDE DEF new
<1> QED BY <1>3, <1>6 DEF o

LEMMA ActKeeps ==
  ASSUME IrageInv, Act
  PROVE  IrageInv'
<1> DEFINE s == Symbols[pass.next]
           d == pass.at
<1>1. /\ Control' /\ d \in Sides /\ s \in Syms
      /\ \A e \in Sides : Planned(e)' =>
           Planned(e) /\ e # d /\ pass'.next = pass.next /\ pass'.at # "judge"
      /\ pass'.mode = "quote" => pass.mode = "quote"
      /\ pass'.mode = "quote" /\ d = "buy" => pass'.next = pass.next /\ pass'.at = "sell"
      /\ pass'.mode = "quote" /\ d = "sell" => pass'.next = pass.next + 1 /\ pass'.at # "sell"
  BY ActPass DEF IrageInv
<1>2. PICK new :
        /\ IsSlot(new) /\ slots' = [slots EXCEPT ![s][d] = new]
        /\ Quoting(new) => new = slots[s][d] \/ (slots[s][d].req = "none" /\ Planned(d))
        /\ sinceKill' = IF killed /\ slots[s][d].req = "none" /\ Quoting(new)
                        THEN sinceKill + 1 ELSE sinceKill
  BY ActSlot
<1>3. UNCHANGED <<rejects, report, killed>>
  BY DEF Act, recvVars, updtVars
<1>4. pass.next \in 1..Len(Symbols) /\ pass.at # "judge" /\ pass.mode # "idle"
  BY <1>1 DEF IrageInv, Control, Sides
<1> HIDE DEF s, d
<1>5. \A x \in Syms, e \in Sides :
        slots'[x][e] = IF x = s /\ e = d THEN new ELSE slots[x][e]
  BY <1>1, <1>2 DEF IrageInv, Shape
<1>6. Shape'
  <2>1. slots' = [x \in Syms |-> [e \in Sides |-> slots'[x][e]]]
    BY <1>1, <1>2, <1>5 DEF IrageInv, Shape
  <2>2. \A x \in Syms, e \in Sides : IsSlot(slots'[x][e])
    BY <1>2, <1>5 DEF IrageInv, Shape
  <2> QED BY <1>3, <2>1, <2>2 DEF IrageInv, Shape
<1>7. Backoff'
  <2> SUFFICES ASSUME NEW x \in Syms, NEW e \in Sides
               PROVE  (rejects[x][e] + Uncounted(x, e) + InFlight(x, e) + ToSend(x, e)
                         <= MaxRejects + 2)'
    BY DEF Backoff
  <2>1. rejects[x][e] \in Nat /\ MaxRejects \in Nat
    BY IrageAssumption DEF IrageInv, Shape
  <2>2. rejects'[x][e] = rejects[x][e] /\ Uncounted(x, e)' = Uncounted(x, e)
    BY <1>3 DEF Uncounted
  <2>3. Uncounted(x, e) \in 0..1 /\ InFlight(x, e) \in 0..1 /\ ToSend(x, e) \in 0..1
    BY DEF Uncounted, InFlight, ToSend
  <2>4. rejects[x][e] + Uncounted(x, e) + InFlight(x, e) + ToSend(x, e) <= MaxRejects + 2
    BY DEF IrageInv, Backoff
  <2>5. ToSend(x, e)' = 1 => ToSend(x, e) = 1 /\ ~ (x = s /\ e = d)
    BY <1>1, <1>4 DEF ToSend, s
  <2>6. ToSend(x, e)' \in 0..1 /\ InFlight(x, e)' \in 0..1
    BY DEF ToSend, InFlight
  <2>7. InFlight(x, e)' = 1 => InFlight(x, e) = 1 \/ (x = s /\ e = d /\ Planned(d))
    BY <1>2, <1>5 DEF InFlight
  <2>8. x = s /\ e = d /\ Planned(d) => ToSend(x, e) = 1
    BY <1>4 DEF ToSend, s
  <2>9. CASE x = s /\ e = d
    BY <2>1, <2>2, <2>3, <2>4, <2>5, <2>6, <2>7, <2>8, <2>9
  <2>10. CASE ~ (x = s /\ e = d)
    BY <2>1, <2>2, <2>3, <2>4, <2>5, <2>6, <2>7, <2>10
  <2> QED BY <2>9, <2>10
<1>8. Counted'
  <2>1. Len(Symbols) \in Nat \ {0} /\ sinceKill \in Nat
    BY IrageAssumption DEF IrageInv, Counted
  <2>2. sinceKill' \in Nat
    BY <1>2, <2>1
  <2>3. ASSUME killed, pass.mode = "quote"
        PROVE  sinceKill' <= 2 * (pass.next - 1) + (IF d = "buy" THEN 1 ELSE 2)
    <3>1. sinceKill <= 2 * (pass.next - 1) + (IF d = "sell" THEN 1 ELSE 0)
      BY <2>3 DEF IrageInv, Counted, d
    <3>2. sinceKill' <= sinceKill + 1 /\ pass.next \in Nat /\ d \in {"buy", "sell"}
      BY <1>1, <1>2, <1>4, <2>1 DEF Sides
    <3> QED BY <2>1, <2>2, <3>1, <3>2
  <2>4. ASSUME killed, pass.mode # "quote" PROVE sinceKill' = sinceKill
    <3>1. ~ Planned(d)
      BY <1>1, <2>4 DEF IrageInv, Control
    <3>2. ~ (slots[s][d].req = "none" /\ Quoting(new))
      BY <1>2, <3>1 DEF Quoting
    <3> QED BY <1>2, <3>2
  <2>5. killed' => sinceKill' <= 2 * Len(Symbols)
    BY <1>3, <1>4, <2>1, <2>2, <2>3, <2>4 DEF IrageInv, Counted
  <2>6. killed' /\ pass'.mode = "quote" =>
          sinceKill' <= 2 * (pass'.next - 1) + (IF pass'.at = "sell" THEN 1 ELSE 0)
    BY <1>1, <1>3, <1>4, <2>1, <2>2, <2>3 DEF Sides
  <2> QED BY <2>2, <2>5, <2>6 DEF Counted
<1> QED BY <1>1, <1>6, <1>7, <1>8 DEF IrageInv

------------------------------------------------------------------------------
\* An answer of the exchange: a quote that is refused is a reject to be counted.
LEMMA AnswerKeeps ==
  ASSUME IrageInv, NEW s \in Syms, NEW d \in Sides, NEW to, IsSlot(to), NEW kind,
         Answer(s, d, to, kind), Quoting(to) => Quoting(slots[s][d]),
         kind = "rej" => Quoting(slots[s][d]) /\ ~ Quoting(to)
  PROVE  IrageInv'
<1>1. \A x \in Syms, e \in Sides :
        slots'[x][e] = IF x = s /\ e = d THEN to ELSE slots[x][e]
  BY DEF Answer, IrageInv, Shape
<1>2. UNCHANGED <<pass, sinceKill, rejects, killed>> /\ report.kind # "rej"
  BY DEF Answer, updtVars, NoReport
<1>3. Shape'
  <2>1. slots' = [x \in Syms |-> [e \in Sides |-> slots'[x][e]]]
    BY <1>1 DEF Answer, IrageInv, Shape
  <2>2. \A x \in Syms, e \in Sides : IsSlot(slots'[x][e])
    BY <1>1 DEF IrageInv, Shape
  <2>3. /\ report' = [kind |-> report'.kind, sym |-> report'.sym, side |-> report'.side]
        /\ report'.sym \in Syms /\ report'.side \in Sides
    BY DEF Answer, IrageInv, Shape
  <2> QED BY <1>2, <2>1, <2>2, <2>3 DEF IrageInv, Shape
<1>4. Backoff'
  <2> SUFFICES ASSUME NEW x \in Syms, NEW e \in Sides
               PROVE  (rejects[x][e] + Uncounted(x, e) + InFlight(x, e) + ToSend(x, e)
                         <= MaxRejects + 2)'
    BY DEF Backoff
  <2>1. rejects[x][e] \in Nat /\ MaxRejects \in Nat
    BY IrageAssumption DEF IrageInv, Shape
  <2>2. rejects'[x][e] = rejects[x][e] /\ ToSend(x, e)' = ToSend(x, e)
    BY <1>2 DEF ToSend, Planned
  <2>3. Uncounted(x, e) = 0 /\ InFlight(x, e) \in 0..1 /\ ToSend(x, e) \in 0..1
    BY <1>2 DEF Uncounted, InFlight, ToSend
  <2>4. rejects[x][e] + Uncounted(x, e) + InFlight(x, e) + ToSend(x, e) <= MaxRejects + 2
    BY DEF IrageInv, Backoff
  <2>5. InFlight(x, e)' \in 0..1 /\ (InFlight(x, e)' = 1 => InFlight(x, e) = 1)
    BY <1>1 DEF InFlight
  <2>6. Uncounted(x, e)' \in 0..1
    BY DEF Uncounted
  <2>7. Uncounted(x, e)' = 1 => InFlight(x, e) = 1 /\ InFlight(x, e)' = 0
    BY <1>1 DEF Uncounted, InFlight, Answer, NoReport
  <2> QED BY <2>1, <2>2, <2>3, <2>4, <2>5, <2>6, <2>7
<1>5. Control' /\ Counted'
  BY <1>2 DEF IrageInv, Control, Planned, Counted
<1> QED BY <1>3, <1>4, <1>5 DEF IrageInv

\* A callback: the reject is counted, or the count starts again.
LEMMA CalledKeeps ==
  ASSUME IrageInv, NEW n \in Nat, Called(n),
         n = 0 \/ (report.kind = "rej" /\ n = rejects[report.sym][report.side] + 1)
  PROVE  IrageInv'
<1>1. report.sym \in Syms /\ report.side \in Sides /\ UNCHANGED <<slots, pass, sinceKill, killed>>
  BY DEF Called, IrageInv, Shape, sendVars, updtVars
<1>2. \A x \in Syms, e \in Sides :
        rejects'[x][e] = IF x = report.sym /\ e = report.side THEN n ELSE rejects[x][e]
  BY <1>1 DEF Called, IrageInv, Shape
<1>3. rejects' \in [Syms -> [Sides -> Nat]]
  BY <1>1 DEF Called, IrageInv, Shape
<1>4. report' = NoReport /\ NoReport.kind = "none" /\ NoReport.sym \in Syms /\ NoReport.side \in Sides
  <2>1. 1 \in DOMAIN Symbols
    BY IrageAssumption
  <2> QED BY <2>1 DEF Called, NoReport, Syms, Sides
<1>5. Shape'
  <2>1. NoReport = [kind |-> NoReport.kind, sym |-> NoReport.sym, side |-> NoReport.side]
    BY DEF NoReport
  <2> QED BY <1>1, <1>3, <1>4, <2>1 DEF IrageInv, Shape
<1>6. Backoff'
  <2> SUFFICES ASSUME NEW x \in Syms, NEW e \in Sides
               PROVE  (rejects[x][e] + Uncounted(x, e) + InFlight(x, e) + ToSend(x, e)
                         <= MaxRejects + 2)'
    BY DEF Backoff
  <2>1. rejects[x][e] \in Nat /\ MaxRejects \in Nat
    BY IrageAssumption DEF IrageInv, Shape
  <2>2. ToSend(x, e)' = ToSend(x, e) /\ InFlight(x, e)' = InFlight(x, e)
    BY <1>1 DEF ToSend, Planned, InFlight, Quoting
  <2>3. Uncounted(x, e) \in 0..1 /\ InFlight(x, e) \in 0..1 /\ ToSend(x, e) \in 0..1
    BY DEF Uncounted, InFlight, ToSend
  <2>4. rejects[x][e] + Uncounted(x, e) + InFlight(x, e) + ToSend(x, e) <= MaxRejects + 2
    BY DEF IrageInv, Backoff
  <2>5. Uncounted(x, e)' = 0
    BY <1>4 DEF Uncounted
  <2>6. rejects'[x][e] = 0 \/ rejects'[x][e] = rejects[x][e] + Uncounted(x, e)
               \/ rejects'[x][e] = rejects[x][e]
    BY <1>2, <2>1 DEF Uncounted
  <2> QED BY <2>1, <2>2, <2>3, <2>4, <2>5, <2>6
<1>7. Control' /\ Counted'
  BY <1>1 DEF IrageInv, Control, Planned, Counted
<1> QED BY <1>5, <1>6, <1>7 DEF IrageInv

------------------------------------------------------------------------------
LEMMA IrageInitial == Init => IrageInv
<1> SUFFICES ASSUME Init PROVE IrageInv
  OBVIOUS
<1>1. Symbols[1] \in Syms /\ MaxRejects \in Nat /\ Len(Symbols) \in Nat \ {0}
  BY IrageAssumption DEF Syms
<1>2. \A s \in Syms, d \in Sides : slots[s][d] = NoSlot /\ rejects[s][d] = 0
  BY DEF Init, Both
<1>3. IsSlot(NoSlot) /\ ~ Quoting(NoSlot)
  BY StandingShape DEF NoSlot
<1>4. Shape
  <2>1. slots = [s \in Syms |-> [d \in Sides |-> NoSlot]] /\ rejects = [s \in Syms |-> [d \in Sides |-> 0]]
    BY DEF Init, Both
  <2>2. slots = [s \in Syms |-> [d \in Sides |-> slots[s][d]]] /\ rejects \in [Syms -> [Sides -> Nat]]
    BY <2>1
  <2>3. report = NoReport
    BY DEF Init
  <2> QED BY <1>1, <1>2, <1>3, <2>2, <2>3 DEF Shape, NoReport, Sides
<1>5. /\ pass = [mode |-> "idle", next |-> 1, opsOk |-> TRUE, at |-> "look", plan |-> [d \in Sides |-> Leave]]
      /\ Leave.act = "leave"
  BY DEF Init, Idle, At, Both, Leave
<1>6. Control
  <2>1. /\ pass.mode = "idle" /\ pass.next = 1 /\ pass.opsOk = TRUE /\ pass.at = "look"
        /\ pass.plan = [d \in Sides |-> Leave]
    BY <1>5
  <2>2. pass.plan = [d \in Sides |-> pass.plan[d]] /\ \A d \in Sides : ~ Planned(d)
    BY <1>5, <2>1 DEF Planned
  <2> QED BY <1>1, <1>5, <2>1, <2>2 DEF Control, Sides
<1>7. Backoff
  BY <1>1, <1>2, <1>3, <1>5 DEF Backoff, Uncounted, InFlight, ToSend, Planned, Init, NoReport
<1>8. Counted
  BY DEF Init, Counted
<1> QED BY <1>4, <1>6, <1>7, <1>8 DEF IrageInv

LEMMA IrageStep == IrageInv /\ [Next]_vars => IrageInv'
<1> SUFFICES ASSUME IrageInv, [Next]_vars PROVE IrageInv'
  OBVIOUS
<1>0. Shape /\ Control /\ Backoff /\ Counted /\ Len(Symbols) \in Nat \ {0}
  BY IrageAssumption DEF IrageInv
<1>1. CASE Begin
  <2>1. UNCHANGED <<slots, rejects, report, sinceKill, killed>>
    BY <1>1 DEF Begin, recvVars, updtVars
  <2>2. PICK mode \in {"sweep", "quote"}, ops \in BOOLEAN :
          pass' = At(mode, 1, ops) /\ (killed => mode = "sweep")
    BY <1>1 DEF Begin
  <2>3. /\ Control' /\ \A d \in Sides : ~ Planned(d)'
        /\ pass'.mode = mode
    BY <1>0, <2>2, AtStart
  <2>4. Shape' /\ Backoff'
    BY <2>1, <2>3, PassKeepsBackoff DEF ToSend
  <2> QED BY <1>0, <2>1, <2>2, <2>3, <2>4 DEF IrageInv, Counted
<1>2. ASSUME NEW t \in Mticks, Look(t) PROVE IrageInv'
  <2>1. UNCHANGED <<slots, rejects, report, sinceKill, killed>>
    BY <1>2 DEF Look, recvVars, updtVars
  <2>2. /\ Control' /\ pass'.mode = "quote" /\ pass.mode = "quote" /\ pass'.next = pass.next
        /\ pass'.at # "sell" /\ pass.at = "look"
        /\ \A d \in Sides : Planned(d)' => pass'.at = "judge"
    BY <1>0, <1>2, LookPass
  <2>3. Shape' /\ Backoff'
    BY <2>1, <2>2, PassKeepsBackoff DEF ToSend
  <2> QED BY <1>0, <2>1, <2>2, <2>3 DEF IrageInv, Counted
<1>3. CASE Judge
  <2>1. UNCHANGED <<slots, rejects, report, sinceKill, killed>>
    BY <1>3 DEF Judge, recvVars, updtVars
  <2>2. /\ Control' /\ pass'.mode = "quote" /\ pass.mode = "quote" /\ pass'.next = pass.next
        /\ pass'.at = "buy" /\ pass.at = "judge"
        /\ \A d \in Sides : Planned(d)' =>
             Planned(d) /\ ~ (rejects[Symbols[pass.next]][d] >= MaxRejects)
    BY <1>0, <1>3, JudgePass DEF Judge
  <2>3. Shape' /\ Backoff'
    BY <2>1, <2>2, PassKeepsBackoff DEF ToSend
  <2> QED BY <1>0, <2>1, <2>2, <2>3 DEF IrageInv, Counted
<1>4. CASE Act
  BY <1>4, ActKeeps
<1>5. CASE onAck \/ onExec
  BY <1>5, CalledKeeps DEF onAck, onExec
<1>6. CASE onRej
  <2>1. rejects[report.sym][report.side] + 1 \in Nat
    BY <1>0 DEF Shape
  <2> QED BY <1>6, <2>1, CalledKeeps DEF onRej
<1>7. ASSUME NEW s \in Syms, NEW d \in Sides, Accept(s, d) PROVE IrageInv'
  <2> DEFINE o == slots[s][d]
  <2>1. \/ Answer(s, d, NoSlot, "cxl") \/ Answer(s, d, Standing(o.reqPrice, o.reqQty), "ack")
    BY <1>7 DEF Accept
  <2>2. /\ IsSlot(NoSlot) /\ ~ Quoting(NoSlot) /\ IsSlot(Standing(o.reqPrice, o.reqQty))
        /\ ~ Quoting(Standing(o.reqPrice, o.reqQty))
    BY StandingShape DEF NoSlot
  <2> QED BY <2>1, <2>2, AnswerKeeps
<1>8. ASSUME NEW s \in Syms, NEW d \in Sides, Refuse(s, d) PROVE IrageInv'
  <2> DEFINE o == slots[s][d]
             to == IF o.leaves = 0 THEN NoSlot ELSE Standing(o.price, o.leaves)
  <2>1. Answer(s, d, to, "rej") /\ Quoting(o)
    BY <1>8 DEF Refuse, Quoting
  <2>2. IsSlot(to) /\ ~ Quoting(to)
    BY StandingShape DEF NoSlot
  <2> HIDE DEF to
  <2> QED BY <2>1, <2>2, AnswerKeeps
<1>9. ASSUME NEW s \in Syms, NEW d \in Sides, NEW qty, Fill(s, d, qty) PROVE IrageInv'
  <2> DEFINE o == slots[s][d]
             left == [price |-> o.price, leaves |-> o.leaves - qty,
                      req |-> o.req, reqPrice |-> o.reqPrice, reqQty |-> o.reqQty]
             to == IF left.leaves = 0 /\ o.req = "none" THEN NoSlot ELSE left
  <2>1. Answer(s, d, to, "exec")
    BY <1>9 DEF Fill
  <2>2. IsSlot(NoSlot) /\ ~ Quoting(NoSlot)
    BY StandingShape DEF NoSlot
  <2>3. IsSlot(left) /\ (Quoting(left) => Quoting(o))
    BY DEF IsSlot, Quoting
  <2>4. IsSlot(to) /\ (Quoting(to) => Quoting(o))
    BY <2>2, <2>3
  <2> HIDE DEF to
  <2> QED BY <2>1, <2>4, AnswerKeeps
<1>10. ASSUME NEW on \in BOOLEAN, NEW k \in Knobs, update(on, k) PROVE IrageInv'
  <2>1. UNCHANGED <<slots, rejects, report, pass>>
    BY <1>10 DEF update, recvVars
  <2>2. Counted'
    <3>1. killed' = on /\ sinceKill' = IF on /\ killed THEN sinceKill ELSE 0
      BY <1>10 DEF update
    <3>2. pass.next \in 1..Len(Symbols)
      BY <1>0 DEF Control
    <3> QED BY <1>0, <2>1, <3>1, <3>2 DEF Counted
  <2> QED BY <1>0, <2>1, <2>2
        DEF IrageInv, Shape, Control, Planned, Backoff, Uncounted, InFlight, Quoting, ToSend
<1>11. CASE Clock \/ UNCHANGED vars
  <2>1. UNCHANGED <<slots, rejects, report, pass, sinceKill, killed>>
    BY <1>11 DEF Clock, vars, sendVars, recvVars, updtVars
  <2> QED BY <1>0, <2>1
        DEF IrageInv, Shape, Control, Planned, Backoff, Uncounted, InFlight, Quoting, ToSend, Counted
<1> QED
  BY <1>1, <1>2, <1>3, <1>4, <1>5, <1>6, <1>7, <1>8, <1>9, <1>10, <1>11
     DEF Next, Send, Callback

------------------------------------------------------------------------------
\* Reject backoff (mystrat.cpp:221-231), for every maximum and however the threads
\* interleave: the counter of a side passes the maximum by at most two, the quote
\* in flight and the reject not yet counted when onMarketData() read it.
THEOREM RejectsStayBounded == Spec => []RejectsBounded
<1>1. IrageInv => RejectsBounded
  <2> SUFFICES ASSUME IrageInv, NEW s \in Syms, NEW d \in Sides
               PROVE  rejects[s][d] <= MaxRejects + 2
    BY DEF RejectsBounded
  <2>1. rejects[s][d] + Uncounted(s, d) + InFlight(s, d) + ToSend(s, d) <= MaxRejects + 2
    BY DEF IrageInv, Backoff
  <2>2. rejects[s][d] \in Nat /\ MaxRejects \in Nat
    BY IrageAssumption DEF IrageInv, Shape
  <2> QED BY <2>1, <2>2 DEF Uncounted, InFlight, ToSend
<1> QED BY <1>1, IrageInitial, IrageStep, PTL DEF Spec

\* Kill switch (mystrat.cpp:135), for any number of symbols: once it is thrown at
\* most two quotes per symbol still go out, those of the pass that had begun.
THEOREM KillLagBounded == Spec => []KillLag
<1>1. IrageInv => KillLag
  BY DEF IrageInv, Counted, KillLag
<1> QED BY <1>1, IrageInitial, IrageStep, PTL DEF Spec

------------------------------------------------------------------------------
(***************************************************************************)
(* The position gates, with q the largest quote.                           *)
(***************************************************************************)
Largest(q) == q \in Nat \ {0} /\ \A k \in Knobs : k.lots * Lot <= q

\* The position of a symbol towards a side.
Signed(s, d) == IF d = "buy" THEN inventory[s] ELSE -inventory[s]

Sized(o, q) ==
  /\ o.leaves \in 0..q /\ o.reqQty \in 0..q /\ o.req \in {"none", "N", "R", "X"}
  /\ o.req = "N" => o.leaves = 0 /\ o.reqQty > 0
  /\ o.req = "R" => o.reqQty > 0

\* What the order and the request of a slot can still trade: a replace is accepted
\* only while something is left of the order.
Open(o) ==
  IF o.req = "N" THEN o.reqQty
  ELSE IF o.req = "R" THEN IF o.leaves = 0 THEN 0 ELSE o.leaves - 1 + o.reqQty
  ELSE o.leaves

\* And the quote that the pass has planned.
Coming(s, d, q) == IF s = Symbols[pass.next] /\ Planned(d) THEN q ELSE 0

Room(s, d, q) ==
  Signed(s, d) + Open(slots[s][d]) + Coming(s, d, q) <= MaxUnits + 3 * q - 2

GateInv(q) ==
  /\ knobs \in Knobs /\ inventory \in [Syms -> Int]
  /\ \A d \in Sides : Planned(d) => pass.plan[d].qty \in 0..q
  /\ \A s \in Syms, d \in Sides : Sized(slots[s][d], q) /\ Room(s, d, q)

\* What a slot can still trade.
LEMMA OpenRange ==
  ASSUME NEW q \in Nat \ {0}, NEW o, Sized(o, q)
  PROVE  Open(o) \in 0..(2 * q - 1)
BY DEF Sized, Open

\* A request adds at most its size, and a cancel nothing.
LEMMA SendSized ==
  ASSUME NEW q \in Nat \ {0}, NEW o, Sized(o, q), NEW price, NEW qty \in 0..q
  PROVE  /\ Sized(sendOrder(o, price, qty), q)
         /\ Open(sendOrder(o, price, qty)) <= Open(o) + q
         /\ price = 0 => Open(sendOrder(o, price, qty)) = Open(o)
<1>1. \/ sendOrder(o, price, qty) = o
      \/ o.req = "none" /\ sendOrder(o, price, qty) = Request(o, "X", price, qty)
      \/ /\ o.req = "none" /\ o.leaves = 0 /\ price # 0 /\ qty # 0
         /\ sendOrder(o, price, qty) = Request(o, "N", price, qty)
      \/ /\ o.req = "none" /\ o.leaves # 0 /\ price # 0 /\ qty # 0
         /\ sendOrder(o, price, qty) = Request(o, "R", price, qty)
  BY DEF sendOrder, Request
<1>2. \A k : /\ Request(o, k, price, qty).leaves = o.leaves /\ Request(o, k, price, qty).req = k
             /\ Request(o, k, price, qty).reqQty = qty
  BY DEF Request
<1> QED BY <1>1, <1>2 DEF Sized, Open

\* Only Begin(), Look(), Judge() and Act() change the plan, only Look() adds to it,
\* and then the position was inside the gate.
LEMMA LookGated ==
  ASSUME Control, NEW t, Look(t), MaxUnits > 0
  PROVE  \A d \in Sides : Planned(d)' =>
           pass'.plan[d].qty = 0 /\ (IF d = "buy" THEN inventory[Symbols[pass.next]] < MaxUnits
                                     ELSE inventory[Symbols[pass.next]] > -MaxUnits)
<1> DEFINE s == Symbols[pass.next]
<1>1. CASE Pulled(t)
  <2>1. pass'.plan = [d \in Sides |-> Cancel]
    BY <1>1 DEF Look, Control, Both
  <2> QED BY <2>1 DEF Planned, Cancel
<1>2. CASE ~ Pulled(t)
  <2> DEFINE f == [d \in Sides |-> Plan(t, d, inventory[s])]
  <2>1. pass'.plan = f
    BY <1>2 DEF Look, Control
  <2>2. ASSUME NEW d \in Sides, f[d].act = "quote"
        PROVE  f[d].qty = 0 /\ (IF d = "buy" THEN inventory[s] < MaxUnits ELSE inventory[s] > -MaxUnits)
    <3>1. PICK price : f[d] = IF Allowed(d, price, inventory[s]) THEN Quote(price, 0) ELSE Cancel
      BY DEF Plan
    <3>2. Cancel.act = "cancel" /\ Quote(price, 0).qty = 0
      BY DEF Cancel, Quote
    <3>3. Allowed(d, price, inventory[s]) /\ f[d].qty = 0
      BY <2>2, <3>1, <3>2
    <3> QED BY <3>3 DEF Allowed
  <2> HIDE DEF f
  <2> QED BY <2>1, <2>2 DEF Planned
<1> QED BY <1>1, <1>2

\* The quantity of a judged quote.
LEMMA JudgeSized ==
  ASSUME Control, Judge, NEW q, Largest(q), knobs \in Knobs
  PROVE  \A d \in Sides : Planned(d)' => pass'.plan[d].qty \in 0..q
<1> DEFINE n == knobs.lots * Lot
           f == [d \in Sides |-> Judged(pass.plan[d], rejects[Symbols[pass.next]][d])]
<1>1. knobs.lots \in Nat /\ Lot \in Nat
  BY IrageAssumption
<1>2. n \in Nat
  BY <1>1
<1>3. n \in 0..q
  BY <1>2 DEF Largest
<1>4. pass'.plan = f
  BY DEF Judge, Control
<1>5. \A d \in Sides : f[d].act = "quote" => f[d].qty = n
  BY DEF Judged, Cancel, Leave, Quote
<1> HIDE DEF f, n
<1> QED BY <1>3, <1>4, <1>5 DEF Planned

\* A step of SEND that sends nothing: the plan gets smaller, or there is room.
LEMMA GatePass ==
  ASSUME NEW q, Largest(q), GateInv(q), MaxUnits \in Nat,
         UNCHANGED <<slots, inventory, knobs>>,
         \A d \in Sides : Planned(d)' => pass'.plan[d].qty \in 0..q,
         \A s \in Syms, d \in Sides : Coming(s, d, q)' # 0 =>
           Coming(s, d, q) = q \/ Signed(s, d) < MaxUnits
  PROVE  GateInv(q)'
<1>1. ASSUME NEW s \in Syms, NEW d \in Sides PROVE Room(s, d, q)'
  <2>1. Open(slots[s][d])' = Open(slots[s][d]) /\ Signed(s, d)' = Signed(s, d)
    BY DEF Open, Signed
  <2>2. Open(slots[s][d]) \in 0..(2 * q - 1) /\ Signed(s, d) \in Int /\ q \in Nat \ {0}
    BY OpenRange DEF GateInv, Signed, Largest
  <2>3. Coming(s, d, q)' \in {0, q} /\ Coming(s, d, q) \in {0, q}
    BY DEF Coming
  <2>4. Signed(s, d) + Open(slots[s][d]) + Coming(s, d, q) <= MaxUnits + 3 * q - 2
    BY DEF GateInv, Room
  <2>5. Signed(s, d) + Open(slots[s][d]) + Coming(s, d, q)' <= MaxUnits + 3 * q - 2
    BY <2>2, <2>3, <2>4
  <2> QED BY <2>1, <2>5 DEF Room
<1>2. \A s \in Syms, d \in Sides : Sized(slots[s][d], q)'
  BY DEF GateInv, Sized
<1> QED BY <1>1, <1>2 DEF GateInv

\* One side is dealt with: what was coming is now open, or was not sent.
LEMMA GateAct ==
  ASSUME IrageInv, Act, NEW q, Largest(q), GateInv(q), MaxUnits \in Nat
  PROVE  GateInv(q)'
<1> DEFINE s == Symbols[pass.next]
           d == pass.at
           p == pass.plan[d]
           o == slots[s][d]
           new == IF p.act = "cancel" THEN CancelSide(o)
                  ELSE IF p.act = "quote" THEN QuoteSide(o, p.price, p.qty) ELSE o
<1>1. /\ d \in Sides /\ s \in Syms
      /\ \A e \in Sides : Planned(e)' => Planned(e) /\ e # d /\ pass'.next = pass.next
  BY ActPass DEF IrageInv
<1>2. slots' = [slots EXCEPT ![s][d] = new] /\ UNCHANGED <<inventory, knobs>>
  BY DEF Act, recvVars, updtVars
<1>3. q \in Nat \ {0} /\ Sized(o, q) /\ (Planned(d) => p.qty \in 0..q)
  BY <1>1 DEF GateInv, Largest
<1>4. \A e \in Sides : Planned(e)' => pass'.plan[e] = pass.plan[e]
  <2>1. pass' = (IF d = "buy" THEN [pass EXCEPT !.at = "sell", !.plan[d] = Leave]
                 ELSE IF pass.next = Len(Symbols) THEN Idle
                 ELSE At(pass.mode, pass.next + 1, pass.opsOk))
    BY DEF Act
  <2>2. CASE d = "buy"
    <3>1. pass' = [pass EXCEPT !.at = "sell", !.plan[d] = Leave]
      BY <2>1, <2>2
    <3>2. pass'.plan = [pass.plan EXCEPT ![d] = Leave]
      BY <3>1 DEF IrageInv, Control
    <3> QED BY <1>1, <3>2 DEF IrageInv, Control
  <2>3. CASE d # "buy"
    <3>1. \E m, i, ops : pass' = At(m, i, ops)
      BY <2>1, <2>3 DEF Idle
    <3>2. \A e \in Sides : ~ Planned(e)'
      BY <3>1 DEF At, Both, Planned, Cancel, Leave
    <3> QED BY <3>2
  <2> QED BY <2>2, <2>3
<1>5. Sized(new, q) /\ Open(new) <= Open(o) + Coming(s, d, q)
  <2> HIDE DEF o
  <2>1. Open(o) \in 0..(2 * q - 1)
    BY <1>3, OpenRange
  <2>2. CASE p.act = "cancel"
    <3>1. new = o \/ new = sendOrder(o, 0, 0)
      BY <2>2 DEF CancelSide
    <3>2. 0 \in 0..q
      BY <1>3
    <3>3. Sized(new, q) /\ Open(new) = Open(o)
      BY <1>3, <3>1, <3>2, SendSized
    <3> QED BY <1>3, <2>1, <3>3 DEF Coming
  <2>3. CASE p.act = "quote"
    <3>1. new = sendOrder(o, p.price, p.qty) /\ Planned(d)
      BY <2>3 DEF QuoteSide, Planned
    <3> HIDE DEF new, p
    <3>2. Sized(new, q) /\ Open(new) <= Open(o) + q
      BY <1>3, <3>1, SendSized
    <3> QED BY <3>1, <3>2 DEF Coming
  <2>4. CASE p.act # "cancel" /\ p.act # "quote"
    <3>1. new = o
      BY <2>4
    <3> QED BY <1>3, <2>1, <3>1 DEF Coming
  <2> QED BY <2>2, <2>3, <2>4
<1> HIDE DEF new, s, d
<1>6. \A x \in Syms, e \in Sides : slots'[x][e] = IF x = s /\ e = d THEN new ELSE slots[x][e]
  BY <1>1, <1>2 DEF IrageInv, Shape
<1>7. ASSUME NEW x \in Syms, NEW e \in Sides PROVE Sized(slots[x][e], q)' /\ Room(x, e, q)'
  <2>1. Sized(slots[x][e], q)'
    BY <1>5, <1>6 DEF GateInv, Sized
  <2>2. Signed(x, e)' = Signed(x, e) /\ Signed(x, e) \in Int
    BY <1>2 DEF Signed, GateInv
  <2>3. /\ Open(slots[x][e]) \in 0..(2 * q - 1) /\ Open(slots[x][e])' = Open(slots'[x][e])
        /\ Open(slots'[x][e]) \in 0..(2 * q - 1)
    BY <1>3, <1>5, <1>6, OpenRange DEF GateInv, Open
  <2>4. Coming(x, e, q)' \in {0, q} /\ Coming(x, e, q) \in {0, q}
    BY DEF Coming
  <2>5. Signed(x, e) + Open(slots[x][e]) + Coming(x, e, q) <= MaxUnits + 3 * q - 2
    BY DEF GateInv, Room
  <2>6. CASE x = s /\ e = d
    <3>1. Coming(x, e, q)' = 0
      BY <1>1, <2>6 DEF Coming
    <3>2. Open(slots'[x][e]) <= Open(slots[x][e]) + Coming(x, e, q)
      BY <1>5, <1>6, <2>6
    <3>3. Signed(x, e) + Open(slots'[x][e]) + 0 <= MaxUnits + 3 * q - 2
      BY <1>3, <2>2, <2>3, <2>4, <2>5, <3>2
    <3> QED BY <2>1, <2>2, <2>3, <3>1, <3>3 DEF Room
  <2>7. CASE ~ (x = s /\ e = d)
    <3>1. Coming(x, e, q)' = 0 \/ Coming(x, e, q)' = Coming(x, e, q)
      BY <1>1 DEF Coming, s
    <3>2. Open(slots'[x][e]) = Open(slots[x][e])
      BY <1>6, <2>7
    <3>3. Signed(x, e) + Open(slots[x][e]) + Coming(x, e, q)' <= MaxUnits + 3 * q - 2
      BY <1>3, <2>2, <2>3, <2>4, <2>5, <3>1
    <3> QED BY <2>1, <2>2, <2>3, <3>2, <3>3 DEF Room
  <2> QED BY <2>6, <2>7
<1>8. \A e \in Sides : Planned(e)' => pass'.plan[e].qty \in 0..q
  BY <1>1, <1>4 DEF GateInv
<1> QED BY <1>2, <1>7, <1>8 DEF GateInv

\* An answer of the exchange: what is traded was open, and nothing is opened.
LEMMA GateAnswer ==
  ASSUME IrageInv, NEW q, Largest(q), GateInv(q), MaxUnits \in Nat,
         NEW s \in Syms, NEW d \in Sides, NEW to, Sized(to, q), NEW n \in Nat, NEW kind,
         Answer(s, d, to, kind), Open(to) + n <= Open(slots[s][d]),
         inventory' = [inventory EXCEPT ![s] = @ + IF d = "buy" THEN n ELSE -n]
  PROVE  GateInv(q)'
<1>1. q \in Nat \ {0} /\ UNCHANGED <<pass, knobs>>
  BY DEF Largest, Answer, updtVars
<1>2. \A x \in Syms, e \in Sides : slots'[x][e] = IF x = s /\ e = d THEN to ELSE slots[x][e]
  BY DEF Answer, IrageInv, Shape
<1>3. inventory' \in [Syms -> Int]
  BY DEF GateInv
<1>4. ASSUME NEW x \in Syms, NEW e \in Sides PROVE Sized(slots[x][e], q)' /\ Room(x, e, q)'
  <2>1. Sized(slots[x][e], q)'
    BY <1>2 DEF GateInv, Sized
  <2>2. /\ Open(slots[x][e]) \in 0..(2 * q - 1) /\ Open(slots[x][e])' = Open(slots'[x][e])
        /\ Open(to) \in 0..(2 * q - 1)
    BY <1>1, OpenRange DEF GateInv, Open
  <2>3. Coming(x, e, q)' = Coming(x, e, q) /\ Coming(x, e, q) \in {0, q}
    BY <1>1 DEF Coming, Planned
  <2>4. Signed(x, e) + Open(slots[x][e]) + Coming(x, e, q) <= MaxUnits + 3 * q - 2
    BY DEF GateInv, Room
  <2>5. Signed(x, e) \in Int /\ Signed(x, e)' \in Int
    BY <1>3 DEF GateInv, Signed
  <2>6. Signed(x, e)' = IF x # s THEN Signed(x, e) ELSE IF e = d THEN Signed(x, e) + n ELSE Signed(x, e) - n
    BY DEF GateInv, Signed, Sides
  <2>7. Signed(x, e)' + Open(slots'[x][e]) + Coming(x, e, q) <= MaxUnits + 3 * q - 2
    <3>1. CASE x = s /\ e = d
      <4>1. Open(slots'[x][e]) + n <= Open(slots[x][e]) /\ Open(slots'[x][e]) \in Nat
        BY <1>2, <2>2, <3>1
      <4> QED BY <1>1, <2>2, <2>3, <2>4, <2>5, <2>6, <3>1, <4>1
    <3>2. CASE ~ (x = s /\ e = d)
      <4>1. slots'[x][e] = slots[x][e]
        BY <1>2, <3>2
      <4> QED BY <1>1, <2>2, <2>3, <2>4, <2>5, <2>6, <3>2, <4>1
    <3> QED BY <3>1, <3>2
  <2> QED BY <2>1, <2>2, <2>3, <2>7 DEF Room
<1> QED BY <1>1, <1>3, <1>4 DEF GateInv, Planned

LEMMA GateInitial ==
  ASSUME Init, NEW q, Largest(q), MaxUnits \in Nat \ {0}
  PROVE  GateInv(q)
<1>1. q \in Nat \ {0} /\ NoSlot.leaves = 0 /\ NoSlot.reqQty = 0 /\ NoSlot.req = "none"
  BY DEF Largest, NoSlot, Standing
<1>2. Sized(NoSlot, q) /\ Open(NoSlot) = 0
  BY <1>1 DEF Sized, Open
<1>3. \A d \in Sides : ~ Planned(d)
  BY DEF Init, Idle, At, Both, Leave, Planned
<1>4. \A s \in Syms, d \in Sides : slots[s][d] = NoSlot /\ inventory[s] = 0
  BY DEF Init, Both
<1>5. \A s \in Syms, d \in Sides : Room(s, d, q)
  <2> SUFFICES ASSUME NEW s \in Syms, NEW d \in Sides PROVE Room(s, d, q)
    OBVIOUS
  <2>1. Signed(s, d) = 0 /\ Open(slots[s][d]) = 0 /\ Coming(s, d, q) = 0
    BY <1>2, <1>3, <1>4 DEF Signed, Coming
  <2>2. 0 + 0 + 0 <= MaxUnits + 3 * q - 2
    BY <1>1
  <2> QED BY <2>1, <2>2 DEF Room
<1>6. knobs \in Knobs /\ inventory \in [Syms -> Int]
  BY DEF Init
<1> QED BY <1>2, <1>3, <1>4, <1>5, <1>6 DEF GateInv

LEMMA GateStep ==
  ASSUME IrageInv, [Next]_vars, NEW q, Largest(q), GateInv(q), MaxUnits \in Nat \ {0}
  PROVE  GateInv(q)'
<1>0. q \in Nat \ {0} /\ Control /\ 1 \in 1..Len(Symbols)
  BY IrageAssumption DEF Largest, IrageInv
<1>1. CASE Begin
  <2>1. UNCHANGED <<slots, inventory, knobs>>
    BY <1>1 DEF Begin, recvVars, updtVars
  <2>2. PICK mode \in {"sweep", "quote"}, ops \in BOOLEAN : pass' = At(mode, 1, ops)
    BY <1>1 DEF Begin
  <2>3. \A d \in Sides : ~ Planned(d)'
    BY <1>0, <2>2, AtStart
  <2> QED BY <2>1, <2>3, GatePass DEF Coming
<1>2. ASSUME NEW t \in Mticks, Look(t) PROVE GateInv(q)'
  <2>1. UNCHANGED <<slots, inventory, knobs>>
    BY <1>2 DEF Look, recvVars, updtVars
  <2>2. pass'.next = pass.next /\ Symbols[pass.next] \in Syms
    BY <1>0, <1>2, LookPass, IrageAssumption DEF Control, Syms
  <2>3. \A d \in Sides : Planned(d)' =>
          pass'.plan[d].qty = 0 /\ (IF d = "buy" THEN inventory[Symbols[pass.next]] < MaxUnits
                                    ELSE inventory[Symbols[pass.next]] > -MaxUnits)
    BY <1>0, <1>2, LookGated
  <2>4. \A d \in Sides : Planned(d)' => pass'.plan[d].qty \in 0..q
    BY <1>0, <2>3
  <2>5. \A s \in Syms, d \in Sides : Coming(s, d, q)' # 0 => Signed(s, d) < MaxUnits
    <3> SUFFICES ASSUME NEW s \in Syms, NEW d \in Sides, Coming(s, d, q)' # 0
                 PROVE  Signed(s, d) < MaxUnits
      OBVIOUS
    <3>1. s = Symbols[pass.next] /\ Planned(d)'
      BY <2>2 DEF Coming
    <3>2. inventory[s] \in Int
      BY DEF GateInv
    <3> QED BY <2>3, <3>1, <3>2 DEF Signed
  <2> QED BY <2>1, <2>4, <2>5, GatePass
<1>3. CASE Judge
  <2>1. UNCHANGED <<slots, inventory, knobs>> /\ knobs \in Knobs
    BY <1>3 DEF Judge, recvVars, updtVars, GateInv
  <2>2. pass'.next = pass.next /\ \A d \in Sides : Planned(d)' => Planned(d)
    BY <1>0, <1>3, JudgePass
  <2>3. \A d \in Sides : Planned(d)' => pass'.plan[d].qty \in 0..q
    BY <1>0, <1>3, <2>1, JudgeSized
  <2>4. \A s \in Syms, d \in Sides : Coming(s, d, q)' # 0 => Coming(s, d, q) = q
    BY <2>2 DEF Coming
  <2> QED BY <2>1, <2>3, <2>4, GatePass
<1>4. CASE Act
  BY <1>4, GateAct
<1>5. CASE Callback \/ Clock \/ UNCHANGED vars
  <2>1. UNCHANGED <<slots, inventory, knobs, pass>>
    BY <1>5 DEF Callback, onAck, onExec, onRej, Called, Clock, vars, sendVars, recvVars, updtVars
  <2> QED BY <2>1 DEF GateInv, Planned, Sized, Room, Signed, Open, Coming
<1>6. ASSUME NEW on \in BOOLEAN, NEW k \in Knobs, update(on, k) PROVE GateInv(q)'
  <2>1. UNCHANGED <<slots, inventory, pass>> /\ knobs' \in Knobs
    BY <1>6 DEF update, recvVars
  <2> QED BY <2>1 DEF GateInv, Planned, Sized, Room, Signed, Open, Coming
<1>7. ASSUME NEW s \in Syms, NEW d \in Sides PROVE Sized(slots[s][d], q)
  BY DEF GateInv
<1>8. \A price, l : l \in 0..q => Sized(Standing(price, l), q) /\ Open(Standing(price, l)) = l
  BY <1>0 DEF Standing, Sized, Open
<1>9. 0 \in 0..q /\ NoSlot = Standing(0, 0)
  BY <1>0 DEF NoSlot
<1>10. ASSUME NEW s \in Syms, UNCHANGED inventory
       PROVE  \A d \in Sides : inventory' = [inventory EXCEPT ![s] = @ + IF d = "buy" THEN 0 ELSE -0]
  BY <1>10 DEF GateInv
<1>11. ASSUME NEW s \in Syms, NEW d \in Sides, Accept(s, d) PROVE GateInv(q)'
  <2> DEFINE o == slots[s][d]
  <2>1. Sized(o, q) /\ UNCHANGED inventory
    BY <1>7, <1>11 DEF Accept
  <2>2. PICK to, kind : /\ Answer(s, d, to, kind)
                        /\ \/ o.req = "X" /\ to = NoSlot
                           \/ /\ o.req = "N" \/ (o.req = "R" /\ o.leaves > 0)
                              /\ to = Standing(o.reqPrice, o.reqQty)
    BY <1>11 DEF Accept
  <2> HIDE DEF o
  <2>3. Sized(to, q) /\ Open(to) + 0 <= Open(o)
    <3>1. o.reqQty \in 0..q /\ o.leaves \in 0..q /\ Open(o) \in Nat
      BY <1>0, <2>1, OpenRange DEF Sized
    <3>2. \/ to = NoSlot
          \/ to = Standing(o.reqPrice, o.reqQty) /\ o.reqQty <= Open(o)
      BY <2>2, <3>1 DEF Open
    <3> QED BY <1>8, <1>9, <3>1, <3>2
  <2>4. Sized(to, q) /\ Open(to) + 0 <= Open(slots[s][d])
    BY <2>3 DEF o
  <2> QED BY <1>10, <2>1, <2>2, <2>4, GateAnswer
<1>12. ASSUME NEW s \in Syms, NEW d \in Sides, Refuse(s, d) PROVE GateInv(q)'
  <2> DEFINE o == slots[s][d]
             to == IF o.leaves = 0 THEN NoSlot ELSE Standing(o.price, o.leaves)
  <2>1. Sized(o, q) /\ UNCHANGED inventory /\ o.req \in {"N", "R"} /\ Answer(s, d, to, "rej")
    BY <1>7, <1>12 DEF Refuse
  <2> HIDE DEF o
  <2>2. Sized(to, q) /\ Open(to) + 0 <= Open(o)
    BY <1>0, <1>8, <1>9, <2>1 DEF Sized, Open
  <2> HIDE DEF to
  <2>3. Sized(to, q) /\ Open(to) + 0 <= Open(slots[s][d])
    BY <2>2 DEF o
  <2> QED BY <1>10, <2>1, <2>3, GateAnswer
<1>13. ASSUME NEW s \in Syms, NEW d \in Sides, NEW qty, Fill(s, d, qty) PROVE GateInv(q)'
  <2> DEFINE o == slots[s][d]
             left == [price |-> o.price, leaves |-> o.leaves - qty,
                      req |-> o.req, reqPrice |-> o.reqPrice, reqQty |-> o.reqQty]
             to == IF left.leaves = 0 /\ o.req = "none" THEN NoSlot ELSE left
  <2>1. /\ Sized(o, q) /\ qty \in 1..o.leaves /\ Answer(s, d, to, "exec")
        /\ inventory' = [inventory EXCEPT ![s] = @ + IF d = "buy" THEN qty ELSE -qty]
    BY <1>7, <1>13 DEF Fill
  <2> HIDE DEF o
  <2>2. qty \in Nat \ {0} /\ qty <= o.leaves /\ o.leaves \in 0..q
    BY <2>1 DEF Sized
  <2>3. /\ left.leaves = o.leaves - qty /\ left.req = o.req /\ left.reqQty = o.reqQty
    OBVIOUS
  <2> HIDE DEF left
  <2>4. Sized(left, q) /\ Open(left) + qty <= Open(o)
    BY <1>0, <2>1, <2>2, <2>3 DEF Sized, Open
  <2>5. Sized(to, q) /\ Open(to) + qty <= Open(o)
    <3>1. CASE left.leaves = 0 /\ o.req = "none"
      <4>1. to = NoSlot /\ Sized(NoSlot, q) /\ Open(NoSlot) = 0
        BY <1>8, <1>9, <3>1
      <4> QED BY <2>2, <2>3, <3>1, <4>1 DEF Open
    <3>2. CASE ~ (left.leaves = 0 /\ o.req = "none")
      BY <2>4, <3>2
    <3> QED BY <3>1, <3>2
  <2> HIDE DEF to
  <2>6. Sized(to, q) /\ Open(to) + qty <= Open(slots[s][d])
    BY <2>5 DEF o
  <2> QED BY <2>1, <2>2, <2>6, GateAnswer
<1> QED
  BY <1>1, <1>2, <1>3, <1>4, <1>5, <1>6, <1>11, <1>12, <1>13 DEF Next, Send

\* The position gates (mystrat.cpp:212-219), for every maximum, every set of quote
\* sizes and however fills fall between the look at the inventory and the order: a
\* side passes the maximum by less than three quotes of the largest size.
THEOREM InventoryStaysBounded == Spec => []InventoryBound
<1> DEFINE Gated == MaxUnits \in Nat \ {0} => \A q : Largest(q) => GateInv(q)
<1>1. Init => Gated
  BY GateInitial
<1>2. IrageInv /\ Gated /\ [Next]_vars => Gated'
  <2> SUFFICES ASSUME IrageInv, Gated, [Next]_vars, MaxUnits \in Nat \ {0}, NEW q, Largest(q)
               PROVE  GateInv(q)'
    BY DEF MaxUnits, Largest
  <2> QED BY GateStep
<1>3. Gated => InventoryBound
  <2> SUFFICES ASSUME Gated, MaxUnits > 0, NEW k \in Knobs,
                      k.lots * Lot > 0, \A j \in Knobs : j.lots * Lot <= k.lots * Lot,
                      NEW s \in Syms
               PROVE  /\ inventory[s] <= MaxUnits + 3 * (k.lots * Lot) - 2
                      /\ -inventory[s] <= MaxUnits + 3 * (k.lots * Lot) - 2
    BY DEF InventoryBound
  <2> DEFINE q == k.lots * Lot
  <2>1. MaxInventory \in Nat /\ Lot \in Nat /\ k.lots \in Nat
    BY IrageAssumption
  <2>2. MaxUnits \in Nat /\ q \in Nat
    BY <2>1 DEF MaxUnits
  <2>3. Largest(q) /\ q \in Nat \ {0} /\ MaxUnits \in Nat \ {0}
    BY <2>2 DEF Largest
  <2>4. GateInv(q)
    BY <2>3
  <2> HIDE DEF q
  <2>5. inventory[s] \in Int /\ Room(s, "buy", q) /\ Room(s, "sell", q)
    BY <2>4 DEF GateInv, Sides
  <2>6. Open(slots[s]["buy"]) \in Nat /\ Open(slots[s]["sell"]) \in Nat
    BY <2>3, <2>4, OpenRange DEF GateInv, Sides
  <2>7. Coming(s, "buy", q) \in Nat /\ Coming(s, "sell", q) \in Nat
    BY <2>3 DEF Coming
  <2>8. /\ inventory[s] + Open(slots[s]["buy"]) + Coming(s, "buy", q) <= MaxUnits + 3 * q - 2
        /\ -inventory[s] + Open(slots[s]["sell"]) + Coming(s, "sell", q) <= MaxUnits + 3 * q - 2
    BY <2>5 DEF Room, Signed
  <2>9. inventory[s] <= MaxUnits + 3 * q - 2 /\ -inventory[s] <= MaxUnits + 3 * q - 2
    BY <2>3, <2>5, <2>6, <2>7, <2>8
  <2> QED BY <2>9 DEF q
<1> HIDE DEF Gated
<1> QED BY <1>1, <1>2, <1>3, IrageInitial, IrageStep, PTL DEF Spec
==============================================================================
