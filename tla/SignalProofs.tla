---------------------------- MODULE SignalProofs ------------------------------
(***************************************************************************)
(* Proofs about Backtest and about PaperCycles.                            *)
(*                                                                         *)
(* Backtest: every property the run checks, for any number of ledgers,     *)
(* bars, returns, costs and any delay of at least one bar.  Quotients are  *)
(* compared by cross-multiplication, so the arithmetic comes first, as     *)
(* lemmas on integers; the inductive invariant then adds to the properties *)
(* what one bar needs: where positions come from, that equity is positive  *)
(* exactly while solvent, that the peak bounds the curve, and that the     *)
(* worst drawdown is at least the current one.                             *)
(*                                                                         *)
(* PaperCycles: every safety property the run checks, for any processes,   *)
(* bundle names and files, and any bounds.  Its invariant says of every    *)
(* operation where it is, what it holds and what it has read (Sound); one  *)
(* lemma per action shows that it stays so for the process that moves and, *)
(* with OthersStaySound, for all the others.                               *)
(***************************************************************************)
EXTENDS Backtest, PaperCycles, TLAPS

(* A factor that is not negative keeps an order. *)
LEMMA Scaled ==
    ASSUME NEW x \in Int, NEW y \in Int, NEW z \in Nat, x <= y
    PROVE  x * z <= y * z
  OBVIOUS

(* A positive factor can be cancelled from an order. *)
LEMMA Cancel ==
    ASSUME NEW x \in Int, NEW y \in Int, NEW d \in Nat \ {0}, x * d <= y * d
    PROVE  x <= y
<1> SUFFICES ASSUME y + 1 <= x PROVE FALSE
  OBVIOUS
<1>1. (y + 1) * d <= x * d
  BY Scaled
<1>2. (y + 1) * d = y * d + d
  OBVIOUS
<1> QED
  BY <1>1, <1>2

(* An order of factors is an order of products. *)
LEMMA Products ==
    ASSUME NEW x \in Nat, NEW y \in Nat, NEW u \in Nat, NEW v \in Nat,
           x <= y, u <= v
    PROVE  x * u <= y * v
<1>1. x * u <= y * u
  BY Scaled
<1>2. u * y <= v * y
  BY Scaled
<1> QED
  BY <1>1, <1>2

(* Quotients: a/b <= c/d and c/d <= e/f give a/b <= e/f. *)
LEMMA QuotientsCompose ==
    ASSUME NEW a \in Nat, NEW b \in Nat, NEW c \in Nat, NEW d \in Nat \ {0},
           NEW e \in Nat, NEW f \in Nat, a * d <= c * b, c * f <= e * d
    PROVE  a * f <= e * b
<1>1. (a * d) * f <= (c * b) * f
  BY Scaled
<1>2. (c * f) * b <= (e * d) * b
  BY Scaled
<1>3. (a * d) * f = (a * f) * d /\ (c * b) * f = (c * f) * b /\ (e * d) * b = (e * b) * d
  OBVIOUS
<1>4. (a * f) * d <= (e * b) * d
  BY <1>1, <1>2, <1>3
<1> QED
  BY <1>4, Cancel, a * f \in Int, e * b \in Int

(* A product of naturals is a natural, positive when its factors are.       *)
LEMMA NatProduct ==
    ASSUME NEW x \in Nat, NEW y \in Nat
    PROVE  /\ x * y \in Nat
           /\ x # 0 /\ y # 0 => x * y # 0
  OBVIOUS

(* A quotient is below another exactly when it is not above it.            *)
LEMMA DeepestFacts ==
    ASSUME NEW w \in [equity : Nat, peak : Nat \ {0}],
           NEW e \in Nat, NEW p \in Nat \ {0}
    PROVE  LET d == Deepest(w, e, p) IN
           /\ d \in [equity : Nat, peak : Nat \ {0}]
           /\ d = w \/ (d.equity = e /\ d.peak = p)
           /\ d.equity * w.peak <= w.equity * d.peak
           /\ d.equity * p <= e * d.peak
<1> DEFINE now == [equity |-> e, peak |-> p]
<1>1. now \in [equity : Nat, peak : Nat \ {0}] /\ now.equity = e /\ now.peak = p
  OBVIOUS
<1>2. CASE Deeper(now, w)
  BY <1>1, <1>2 DEF Deepest, Deeper
<1>3. CASE ~Deeper(now, w)
  BY <1>1, <1>3 DEF Deepest, Deeper
<1> QED
  BY <1>2, <1>3

(* The signal of any probability. *)
LEMMA SignalType == \A p : Signal(p) \in {-1, 0, 1}
  BY DEF Signal

(* A position is a signal, or flat before the first delayed one. *)
LEMMA PositionType ==
    ASSUME NEW s \in Seq({-1, 0, 1}), NEW n \in Nat, n <= Len(s) + 1
    PROVE  PositionAt(s, n) \in {-1, 0, 1}
<1>1. CASE n > Delay
  <2>1. n - Delay \in 1 .. Len(s)
    BY <1>1, DelayAssumption
  <2> QED
    BY <1>1, <2>1 DEF PositionAt
<1>2. CASE ~(n > Delay)
  BY <1>2 DEF PositionAt
<1> QED
  BY <1>1, <1>2

(* Costs are never negative, and a higher multiplier never leaves more.     *)
LEMMA HigherCosts ==
    ASSUME NEW from \in {-1, 0, 1}, NEW to \in {-1, 0, 1}, NEW r \in Returns,
           NEW m \in Multipliers, NEW n \in Multipliers
    PROVE  /\ Change(from, to) \in Nat
           /\ RawNet(from, to, r, m) \in Int
           /\ m <= n => RawNet(from, to, r, n) <= RawNet(from, to, r, m)
<1> DEFINE c == Change(from, to)
<1>1. c \in Nat
  BY DEF Change, Abs
<1>2. r \in Int /\ m \in Nat /\ n \in Nat /\ Rate \in Nat
  BY AmountAssumption
<1>3. Rate * m \in Nat /\ Rate * n \in Nat
  BY <1>2, NatProduct
<1>4. c * (Rate * m) \in Nat /\ c * (Rate * n) \in Nat
  BY <1>1, <1>3, NatProduct
<1>5. to * r \in Int
  BY <1>2
<1>6. ASSUME m <= n PROVE c * (Rate * m) <= c * (Rate * n)
  <2>1. Rate * m <= Rate * n
    BY <1>2, <1>6, Products
  <2> QED
    BY <1>1, <1>3, <2>1, Products
<1> HIDE DEF c
<1>7. RawNet(from, to, r, m) = to * r - c * (Rate * m)
      /\ RawNet(from, to, r, n) = to * r - c * (Rate * n)
  BY DEF RawNet, c
<1> QED
  BY <1>1, <1>4, <1>5, <1>6, <1>7 DEF c

(* What is left of a solvent ledger's equity is positive.                   *)
LEMMA Compounded ==
    ASSUME NEW e \in Nat \ {0}, NEW raw \in Int, ~Ruined(e, raw)
    PROVE  Unit + raw \in Nat \ {0} /\ e * (Unit + raw) \in Nat \ {0}
<1>1. Unit + raw \in Nat \ {0}
  BY AmountAssumption DEF Ruined
<1> QED
  BY <1>1, NatProduct

(* A ledger is ruined exactly when the return takes all of its equity.      *)
LEMMA RuinIsLoss ==
    ASSUME NEW e \in Nat \ {0}, NEW raw \in Int
    PROVE  Ruined(e, raw) <=> raw <= -Unit
<1>1. ASSUME ~(raw <= -Unit) PROVE ~(e * (Unit + raw) <= 0)
  <2>1. Unit + raw \in Nat \ {0}
    BY <1>1, AmountAssumption
  <2> QED
    BY <2>1, NatProduct
<1> QED
  BY <1>1 DEF Ruined

----------------------------------------------------------------------------
(* The first bar finds everything flat. *)
LEMMA LedgersOpen == Opening => LedgerInv
<1> SUFFICES ASSUME Opening PROVE LedgerInv
  OBVIOUS
<1> USE DEF Opening
<1>1. LedgerTypes
  BY DEF LedgerTypes
<1>2. \A l \in Ledgers : /\ position[l] = PositionAt(signal[l], bar)
                         /\ Solvent(l) /\ PeakIsHighest(l) /\ WorstIsDeepest(l)
  <2> TAKE l \in Ledgers
  <2>1. position[l] = PositionAt(signal[l], bar)
    BY DelayAssumption DEF PositionAt
  <2>2. Solvent(l)
    BY DEF Solvent
  <2>3. curve[l] = [i \in {0} |-> 1] /\ 0 .. bar = {0}
    OBVIOUS
  <2>4. PeakIsHighest(l)
    BY <2>3 DEF PeakIsHighest
  <2>5. worst[l] = [equity |-> 1, peak |-> 1]
    OBVIOUS
  <2>6. WorstIsDeepest(l)
    BY <2>5 DEF WorstIsDeepest
  <2> QED
    BY <2>1, <2>2, <2>4, <2>6
<1>3. EveryDeclineShows
  BY DEF EveryDeclineShows
<1>4. NoLookahead
  BY DEF NoLookahead, Column
<1>5. StressDrawsDown /\ StressNeverBetter
  BY DEF StressDrawsDown, StressNeverBetter, Deeper
<1> QED
  BY <1>1, <1>2, <1>3, <1>4, <1>5 DEF LedgerInv

(* What one bar does to one ledger. *)
LEMMA BarOfLedger ==
    ASSUME LedgerInv, NEW l \in Ledgers, NEW r \in Returns,
           position' = [k \in Ledgers |-> PositionAt(signal'[k], bar + 1)],
           position'[l] \in {-1, 0, 1},
           Compound(r)
    PROVE  /\ Raw(l, r) \in Int
           /\ bankrupt'[l] <=> bankrupt[l] \/ Raw(l, r) <= -Unit
           /\ bankrupt'[l] => equity'[l] = 0
           /\ ~bankrupt'[l] => /\ ~bankrupt[l] /\ equity[l] \in Nat \ {0}
                               /\ Unit + Raw(l, r) \in Nat \ {0}
                               /\ equity'[l] = equity[l] * (Unit + Raw(l, r))
                               /\ equity'[l] \in Nat \ {0}
           /\ equity'[l] \in Nat
           /\ peak[l] * Unit \in Nat \ {0}
           /\ peak'[l] = Larger(peak[l] * Unit, equity'[l])
           /\ peak'[l] \in Nat \ {0}
           /\ peak'[l] >= peak[l] * Unit /\ peak'[l] >= equity'[l]
<1>0. position[l] \in {-1, 0, 1} /\ factor[l] \in Multipliers
  BY DEF LedgerInv, LedgerTypes
<1>1. Raw(l, r) \in Int
  BY <1>0, HigherCosts DEF Raw
<1> USE DEF LedgerInv, LedgerTypes
<1>2. bankrupt'[l] <=> bankrupt[l] \/ Ruined(equity[l], Raw(l, r))
  BY DEF Compound
<1>3. ~bankrupt[l] => equity[l] \in Nat \ {0}
  BY DEF Solvent
<1>4. bankrupt'[l] <=> bankrupt[l] \/ Raw(l, r) <= -Unit
  BY <1>1, <1>2, <1>3, RuinIsLoss
<1>5. equity'[l] = IF bankrupt'[l] THEN 0 ELSE equity[l] * (Unit + Raw(l, r))
  BY DEF Compound
<1>6. ~bankrupt'[l] => /\ ~bankrupt[l] /\ equity[l] \in Nat \ {0}
                       /\ Unit + Raw(l, r) \in Nat \ {0}
                       /\ equity'[l] = equity[l] * (Unit + Raw(l, r))
                       /\ equity'[l] \in Nat \ {0}
  BY <1>1, <1>2, <1>3, <1>5, Compounded
<1>7. equity'[l] \in Nat
  BY <1>5, <1>6
<1>8. peak[l] * Unit \in Nat \ {0}
  BY AmountAssumption, NatProduct
<1>9. peak'[l] = Larger(peak[l] * Unit, equity'[l])
  BY DEF Compound, RunningPeak
<1>10. peak'[l] \in Nat \ {0} /\ peak'[l] >= peak[l] * Unit /\ peak'[l] >= equity'[l]
  BY <1>7, <1>8, <1>9 DEF Larger
<1> QED
  BY <1>1, <1>4, <1>5, <1>6, <1>7, <1>8, <1>9, <1>10

(* Types and columns after one bar. *)
LEMMA BarTypes ==
    ASSUME LedgerInv, Settle
    PROVE  LedgerTypes'
<1> PICK r \in Returns, probability \in [Ledgers -> Probabilities] :
        /\ signal' = [l \in Ledgers |-> Append(signal[l], Signal(probability[l]))]
        /\ position' = [l \in Ledgers |-> PositionAt(signal'[l], bar + 1)]
        /\ Compound(r)
        /\ Count
  BY DEF Settle
<1>1. bar' = bar + 1 /\ scale' = scale * Unit /\ factor' = factor
  BY DEF Settle
<1>2. scale' \in Nat \ {0}
  BY <1>1, NatProduct, AmountAssumption DEF LedgerInv, LedgerTypes
<1>3. /\ signal' \in [Ledgers -> Seq({-1, 0, 1})]
      /\ \A l \in Ledgers : Len(signal'[l]) = bar'
  <2>1. ASSUME NEW l \in Ledgers
        PROVE  /\ Append(signal[l], Signal(probability[l])) \in Seq({-1, 0, 1})
               /\ Len(Append(signal[l], Signal(probability[l]))) = bar'
    <3>1. signal[l] \in Seq({-1, 0, 1}) /\ Len(signal[l]) = bar
      BY DEF LedgerInv, LedgerTypes
    <3>2. Signal(probability[l]) \in {-1, 0, 1}
      BY SignalType
    <3> QED
      BY <1>1, <3>1, <3>2
  <2> QED
    BY <2>1
<1>4. position' \in [Ledgers -> {-1, 0, 1}]
  <2>1. ASSUME NEW l \in Ledgers
        PROVE  PositionAt(signal'[l], bar + 1) \in {-1, 0, 1}
    <3>1. /\ signal'[l] \in Seq({-1, 0, 1}) /\ bar + 1 \in Nat
          /\ bar + 1 <= Len(signal'[l]) + 1
      BY <1>1, <1>3 DEF LedgerInv, LedgerTypes
    <3> QED
      BY <3>1, PositionType
  <2> QED
    BY <2>1
<1>5. \A l \in Ledgers : /\ equity'[l] \in Nat /\ peak'[l] \in Nat \ {0}
  BY <1>4, BarOfLedger
<1>6. equity' \in [Ledgers -> Nat] /\ peak' \in [Ledgers -> Nat \ {0}]
  BY <1>5 DEF Compound
<1>7. bankrupt' \in [Ledgers -> BOOLEAN]
  BY DEF Compound, Ruined, LedgerInv, LedgerTypes
<1>8. curve' \in [Ledgers -> [0 .. bar' -> Nat]]
  <2>1. ASSUME NEW l \in Ledgers, NEW i \in 0 .. bar + 1
        PROVE  (IF i = bar + 1 THEN equity'[l] ELSE curve[l][i] * Unit) \in Nat
    <3>1. CASE i = bar + 1
      BY <1>5, <3>1
    <3>2. CASE i # bar + 1
      <4>1. i \in 0 .. bar
        BY <3>2 DEF LedgerInv, LedgerTypes
      <4>2. curve[l][i] \in Nat
        BY <4>1 DEF LedgerInv, LedgerTypes
      <4> QED
        BY <3>2, <4>2, NatProduct, AmountAssumption
    <3> QED
      BY <3>1, <3>2
  <2>2. curve' = [l \in Ledgers |-> [i \in 0 .. bar + 1 |->
                    IF i = bar + 1 THEN equity'[l] ELSE curve[l][i] * Unit]]
    BY DEF Compound
  <2> QED
    BY <1>1, <2>1, <2>2
<1>9. worst' \in [Ledgers -> [equity : Nat, peak : Nat \ {0}]]
  <2>1. \A l \in Ledgers : Deepest(worst[l], equity'[l], peak'[l])
                              \in [equity : Nat, peak : Nat \ {0}]
    BY <1>5, DeepestFacts DEF LedgerInv, LedgerTypes
  <2>2. worst' = [l \in Ledgers |-> Deepest(worst[l], equity'[l], peak'[l])]
    BY DEF Compound
  <2> QED
    BY <2>1, <2>2
<1>10. \A l \in Ledgers : Change(position[l], position'[l]) \in Nat
  <2> TAKE l \in Ledgers
  <2>1. position[l] \in {-1, 0, 1} /\ position'[l] \in {-1, 0, 1}
    BY <1>4 DEF LedgerInv, LedgerTypes
  <2> QED
    BY <2>1 DEF Change, Abs
<1>11. /\ turnover' \in [Ledgers -> Nat]
       /\ trades' \in [Ledgers -> Nat]
       /\ active' \in [Ledgers -> Nat]
  <2>1. \A l \in Ledgers : turnover[l] \in Nat /\ trades[l] \in Nat /\ active[l] \in Nat
    BY DEF LedgerInv, LedgerTypes
  <2> QED
    BY <1>10, <2>1 DEF Count
<1>12. bar' \in Nat /\ factor' \in [Ledgers -> Multipliers]
  BY <1>1 DEF LedgerInv, LedgerTypes
<1> HIDE DEF Compound, Count
<1> QED
  BY <1>2, <1>3, <1>4, <1>6, <1>7, <1>8, <1>9, <1>11, <1>12 DEF LedgerTypes

(* Each ledger on its own keeps its position, solvency, peak and drawdown.  *)
LEMMA BarColumns ==
    ASSUME LedgerInv, Settle, LedgerTypes', NEW l \in Ledgers
    PROVE  /\ position'[l] = PositionAt(signal'[l], bar')
           /\ Solvent(l)' /\ PeakIsHighest(l)' /\ WorstIsDeepest(l)'
<1> PICK r \in Returns : /\ position' = [k \in Ledgers |-> PositionAt(signal'[k], bar + 1)]
                         /\ Compound(r)
  BY DEF Settle
<1>1. bar' = bar + 1 /\ bar \in Nat /\ Unit \in Nat \ {0}
  BY AmountAssumption DEF Settle, LedgerInv, LedgerTypes
<1>2. position'[l] = PositionAt(signal'[l], bar')
  BY <1>1
<1>3. position'[l] \in {-1, 0, 1}
  BY DEF LedgerTypes
<1>4. Solvent(l)'
  BY <1>3, BarOfLedger DEF Solvent
<1>5. /\ equity'[l] \in Nat /\ peak'[l] \in Nat \ {0}
      /\ peak'[l] >= peak[l] * Unit /\ peak'[l] >= equity'[l]
  BY <1>3, BarOfLedger
<1>6. \A i \in 0 .. bar' :
         curve'[l][i] = IF i = bar + 1 THEN equity'[l] ELSE curve[l][i] * Unit
  BY <1>1 DEF Compound
<1>7. PeakIsHighest(l)'
  <2>1. curve'[l][bar'] = equity'[l]
    BY <1>1, <1>6
  <2>2. ASSUME NEW i \in 0 .. bar', i # bar + 1 PROVE curve'[l][i] <= peak'[l]
    <3>1. i \in 0 .. bar
      BY <1>1, <2>2
    <3>2. curve[l] \in [0 .. bar -> Nat] /\ peak[l] \in Nat
      BY DEF LedgerInv, LedgerTypes
    <3>3. curve[l][i] \in Nat /\ peak[l] \in Nat /\ curve[l][i] <= peak[l]
      BY <3>1, <3>2 DEF LedgerInv, PeakIsHighest
    <3>4. curve[l][i] * Unit <= peak[l] * Unit
      BY <1>1, <3>3, Scaled
    <3>5. curve[l][i] * Unit \in Nat /\ peak[l] * Unit \in Nat
      BY <1>1, <3>3, NatProduct
    <3> QED
      BY <1>5, <1>6, <2>2, <3>4, <3>5
  <2>3. \A i \in 0 .. bar' : curve'[l][i] <= peak'[l]
    BY <1>5, <1>6, <2>2
  <2> QED
    BY <2>1, <2>3 DEF PeakIsHighest
<1>8. worst'[l] = Deepest(worst[l], equity'[l], peak'[l])
  BY DEF Compound
<1>9. WorstIsDeepest(l)'
  <2>1. worst[l] \in [equity : Nat, peak : Nat \ {0}]
    BY DEF LedgerInv, LedgerTypes
  <2>2. worst'[l].equity * peak'[l] <= equity'[l] * worst'[l].peak
    BY <1>5, <1>8, <2>1, DeepestFacts
  <2> QED
    BY <2>2 DEF WorstIsDeepest
<1> QED
  BY <1>2, <1>4, <1>7, <1>9

(* The deepest drawdown stays below every decline, old or new.              *)
LEMMA BarDeclines ==
    ASSUME LedgerInv, Settle, LedgerTypes', \A l \in Ledgers : PeakIsHighest(l)'
    PROVE  EveryDeclineShows'
<1> PICK r \in Returns : /\ position' = [k \in Ledgers |-> PositionAt(signal'[k], bar + 1)]
                         /\ Compound(r)
  BY DEF Settle
<1>1. bar' = bar + 1 /\ bar \in Nat /\ Unit \in Nat \ {0}
  BY AmountAssumption DEF Settle, LedgerInv, LedgerTypes
<1> SUFFICES ASSUME NEW l \in Ledgers, NEW j \in 0 .. bar', NEW i \in 0 .. j
             PROVE  worst'[l].equity * curve'[l][i] <= curve'[l][j] * worst'[l].peak
  BY DEF EveryDeclineShows
<1> DEFINE d == worst'[l]
           w == worst[l]
<1>2. /\ d \in [equity : Nat, peak : Nat \ {0}] /\ w \in [equity : Nat, peak : Nat \ {0}]
      /\ equity'[l] \in Nat /\ peak'[l] \in Nat \ {0}
  BY DEF LedgerInv, LedgerTypes
<1>3. d.equity * w.peak <= w.equity * d.peak /\ d.equity * peak'[l] <= equity'[l] * d.peak
  <2>1. worst'[l] = Deepest(worst[l], equity'[l], peak'[l])
    BY DEF Compound
  <2>2. \A v, e, q : (/\ v \in [equity : Nat, peak : Nat \ {0}]
                      /\ e \in Nat /\ q \in Nat \ {0})
             => /\ Deepest(v, e, q).equity * v.peak <= v.equity * Deepest(v, e, q).peak
                /\ Deepest(v, e, q).equity * q <= e * Deepest(v, e, q).peak
    BY DeepestFacts
  <2> QED
    BY <1>2, <2>1, <2>2
<1>4. i \in 0 .. bar' /\ curve'[l][i] \in Nat /\ curve'[l][j] \in Nat
  BY <1>1 DEF LedgerTypes
<1>5. CASE j = bar + 1
  <2>1. curve'[l][j] = equity'[l] /\ curve'[l][i] <= peak'[l]
    BY <1>1, <1>4, <1>5 DEF PeakIsHighest
  <2>2. curve'[l][i] * d.equity <= peak'[l] * d.equity
    BY <1>2, <1>4, <2>1, Scaled
  <2>3. d.equity * curve'[l][i] \in Int /\ d.equity * peak'[l] \in Int
        /\ equity'[l] * d.peak \in Int
    BY <1>2, <1>4
  <2>4. /\ curve'[l][i] * d.equity = d.equity * curve'[l][i]
        /\ peak'[l] * d.equity = d.equity * peak'[l]
    BY <1>2, <1>4
  <2> QED
    BY <1>3, <2>1, <2>2, <2>3, <2>4
<1>6. CASE j # bar + 1
  <2>1. j \in 0 .. bar /\ i \in 0 .. bar /\ i \in 0 .. j
    BY <1>1, <1>6
  <2>2. curve'[l][i] = curve[l][i] * Unit /\ curve'[l][j] = curve[l][j] * Unit
    BY <1>1, <2>1 DEF Compound
  <2> USE DEF LedgerInv, LedgerTypes
  <2>0. curve[l] \in [0 .. bar -> Nat]
    OBVIOUS
  <2>3. curve[l][i] \in Nat /\ curve[l][j] \in Nat
    BY <2>0, <2>1
  <2> HIDE DEF LedgerInv, LedgerTypes
  <2>4. w.equity * curve[l][i] <= curve[l][j] * w.peak
    BY <2>1 DEF LedgerInv, EveryDeclineShows
  <2>5. d.equity \in Nat /\ d.peak \in Nat /\ w.equity \in Nat /\ w.peak \in Nat \ {0}
    BY <1>2
  <2> HIDE DEF d, w
  <2>6. d.equity * curve[l][i] <= curve[l][j] * d.peak
    BY <1>3, <2>3, <2>4, <2>5, QuotientsCompose
  <2>7. (d.equity * curve[l][i]) * Unit <= (curve[l][j] * d.peak) * Unit
    BY <1>1, <2>3, <2>5, <2>6, Scaled, d.equity * curve[l][i] \in Int,
       curve[l][j] * d.peak \in Int
  <2>8. /\ (d.equity * curve[l][i]) * Unit = d.equity * (curve[l][i] * Unit)
        /\ (curve[l][j] * d.peak) * Unit = (curve[l][j] * Unit) * d.peak
    BY <1>1, <2>3, <2>5
  <2> QED
    BY <2>2, <2>7, <2>8 DEF d
<1> QED
  BY <1>5, <1>6

(* A signal column only grows at its end. *)
LEMMA SignalGrows ==
    ASSUME LedgerInv, Settle, LedgerTypes', NEW l \in Ledgers
    PROVE  /\ signal'[l] \in Seq({-1, 0, 1}) /\ Len(signal'[l]) = bar + 1
           /\ signal[l] \in Seq({-1, 0, 1}) /\ Len(signal[l]) = bar
           /\ \A i \in 1 .. bar : signal'[l][i] = signal[l][i]
<1> PICK probability \in [Ledgers -> Probabilities] :
       signal' = [k \in Ledgers |-> Append(signal[k], Signal(probability[k]))]
  BY DEF Settle
<1>1. /\ signal[l] \in Seq({-1, 0, 1}) /\ Len(signal[l]) = bar
      /\ signal'[l] \in Seq({-1, 0, 1}) /\ Len(signal'[l]) = bar'
  BY DEF LedgerInv, LedgerTypes
<1>2. bar' = bar + 1
  BY DEF Settle
<1>3. signal'[l] = Append(signal[l], Signal(probability[l]))
  OBVIOUS
<1> QED
  BY <1>1, <1>2, <1>3

(* Two ledgers with the same signals had them a bar earlier.                *)
LEMMA SameSignals ==
    ASSUME LedgerInv, Settle, LedgerTypes', NEW a \in Ledgers, NEW b \in Ledgers,
           signal'[a] = signal'[b]
    PROVE  signal[a] = signal[b]
<1>1. /\ signal[a] \in Seq({-1, 0, 1}) /\ Len(signal[a]) = bar
      /\ signal[b] \in Seq({-1, 0, 1}) /\ Len(signal[b]) = bar
      /\ \A i \in 1 .. bar : signal[a][i] = signal[b][i]
  BY SignalGrows
<1> QED
  BY <1>1

(* The position over a bar depends on what was signalled before it.         *)
LEMMA SamePosition ==
    ASSUME LedgerInv, Settle, LedgerTypes', NEW a \in Ledgers, NEW b \in Ledgers,
           \A i \in 1 .. bar' - Delay : signal'[a][i] = signal'[b][i]
    PROVE  position'[a] = position'[b]
<1>1. /\ bar' = bar + 1 /\ bar \in Nat
      /\ position'[a] = PositionAt(signal'[a], bar')
      /\ position'[b] = PositionAt(signal'[b], bar')
  BY DEF Settle, LedgerInv, LedgerTypes
<1>2. CASE bar' > Delay
  <2>1. bar' - Delay \in 1 .. bar' - Delay
    BY <1>1, <1>2, DelayAssumption
  <2> QED
    BY <1>1, <1>2, <2>1 DEF PositionAt
<1>3. CASE ~(bar' > Delay)
  BY <1>1, <1>3 DEF PositionAt
<1> QED
  BY <1>2, <1>3

(* Two models that agreed until Delay bars ago still have one ledger.       *)
LEMMA BarLookahead ==
    ASSUME LedgerInv, Settle, LedgerTypes'
    PROVE  NoLookahead'
<1> SUFFICES ASSUME NEW a \in Ledgers, NEW b \in Ledgers, factor'[a] = factor'[b],
                    \A i \in 1 .. bar' - Delay : signal'[a][i] = signal'[b][i]
             PROVE  Column(a)' = Column(b)'
  BY DEF NoLookahead
<1> PICK r \in Returns : Compound(r) /\ Count
  BY DEF Settle
<1>1. bar' = bar + 1 /\ bar \in Nat /\ factor' = factor
  BY DEF Settle, LedgerInv, LedgerTypes
<1>2. Column(a) = Column(b)
  <2>1. ASSUME NEW i \in 1 .. bar - Delay PROVE signal[a][i] = signal[b][i]
    <3>1. i \in 1 .. bar' - Delay /\ i \in 1 .. bar
      BY <1>1, DelayAssumption
    <3> QED
      BY <3>1, SignalGrows
  <2> QED
    BY <1>1, <2>1 DEF LedgerInv, NoLookahead
<1>3. /\ position[a] = position[b] /\ equity[a] = equity[b]
      /\ bankrupt[a] = bankrupt[b] /\ peak[a] = peak[b] /\ worst[a] = worst[b]
      /\ turnover[a] = turnover[b] /\ trades[a] = trades[b] /\ active[a] = active[b]
  BY <1>2 DEF Column
<1>4. position'[a] = position'[b]
  BY SamePosition
<1>5. Raw(a, r) = Raw(b, r)
  BY <1>1, <1>3, <1>4 DEF Raw
<1>6. bankrupt'[a] = bankrupt'[b] /\ equity'[a] = equity'[b]
  BY <1>3, <1>5 DEF Compound
<1>7. peak'[a] = peak'[b]
  BY <1>3, <1>6 DEF Compound
<1>8. worst'[a] = worst'[b]
  BY <1>3, <1>6, <1>7 DEF Compound
<1>9. turnover'[a] = turnover'[b] /\ trades'[a] = trades'[b] /\ active'[a] = active'[b]
  BY <1>3, <1>4 DEF Count
<1> QED
  BY <1>4, <1>6, <1>7, <1>8, <1>9 DEF Column

(* Of two ledgers with the same signals the costlier one is compared before *)
(* and after a bar.                                                         *)
LEMMA BarStress ==
    ASSUME LedgerInv, Settle, LedgerTypes', NEW a \in Ledgers, NEW b \in Ledgers,
           signal'[a] = signal'[b], factor'[a] <= factor'[b]
    PROVE  /\ equity'[b] <= equity'[a]
           /\ bankrupt'[a] => bankrupt'[b]
           /\ equity'[b] * peak'[a] <= equity'[a] * peak'[b]
           /\ ~Deeper(worst'[a], worst'[b])
<1> PICK r \in Returns : /\ position' = [k \in Ledgers |-> PositionAt(signal'[k], bar + 1)]
                         /\ Compound(r)
  BY DEF Settle
<1>1. signal[a] = signal[b] /\ factor' = factor
  BY SameSignals DEF Settle
<1>2. /\ equity[b] <= equity[a] /\ (bankrupt[a] => bankrupt[b])
      /\ equity[b] * peak[a] <= equity[a] * peak[b]
      /\ ~Deeper(worst[a], worst[b])
  BY <1>1 DEF LedgerInv, StressNeverBetter, StressDrawsDown
<1>3. /\ position[a] \in {-1, 0, 1} /\ position'[a] \in {-1, 0, 1}
      /\ position[b] = position[a] /\ position'[b] = position'[a]
  BY <1>1 DEF LedgerInv, LedgerTypes
<1>4. /\ Raw(a, r) \in Int /\ Raw(b, r) \in Int
      /\ Raw(b, r) <= Raw(a, r)
  <2>1. factor[a] \in Multipliers /\ factor[b] \in Multipliers /\ factor[a] <= factor[b]
    BY <1>1 DEF LedgerInv, LedgerTypes
  <2> QED
    BY <1>3, <2>1, HigherCosts DEF Raw
<1>5. /\ bankrupt'[a] <=> bankrupt[a] \/ Raw(a, r) <= -Unit
      /\ bankrupt'[b] <=> bankrupt[b] \/ Raw(b, r) <= -Unit
  BY <1>3, BarOfLedger
<1>6. bankrupt'[a] => bankrupt'[b]
  <2>1. Unit \in Nat
    BY AmountAssumption
  <2> QED
    BY <1>2, <1>4, <1>5, <2>1
<1>7. /\ bankrupt'[b] => equity'[b] = 0
      /\ ~bankrupt'[b] => /\ Unit + Raw(b, r) \in Nat \ {0}
                          /\ equity'[b] = equity[b] * (Unit + Raw(b, r))
      /\ ~bankrupt'[a] => /\ Unit + Raw(a, r) \in Nat \ {0}
                          /\ equity'[a] = equity[a] * (Unit + Raw(a, r))
  BY <1>3, BarOfLedger
<1>8. /\ equity[a] \in Nat /\ equity[b] \in Nat /\ equity'[a] \in Nat /\ equity'[b] \in Nat
      /\ peak[a] \in Nat \ {0} /\ peak[b] \in Nat \ {0}
      /\ peak'[a] \in Nat \ {0} /\ peak'[b] \in Nat \ {0}
      /\ Unit \in Nat \ {0}
  BY AmountAssumption DEF LedgerInv, LedgerTypes
<1>9. equity'[b] <= equity'[a]
  <2>1. CASE bankrupt'[b]
    BY <1>7, <1>8, <2>1
  <2>2. CASE ~bankrupt'[b]
    <3> DEFINE x == Unit + Raw(a, r)
               y == Unit + Raw(b, r)
    <3>1. x \in Nat /\ y \in Nat /\ y <= x
      BY <1>4, <1>6, <1>7, <1>8, <2>2
    <3>2. equity'[a] = equity[a] * x /\ equity'[b] = equity[b] * y
      BY <1>6, <1>7, <2>2
    <3> HIDE DEF x, y
    <3> QED
      BY <1>2, <1>8, <3>1, <3>2, Products
  <2> QED
    BY <2>1, <2>2
<1>10. /\ peak'[a] = Larger(peak[a] * Unit, equity'[a])
       /\ peak'[b] >= peak[b] * Unit /\ peak'[b] >= equity'[b]
       /\ peak[b] * Unit \in Nat
  BY <1>3, BarOfLedger
<1>11. equity'[b] * peak'[a] <= equity'[a] * peak'[b]
  <2>1. CASE peak'[a] = equity'[a]
    <3>1. equity'[b] * equity'[a] <= peak'[b] * equity'[a]
      BY <1>8, <1>10, Scaled
    <3>2. peak'[b] * equity'[a] = equity'[a] * peak'[b]
      BY <1>8
    <3> QED
      BY <2>1, <3>1, <3>2
  <2>2. CASE bankrupt'[b]
    BY <1>7, <1>8, <2>2, NatProduct
  <2>3. CASE ~bankrupt'[b] /\ peak'[a] = peak[a] * Unit
    <3> DEFINE x == Unit + Raw(a, r)
               y == Unit + Raw(b, r)
    <3>1. x \in Nat /\ y \in Nat /\ y <= x
      BY <1>4, <1>6, <1>7, <1>8, <2>3
    <3>2. equity'[a] = equity[a] * x /\ equity'[b] = equity[b] * y
      BY <1>6, <1>7, <2>3
    <3> HIDE DEF x, y
    <3>3. equity[b] * peak[a] \in Nat /\ equity[a] * peak[b] \in Nat
      BY <1>8, NatProduct
    <3>4. (equity[b] * peak[a]) * y <= (equity[a] * peak[b]) * x
      BY <1>2, <3>1, <3>3, Products
    <3>5. ((equity[b] * peak[a]) * y) * Unit <= ((equity[a] * peak[b]) * x) * Unit
      BY <1>8, <3>1, <3>3, <3>4, Scaled, (equity[b] * peak[a]) * y \in Int,
         (equity[a] * peak[b]) * x \in Int
    <3>6. /\ ((equity[b] * peak[a]) * y) * Unit = (equity[b] * y) * (peak[a] * Unit)
          /\ ((equity[a] * peak[b]) * x) * Unit = (equity[a] * x) * (peak[b] * Unit)
      BY <1>8, <3>1
    <3>7. equity'[b] * peak'[a] <= equity'[a] * (peak[b] * Unit)
      BY <2>3, <3>2, <3>5, <3>6
    <3>8. (peak[b] * Unit) * equity'[a] <= peak'[b] * equity'[a]
      BY <1>8, <1>10, Scaled
    <3>9. /\ (peak[b] * Unit) * equity'[a] = equity'[a] * (peak[b] * Unit)
          /\ peak'[b] * equity'[a] = equity'[a] * peak'[b]
      BY <1>8, <1>10
    <3>10. /\ equity'[b] * peak'[a] \in Int /\ equity'[a] * peak'[b] \in Int
           /\ equity'[a] * (peak[b] * Unit) \in Int
      BY <1>8, <1>10
    <3> QED
      BY <3>7, <3>8, <3>9, <3>10
  <2>4. peak'[a] = equity'[a] \/ peak'[a] = peak[a] * Unit
    BY <1>10 DEF Larger
  <2> QED
    BY <2>1, <2>2, <2>3, <2>4
<1>12. ~Deeper(worst'[a], worst'[b])
  <2> DEFINE wa == worst[a]
             wb == worst[b]
             da == worst'[a]
             db == worst'[b]
  <2>1. /\ wa \in [equity : Nat, peak : Nat \ {0}] /\ wb \in [equity : Nat, peak : Nat \ {0}]
        /\ da \in [equity : Nat, peak : Nat \ {0}] /\ db \in [equity : Nat, peak : Nat \ {0}]
    BY DEF LedgerInv, LedgerTypes
  <2>2. da = Deepest(wa, equity'[a], peak'[a]) /\ db = Deepest(wb, equity'[b], peak'[b])
    BY DEF Compound
  <2>3. /\ wa.equity \in Nat /\ wa.peak \in Nat \ {0} /\ wb.equity \in Nat /\ wb.peak \in Nat \ {0}
        /\ da.equity \in Nat /\ da.peak \in Nat \ {0} /\ db.equity \in Nat /\ db.peak \in Nat \ {0}
    BY <2>1
  <2>4. wb.equity * wa.peak <= wa.equity * wb.peak
    BY <1>2, <2>3 DEF Deeper
  <2> HIDE DEF wa, wb, da, db
  <2>5. da = wa \/ (da.equity = equity'[a] /\ da.peak = peak'[a])
    BY <1>8, <2>1, <2>2, DeepestFacts
  <2>6. /\ db.equity * wb.peak <= wb.equity * db.peak
        /\ db.equity * peak'[b] <= equity'[b] * db.peak
    BY <1>8, <2>1, <2>2, DeepestFacts
  <2> SUFFICES db.equity * da.peak <= da.equity * db.peak
    BY <2>3 DEF Deeper, da, db
  <2>7. CASE da = wa
    BY <2>3, <2>4, <2>6, <2>7, QuotientsCompose
  <2>8. CASE da.equity = equity'[a] /\ da.peak = peak'[a]
    BY <1>8, <1>11, <2>3, <2>6, <2>8, QuotientsCompose
  <2> QED
    BY <2>5, <2>7, <2>8
<1> QED
  BY <1>6, <1>9, <1>11, <1>12

(* One bar preserves the invariant. *)
LEMMA LedgerStep == LedgerInv /\ [Settle]_ledgerVars => LedgerInv'
<1>1. ASSUME LedgerInv, Settle PROVE LedgerInv'
  <2>1. LedgerTypes'
    BY <1>1, BarTypes
  <2>2. \A l \in Ledgers : /\ position'[l] = PositionAt(signal'[l], bar')
                           /\ Solvent(l)' /\ PeakIsHighest(l)' /\ WorstIsDeepest(l)'
    BY <1>1, <2>1, BarColumns
  <2>3. EveryDeclineShows'
    BY <1>1, <2>1, <2>2, BarDeclines
  <2>4. NoLookahead'
    BY <1>1, <2>1, BarLookahead
  <2>5. StressDrawsDown' /\ StressNeverBetter'
    BY <1>1, <2>1, BarStress DEF StressDrawsDown, StressNeverBetter
  <2> QED
    BY <2>1, <2>2, <2>3, <2>4, <2>5 DEF LedgerInv
<1>2. ASSUME LedgerInv, UNCHANGED ledgerVars PROVE LedgerInv'
  <2>1. UNCHANGED <<factor, bar, scale, signal, position, equity, bankrupt, curve,
                    peak, worst, turnover, trades, active>>
    BY <1>2 DEF ledgerVars, account, activity
  <2>2. LedgerTypes'
    BY <1>2, <2>1 DEF LedgerInv, LedgerTypes
  <2>3. \A l \in Ledgers : /\ position'[l] = PositionAt(signal'[l], bar')
                           /\ Solvent(l)' /\ PeakIsHighest(l)' /\ WorstIsDeepest(l)'
    BY <1>2, <2>1 DEF LedgerInv, Solvent, PeakIsHighest, WorstIsDeepest
  <2>4. EveryDeclineShows' /\ NoLookahead'
    BY <1>2, <2>1 DEF LedgerInv, EveryDeclineShows, NoLookahead, Column
  <2>5. StressDrawsDown' /\ StressNeverBetter'
    BY <1>2, <2>1 DEF LedgerInv, StressDrawsDown, StressNeverBetter
  <2> QED
    BY <2>2, <2>3, <2>4, <2>5 DEF LedgerInv
<1> QED
  BY <1>1, <1>2

----------------------------------------------------------------------------
(* The invariant holds of every ledger (backtest.py's loop over the bars).  *)
THEOREM LedgerInvariance == LedgerSpec => []LedgerInv
  BY LedgersOpen, LedgerStep, PTL DEF LedgerSpec

(* A model's ledger never depends on signals younger than the execution     *)
(* delay, whatever the delay (backtest.py's shifted signal column).         *)
THEOREM Causality == LedgerSpec => []NoLookahead
<1>1. LedgerInv => NoLookahead
  BY DEF LedgerInv
<1> QED
  BY LedgerInvariance, <1>1, PTL

(* Stress multipliers never flatter a model: not in its equity, its         *)
(* solvency or its drawdown (run_backtest with stress_cost_multiplier).     *)
THEOREM StressIsStress == LedgerSpec => []StressNeverBetter
<1>1. LedgerInv => StressNeverBetter
  BY DEF LedgerInv
<1> QED
  BY LedgerInvariance, <1>1, PTL

(* The drawdown a gate judges covers every decline of the equity curve      *)
(* (running_peak and drawdown in run_backtest).                             *)
THEOREM DrawdownCovers == LedgerSpec => []EveryDeclineShows
<1>1. LedgerInv => EveryDeclineShows
  BY DEF LedgerInv
<1> QED
  BY LedgerInvariance, <1>1, PTL

(* No bar after a bankruptcy brings anything back or counts for anything    *)
(* (the bankrupt branch of the loop and the evaluated slice).               *)
THEOREM BankruptcyIsTerminal == LedgerSpec => NothingAfterBankruptcy
<1> DEFINE Terminal == \A l \in Ledgers : bankrupt[l] =>
                          /\ bankrupt'[l] /\ equity'[l] = 0
                          /\ <<turnover[l], trades[l], active[l]>>'
                                = <<turnover[l], trades[l], active[l]>>
<1>1. ASSUME LedgerInv, [Settle]_ledgerVars PROVE [Terminal]_ledgerVars
  <2>1. CASE Settle
    <3> PICK r \in Returns : Compound(r) /\ Count
      BY <2>1 DEF Settle
    <3> SUFFICES ASSUME NEW l \in Ledgers, bankrupt[l]
                 PROVE  /\ bankrupt'[l] /\ equity'[l] = 0
                        /\ turnover'[l] = turnover[l] /\ trades'[l] = trades[l]
                        /\ active'[l] = active[l]
      OBVIOUS
    <3>1. bankrupt'[l]
      BY DEF Compound
    <3>2. equity'[l] = 0
      BY <3>1 DEF Compound
    <3>3. turnover[l] \in Nat /\ trades[l] \in Nat /\ active[l] \in Nat
      BY <1>1 DEF LedgerInv, LedgerTypes
    <3> QED
      BY <3>1, <3>2, <3>3 DEF Count, Evaluated
  <2>2. CASE UNCHANGED ledgerVars
    BY <2>2
  <2> QED
    BY <1>1, <2>1, <2>2
<1>2. LedgerSpec => [][Terminal]_ledgerVars
  BY LedgerInvariance, <1>1, PTL DEF LedgerSpec
<1> QED
  BY <1>2 DEF NothingAfterBankruptcy

(* Paper inference calls the same probability the same way as the backtest  *)
(* that judged its model, though their rules are applied in opposite order  *)
(* (probabilities_to_signal and generate_paper_signal).                     *)
THEOREM PaperAgreesWithBacktest ==
    \A p \in Int : PaperSignal(p) = Signal(p)
  BY SignalAssumption DEF PaperSignal, Signal
-----------------------------------------------------------------------------
(* The scheduled cycles and paper inference.                                 *)

(* The invariant holds at the start. *)
LEMMA Initially == Init => IInv
<1> SUFFICES ASSUME Init PROVE IInv
  OBVIOUS
<1>1. \A v \in Nat : Whole(v) \in Contents
  BY DEF Whole, Contents
<1>2. Idle \in JobType
  BY DEF Idle, JobType
<1>3. \A p \in Procs : job[p] = Idle
  BY DEF Init
<1>4. TypeOK
  BY <1>1, <1>2 DEF Init, TypeOK, PointerType
<1>5. \A p \in Procs : /\ Staged(p) /\ Named(p) /\ Advancing(p)
                       /\ Copied(p) /\ Undisturbed(p)
  BY <1>3, NamesAssumption
     DEF Init, Idle, Staged, Named, Advancing, Copied, Undisturbed, Judging, Loading, Loaded, Infers
<1>6. log = <<>>
  BY DEF Init
<1>7. LogIsPast /\ SignalIsOfOnePiece /\ SignalsAdvance /\ LoggedHashIsLoaded
  BY <1>6 DEF LogIsPast, SignalIsOfOnePiece, SignalsAdvance, LoggedHashIsLoaded, Entries
<1>8. CyclePromotesItsOwn
  BY DEF Init, CyclePromotesItsOwn
<1> QED BY <1>4, <1>5, <1>7, <1>8 DEF IInv

(* Which operations come to a point. *)
LEMMA PointsOfKinds ==
  ASSUME NEW kind \in Kinds, NEW pc \in Points(kind)
  PROVE  /\ pc \in {"resolve"} \cup Loading => kind \in {"quick", "paper"}
         /\ pc = "ingest" => kind \in Cycles
         /\ pc = "capture" => kind \in {"quick", "paper", "deep"}
         /\ pc = "primary" => kind = "train"
         /\ pc \in {"export", "rename"} => kind \in {"deep", "train"}
         /\ pc = "promote" => kind = "deep"
         /\ pc # "idle"
<1>1. CASE kind = "quick"
  BY <1>1 DEF Points, Judging, Loading, Loaded, Cycles
<1>2. CASE kind = "paper"
  BY <1>2 DEF Points, Judging, Loading, Loaded
<1>3. CASE kind = "deep"
  BY <1>3 DEF Points, Judging, Loading, Loaded, Cycles
<1>4. CASE kind = "train"
  BY <1>4 DEF Points, Judging, Loading, Loaded
<1>5. kind = "quick" \/ kind = "paper" \/ kind = "deep" \/ kind = "train"
  BY DEF Kinds, Cycles
<1> QED BY <1>1, <1>2, <1>3, <1>4, <1>5

(* A point of a kind is a point. *)
LEMMA PointsTyped ==
  ASSUME NEW kind \in Kinds, NEW pc \in Points(kind)
  PROVE  pc \in {"idle"} \cup UNION {Points(k) : k \in Kinds}
OBVIOUS

(* The entries of the log have their type. *)
LEMMA LogTyped ==
  ASSUME log \in Seq(EntryType)
  PROVE  \A i \in 1..Len(log) : log[i] \in EntryType /\ log[i].gen \in Nat
<1>1. \A i \in 1..Len(log) : log[i] \in EntryType
  OBVIOUS
<1> QED BY <1>1 DEF EntryType

(* What an operation is known to be. *)
Sound(p) == Staged(p) /\ Named(p) /\ Advancing(p) /\ Copied(p) /\ Undisturbed(p)

(* A step of another process, or of none, leaves an operation as it was:     *)
(* generations get newer, bundles stay unless they are rewritten, and        *)
(* no quick cycle logs a signal while another one works.                     *)
LEMMA OthersStaySound ==
  ASSUME NEW q \in Procs, TypeOK, Sound(q), job'[q] = job[q],
         (cycleLock' = q) <=> (cycleLock = q), (logLock' = q) <=> (logLock = q),
         current' \in Nat, current <= current',
         \A n \in Names : bundle[n] # None =>
            bundle'[n] # None /\ (rewrites' = 0 => bundle'[n] = bundle[n]),
         rewrites' = 0 => rewrites = 0,
         (job[q].kind = "quick" /\ job[q].pc \notin {"idle", "ingest"}) =>
            \A i \in 1..Len(log') : Quick(i)' => log'[i].gen < job[q].own
  PROVE  Sound(q)'
<1>1. job[q].own \in Nat /\ job[q].gen \in Nat /\ current \in Nat
  BY DEF TypeOK, JobType
<1>2. Staged(q)'
  BY DEF Sound, Staged
<1>3. Named(q)'
  BY DEF Sound, Named, Infers
<1>4. Advancing(q)'
  BY <1>1 DEF Sound, Advancing, Quick
<1>5. Copied(q)'
  BY DEF Sound, Copied
<1>6. Undisturbed(q)'
  <2>1. job[q].pc \in (Loading \ {"open"}) \cup {"promote"} \/ (Infers(q) /\ job[q].pc \in Judging)
          => job[q].name \in Names /\ bundle[job[q].name] # None
    <3>1. job[q].pc \in Loading => Infers(q) /\ job[q].pc \in Judging
      BY PointsOfKinds DEF Sound, Staged, Infers, Judging, Loading, Loaded
    <3> QED BY <3>1 DEF Sound, Named
  <2> QED BY <2>1 DEF Sound, Undisturbed, Infers
<1> QED BY <1>2, <1>3, <1>4, <1>5, <1>6 DEF Sound

(* What the log and the pointer promise is kept while neither is written. *)
LEMMA RecordsKept ==
  ASSUME IInv, UNCHANGED <<pointer, log>>, current' \in Nat, current <= current',
         rewrites' = 0 => rewrites = 0
  PROVE  /\ LogIsPast' /\ SignalIsOfOnePiece' /\ SignalsAdvance'
         /\ LoggedHashIsLoaded' /\ CyclePromotesItsOwn'
<1>1. log \in Seq(EntryType) /\ current \in Nat
  BY DEF IInv, TypeOK
<1>2. \A i \in 1..Len(log) : log[i].gen \in Nat
  BY <1>1, LogTyped
<1>3. LogIsPast'
  BY <1>1, <1>2 DEF IInv, LogIsPast, Quick
<1>4. SignalIsOfOnePiece' /\ SignalsAdvance' /\ LoggedHashIsLoaded'
  BY DEF IInv, SignalIsOfOnePiece, SignalsAdvance, LoggedHashIsLoaded, Entries
<1>5. CyclePromotesItsOwn'
  BY DEF IInv, CyclePromotesItsOwn
<1> QED BY <1>3, <1>4, <1>5

(* A step of one process that writes no record and replaces no bundle.       *)
LEMMA GrowStep ==
  ASSUME NEW p \in Procs, NEW r \in JobType, IInv,
         job' = [job EXCEPT ![p] = r],
         UNCHANGED <<pointer, log, rewrites>>,
         bundle' \in [Names -> Contents \cup {None}],
         \A n \in Names : bundle[n] # None => bundle'[n] = bundle[n],
         {current', made', starts', others'} \subseteq Nat, current <= current',
         {cycleLock', logLock'} \subseteq Procs \cup {None},
         \A q \in Procs : q # p => /\ (cycleLock' = q) <=> (cycleLock = q)
                                   /\ (logLock' = q) <=> (logLock = q),
         Sound(p)'
  PROVE  IInv'
<1>1. TypeOK'
  BY DEF IInv, TypeOK
<1>2. ASSUME NEW q \in Procs, q # p PROVE Sound(q)'
  <2>1. job'[q] = job[q]
    BY <1>2 DEF IInv, TypeOK
  <2>2. Sound(q)
    BY DEF IInv, Sound
  <2>3. (job[q].kind = "quick" /\ job[q].pc \notin {"idle", "ingest"}) =>
            \A i \in 1..Len(log') : Quick(i)' => log'[i].gen < job[q].own
    BY <2>2 DEF Sound, Advancing, Cycles, Quick
  <2>4. TypeOK
    BY DEF IInv
  <2>5. \A n \in Names : bundle[n] # None =>
            bundle'[n] # None /\ (rewrites' = 0 => bundle'[n] = bundle[n])
    OBVIOUS
  <2> QED BY <1>2, <2>1, <2>2, <2>3, <2>4, <2>5, OthersStaySound
<1>3. /\ LogIsPast' /\ SignalIsOfOnePiece' /\ SignalsAdvance'
      /\ LoggedHashIsLoaded' /\ CyclePromotesItsOwn'
  BY RecordsKept
<1> QED BY <1>1, <1>2, <1>3 DEF IInv, Sound

(* Such a step that touches no bundle at all. *)
LEMMA QuietStep ==
  ASSUME NEW p \in Procs, NEW r \in JobType, IInv,
         job' = [job EXCEPT ![p] = r],
         UNCHANGED <<bundle, pointer, log, rewrites>>,
         {current', made', starts', others'} \subseteq Nat, current <= current',
         {cycleLock', logLock'} \subseteq Procs \cup {None},
         \A q \in Procs : q # p => /\ (cycleLock' = q) <=> (cycleLock = q)
                                   /\ (logLock' = q) <=> (logLock = q),
         Sound(p)'
  PROVE  IInv'
<1>1. bundle' \in [Names -> Contents \cup {None}]
      /\ \A n \in Names : bundle[n] # None => bundle'[n] = bundle[n]
  BY DEF IInv, TypeOK
<1> QED BY <1>1, GrowStep

(* Whoever ends is idle and holds no lock. *)
LEMMA Left ==
  ASSUME NEW p \in Procs, IInv, Leave(p)
  PROVE  /\ Idle \in JobType /\ job' = [job EXCEPT ![p] = Idle]
         /\ job'[p] = Idle /\ Sound(p)'
         /\ {cycleLock', logLock'} \subseteq Procs \cup {None}
         /\ \A q \in Procs : q # p => /\ job'[q] = job[q]
                                      /\ (cycleLock' = q) <=> (cycleLock = q)
                                      /\ (logLock' = q) <=> (logLock = q)
<1>1. Idle \in JobType /\ job' = [job EXCEPT ![p] = Idle]
  BY DEF Leave, Idle, JobType
<1>2. job'[p] = Idle
  BY <1>1 DEF IInv, TypeOK
<1>3. cycleLock' # p /\ logLock' # p
  BY NamesAssumption DEF Leave, Release
<1>4. Sound(p)'
  BY <1>2, <1>3, NamesAssumption DEF Sound, Idle, Staged, Named, Advancing, Copied, Undisturbed,
     Judging, Loading, Loaded, Infers
<1>5. ASSUME NEW q \in Procs, q # p
      PROVE  /\ job'[q] = job[q]
             /\ (cycleLock' = q) <=> (cycleLock = q)
             /\ (logLock' = q) <=> (logLock = q)
  <2>1. job'[q] = job[q]
    BY <1>1, <1>5 DEF IInv, TypeOK
  <2>2. /\ (cycleLock' = q) <=> (cycleLock = q)
        /\ (logLock' = q) <=> (logLock = q)
    BY <1>5, NamesAssumption DEF Leave, Release
  <2> QED BY <2>1, <2>2
<1>6. {cycleLock', logLock'} \subseteq Procs \cup {None}
  BY DEF Leave, Release, IInv, TypeOK
<1> QED BY <1>1, <1>2, <1>4, <1>5, <1>6

(* An end that leaves bundles and records as they are. *)
LEMMA LeaveStep ==
  ASSUME NEW p \in Procs, IInv, Leave(p),
         UNCHANGED <<current, bundle, pointer, log, rewrites, made, starts, others>>
  PROVE  IInv'
<1>1. {current', made', starts', others'} \subseteq Nat /\ current <= current'
  BY DEF IInv, TypeOK
<1> QED BY <1>1, Left, QuietStep

(* Entering: a cycle only when no other cycle is under way. *)
LEMMA StartStep ==
  ASSUME NEW p \in Procs, NEW kind \in Kinds, IInv, Start(p, kind)
  PROVE  IInv'
<1> DEFINE r == [job[p] EXCEPT !.pc = First(kind), !.kind = kind]
<1>1. job[p] \in JobType /\ job[p].pc = "idle" /\ Sound(p)
  BY DEF IInv, TypeOK, Start, Sound
<1>2. First(kind) \in Points(kind) /\ First(kind) \in {"ingest", "resolve", "primary"}
  BY DEF First, Points, Kinds, Cycles
<1>3. r \in JobType /\ job' = [job EXCEPT ![p] = r] /\ r.pc = First(kind) /\ r.kind = kind
      /\ r.champion = job[p].champion
  BY <1>1, <1>2 DEF JobType, Start
<1>4. job'[p] = r
  BY <1>3 DEF IInv, TypeOK
<1>5. UNCHANGED <<current, bundle, pointer, log, logLock, made, others, rewrites>>
  BY DEF Start
<1>6. cycleLock' \in Procs \cup {None}
      /\ \A q \in Procs : (cycleLock' = q) <=> (IF q = p THEN kind \in Cycles ELSE cycleLock = q)
  BY <1>1, NamesAssumption DEF IInv, TypeOK, Start, Enter, Sound, Staged
<1>7. Sound(p)'
  <2>1. Staged(p)'
    BY <1>1, <1>2, <1>3, <1>4, <1>5, <1>6 DEF Sound, Staged
  <2>2. Named(p)' /\ Advancing(p)' /\ Copied(p)'
    BY <1>2, <1>3, <1>4 DEF Named, Advancing, Copied, Judging, Loading, Loaded, First, Cycles
  <2>3. Undisturbed(p)'
    BY <1>1, <1>2, <1>3, <1>4 DEF Sound, Undisturbed, Judging, Loading, Loaded
  <2> QED BY <2>1, <2>2, <2>3 DEF Sound
<1>8. {current', made', starts', others'} \subseteq Nat /\ current <= current'
  BY <1>5 DEF IInv, TypeOK, Start
<1> HIDE DEF r
<1> QED BY <1>3, <1>5, <1>6, <1>7, <1>8, QuietStep DEF IInv, TypeOK

(* The ingestion of a cycle commits a generation newer than every signal.    *)
LEMMA IngestStep ==
  ASSUME NEW p \in Procs, IInv, Ingest(p)
  PROVE  IInv'
<1> DEFINE r == [job[p] EXCEPT !.pc = AfterIngest(job[p].kind), !.own = current + 1]
<1>1. job[p] \in JobType /\ job[p].pc = "ingest" /\ Sound(p) /\ current \in Nat
  BY DEF IInv, TypeOK, Ingest, Sound
<1>2. job' = [job EXCEPT ![p] = r]
  BY DEF Ingest, IInv, TypeOK, JobType
<1>3. r.pc = AfterIngest(job[p].kind) /\ r.kind = job[p].kind /\ r.own = current + 1
      /\ r.champion = job[p].champion
  BY <1>1 DEF JobType
<1>4. job[p].kind \in Cycles
  BY <1>1, PointsOfKinds DEF Sound, Staged
<1>5. r.kind \in Kinds /\ r.pc \in Points(r.kind) /\ r.pc \in {"resolve", "capture"}
      /\ (r.pc = "capture" => r.kind = "deep")
  BY <1>3, <1>4 DEF Cycles, Kinds, AfterIngest, Points, Judging
<1>6. r \in JobType
  <2> DEFINE pc == AfterIngest(job[p].kind)
  <2>1. pc \in {"idle"} \cup UNION {Points(k) : k \in Kinds} /\ current + 1 \in Nat
    BY <1>1, <1>3, <1>5, PointsTyped
  <2> HIDE DEF pc
  <2>2. [job[p] EXCEPT !.pc = pc, !.own = current + 1] \in JobType
    BY <1>1, <2>1 DEF JobType
  <2> QED BY <2>2 DEF pc
<1> HIDE DEF r
<1>7. job'[p] = r
  BY <1>2 DEF IInv, TypeOK
<1>8. UNCHANGED <<bundle, pointer, log, cycleLock, logLock, made, starts, others, rewrites>>
      /\ current' = current + 1
  BY DEF Ingest, counters
<1>9. \A i \in 1..Len(log) : Quick(i) => log[i].gen < current + 1
  <2>1. log \in Seq(EntryType)
    BY DEF IInv, TypeOK
  <2> QED BY <1>1, <2>1, LogTyped DEF IInv, LogIsPast
<1>10. Staged(p)'
  BY <1>1, <1>3, <1>4, <1>5, <1>7, <1>8 DEF Sound, Staged
<1>11. Named(p)' /\ Copied(p)'
  BY <1>3, <1>5, <1>7 DEF Named, Copied, Judging, Loading, Loaded, Infers
<1>12. Advancing(p)'
  BY <1>1, <1>3, <1>5, <1>7, <1>8, <1>9 DEF Advancing, Quick
<1>13. Undisturbed(p)'
  BY <1>1, <1>3, <1>5, <1>7 DEF Sound, Undisturbed, Judging, Loading, Loaded
<1>14. {current', made', starts', others'} \subseteq Nat /\ current <= current'
  BY <1>1, <1>8 DEF IInv, TypeOK
<1> QED BY <1>2, <1>6, <1>8, <1>10, <1>11, <1>12, <1>13, <1>14, QuietStep DEF IInv, TypeOK, Sound

(* Resolving or choosing: the bundle exists, and is the champion's if one    *)
(* was resolved.                                                             *)
LEMMA NamedStep ==
  ASSUME NEW p \in Procs, NEW n \in Names, NEW r, IInv,
         job[p].pc = "resolve", bundle[n] # None,
         r = [job[p] EXCEPT !.pc = "capture", !.name = n, !.champion = r.champion],
         r.champion \in Nat \cup {None},
         r.champion # None => r.champion = bundle[n]["manifest"],
         job' = [job EXCEPT ![p] = r],
         UNCHANGED <<current, bundle, pointer, log, cycleLock, logLock, made, starts,
                     others, rewrites>>
  PROVE  IInv'
<1>1. job[p] \in JobType /\ Sound(p)
  BY DEF IInv, TypeOK, Sound
<1>2. r.pc = "capture" /\ r.kind = job[p].kind /\ r.own = job[p].own /\ r.name = n
  BY <1>1 DEF JobType
<1>3. job[p].kind \in {"quick", "paper"}
  BY <1>1, PointsOfKinds DEF Sound, Staged
<1>4. r.kind \in Kinds /\ r.pc \in Points(r.kind) /\ r.pc \in Judging
  BY <1>2, <1>3 DEF Cycles, Kinds, Points, Judging
<1>5. r \in JobType
  <2>1. "capture" \in {"idle"} \cup UNION {Points(k) : k \in Kinds}
    BY <1>2, <1>4, PointsTyped
  <2> QED BY <1>1, <2>1 DEF JobType
<1>6. job'[p] = r
  BY DEF IInv, TypeOK
<1>7. Staged(p)'
  BY <1>1, <1>2, <1>4, <1>6 DEF Sound, Staged
<1>8. Named(p)' /\ Copied(p)'
  BY <1>2, <1>6 DEF Named, Copied, Loaded
<1>9. Advancing(p)'
  BY <1>1, <1>2, <1>6 DEF Sound, Advancing, Quick
<1>10. Undisturbed(p)'
  BY <1>2, <1>3, <1>4, <1>6 DEF Undisturbed, Infers, Loading, Loaded
<1>11. {current', made', starts', others'} \subseteq Nat /\ current <= current'
  BY DEF IInv, TypeOK
<1> QED BY <1>5, <1>7, <1>8, <1>9, <1>10, <1>11, QuietStep DEF IInv, TypeOK, Sound

(* Resolving the champion: a load of what the pointer names, or an end.      *)
LEMMA ResolveStep ==
  ASSUME NEW p \in Procs, IInv, Resolve(p)
  PROVE  IInv'
<1>1. UNCHANGED <<current, bundle, pointer, log, made, starts, others, rewrites>>
  BY DEF Resolve, counters
<1>2. CASE Leave(p)
  BY <1>1, <1>2, LeaveStep
<1>3. CASE ~ Leave(p)
  <2> DEFINE r == [job[p] EXCEPT !.pc = "capture", !.name = pointer.name,
                                 !.champion = pointer.manifest]
  <2>1. /\ pointer # None /\ bundle[pointer.name] # None /\ job[p].pc = "resolve"
        /\ bundle[pointer.name]["manifest"] = pointer.manifest
        /\ job' = [job EXCEPT ![p] = r]
        /\ UNCHANGED <<cycleLock, logLock>>
    BY <1>3 DEF Resolve, Verifies, IInv, TypeOK, JobType
  <2>2. pointer.name \in Names /\ pointer.manifest \in Nat
    BY <2>1 DEF IInv, TypeOK, PointerType
  <2>3. r.champion = pointer.manifest
    BY DEF IInv, TypeOK, JobType
  <2>4. r = [job[p] EXCEPT !.pc = "capture", !.name = pointer.name, !.champion = r.champion]
    BY <2>3
  <2> HIDE DEF r
  <2> QED BY <1>1, <2>1, <2>2, <2>3, <2>4, NamedStep
<1> QED BY <1>2, <1>3

(* Choosing a bundle: no champion was resolved.                              *)
LEMMA ChooseStep ==
  ASSUME NEW p \in Procs, IInv, Choose(p)
  PROVE  IInv'
<1>1. UNCHANGED <<current, bundle, pointer, log, cycleLock, logLock, made, starts, others,
                  rewrites>> /\ job[p].pc = "resolve" /\ job[p].kind = "paper"
  BY DEF Choose, counters
<1>2. PICK n \in Names : /\ bundle[n] # None
                         /\ job' = [job EXCEPT ![p].pc = "capture", ![p].name = n]
  BY DEF Choose
<1> DEFINE r == [job[p] EXCEPT !.pc = "capture", !.name = n]
<1>3. job[p] \in JobType /\ Undisturbed(p)
  BY DEF IInv, TypeOK
<1>4. job' = [job EXCEPT ![p] = r]
  BY <1>2 DEF IInv, TypeOK, JobType
<1>5. r.champion = None
  BY <1>1, <1>3 DEF JobType, Undisturbed, Judging, Loading, Loaded
<1>6. r = [job[p] EXCEPT !.pc = "capture", !.name = n, !.champion = r.champion]
  BY <1>3 DEF JobType
<1> HIDE DEF r
<1> QED BY <1>1, <1>2, <1>4, <1>5, <1>6, NamedStep

(* What was captured is at least what the cycle's own ingestion committed.   *)
LEMMA CapturedStep ==
  ASSUME NEW p \in Procs, NEW r, IInv,
         job[p].pc \in {"capture", "primary"},
         job[p].kind \in Kinds, r.pc \in Points(job[p].kind), r.pc \in {"open", "export"},
         r = [job[p] EXCEPT !.pc = r.pc, !.gen = current], job' = [job EXCEPT ![p] = r],
         UNCHANGED <<current, bundle, pointer, log, cycleLock, logLock, made, starts,
                     others, rewrites>>
  PROVE  IInv'
<1>1. job[p] \in JobType /\ Sound(p) /\ current \in Nat
  BY DEF IInv, TypeOK, Sound
<1>2. r.kind = job[p].kind /\ r.own = job[p].own /\ r.name = job[p].name
      /\ r.champion = job[p].champion /\ r.gen = current
  BY <1>1 DEF JobType
<1>3. r \in JobType
  <2>1. r.pc \in {"idle"} \cup UNION {Points(k) : k \in Kinds}
    BY PointsTyped
  <2> QED BY <1>1, <2>1 DEF JobType
<1>4. job'[p] = r
  BY DEF IInv, TypeOK
<1>5. Staged(p)'
  BY <1>1, <1>2, <1>4 DEF Sound, Staged
<1>6. r.pc = "open" => Infers(p) /\ job[p].pc = "capture"
  BY PointsOfKinds, <1>1 DEF Infers, Sound, Staged, Loading
<1>7. Named(p)' /\ Copied(p)'
  <2>1. Infers(p) => r.pc = "open" /\ job[p].pc = "capture"
    BY PointsOfKinds, <1>1, <1>6 DEF Infers, Sound, Staged
  <2> QED BY <1>1, <1>2, <1>4, <1>6, <2>1 DEF Sound, Named, Copied, Loaded, Judging, Infers
<1>8. Advancing(p)'
  <2>1. job[p].kind \in Cycles => job[p].pc = "capture"
    BY PointsOfKinds, <1>1 DEF Sound, Staged, Cycles
  <2>2. job[p].kind \in Cycles => job[p].own <= current
    BY <1>1, <2>1 DEF Sound, Advancing
  <2>3. job[p].kind = "quick" => \A i \in 1..Len(log) : Quick(i) => log[i].gen < job[p].own
    BY <1>1, <2>1 DEF Sound, Advancing, Cycles
  <2>4. job'[p].kind = job[p].kind /\ job'[p].own = job[p].own /\ job'[p].gen = current
    BY <1>2, <1>4
  <2>5. current' = current /\ log' = log
    OBVIOUS
  <2>6. current <= current
    BY <1>1
  <2> QED BY <2>2, <2>3, <2>4, <2>5, <2>6 DEF Advancing, Quick
<1>9. Undisturbed(p)'
  <2>1. job[p].champion # None => r.pc = "open"
    BY PointsOfKinds, <1>1 DEF Sound, Staged, Undisturbed, Infers
  <2> QED BY <1>1, <1>2, <1>4, <2>1 DEF Sound, Undisturbed, Infers, Loading, Loaded, Judging
<1>10. {current', made', starts', others'} \subseteq Nat /\ current <= current'
  BY DEF IInv, TypeOK
<1> QED BY <1>3, <1>5, <1>7, <1>8, <1>9, <1>10, QuietStep DEF IInv, TypeOK, Sound

(* Capturing the generation, by an inference, a deep cycle or a training.     *)
LEMMA CaptureStep ==
  ASSUME NEW p \in Procs, IInv, Capture(p) \/ PrimaryFrame(p)
  PROVE  IInv'
<1>1. UNCHANGED <<current, bundle, pointer, log, made, starts, others, rewrites>>
  BY DEF Capture, PrimaryFrame, counters
<1>2. CASE Leave(p)
  BY <1>1, <1>2, LeaveStep
<1>3. CASE Capture(p) /\ ~ Leave(p)
  <2> DEFINE to == AfterCapture(job[p].kind)
  <2> DEFINE r == [job[p] EXCEPT !.pc = to, !.gen = current]
  <2>1. job[p].pc = "capture" /\ job' = [job EXCEPT ![p] = r]
        /\ UNCHANGED <<cycleLock, logLock>>
    BY <1>3 DEF Capture, Captured, IInv, TypeOK, JobType
  <2>2. job[p].kind \in {"quick", "paper", "deep"}
    BY <2>1, PointsOfKinds DEF IInv, Staged
  <2>3. job[p].kind \in Kinds /\ r.pc \in Points(job[p].kind) /\ r.pc \in {"open", "export"}
    BY <2>2 DEF Kinds, Cycles, AfterCapture, Points, Judging, Loading, IInv, TypeOK, JobType
  <2>4. r = [job[p] EXCEPT !.pc = r.pc, !.gen = current]
    BY DEF IInv, TypeOK, JobType
  <2> HIDE DEF to, r
  <2>5. job[p].pc \in {"capture", "primary"} /\ r.pc \in {"open", "export"}
    BY <2>1, <2>3
  <2> QED BY <1>1, <2>1, <2>3, <2>4, <2>5, CapturedStep
<1>4. CASE PrimaryFrame(p)
  <2> DEFINE r == [job[p] EXCEPT !.pc = "export", !.gen = current]
  <2>1. job[p].pc = "primary" /\ job' = [job EXCEPT ![p] = r]
        /\ UNCHANGED <<cycleLock, logLock>>
    BY <1>4 DEF PrimaryFrame, IInv, TypeOK, JobType
  <2>2. job[p].kind = "train"
    BY <2>1, PointsOfKinds DEF IInv, Staged
  <2>3. job[p].kind \in Kinds /\ r.pc \in Points(job[p].kind) /\ r.pc = "export"
    BY <2>2 DEF Kinds, Points, IInv, TypeOK, JobType
  <2>4. r = [job[p] EXCEPT !.pc = r.pc, !.gen = current]
    BY DEF IInv, TypeOK, JobType
  <2> HIDE DEF r
  <2>5. job[p].pc \in {"capture", "primary"} /\ r.pc \in {"open", "export"}
    BY <2>1, <2>3
  <2> QED BY <1>1, <2>1, <2>3, <2>4, <2>5, CapturedStep
<1> QED BY <1>2, <1>3, <1>4

(* The points of a load are those of quick cycles and of `ares paper`.       *)
LEMMA LoadingTyped ==
  ASSUME NEW pc \in Loading
  PROVE  /\ pc \in {"idle"} \cup UNION {Points(k) : k \in Kinds}
         /\ pc \in Points("quick") /\ pc \in Points("paper")
<1>1. pc \in Points("quick") /\ pc \in Points("paper") /\ "quick" \in Kinds
  BY DEF Points, Judging, Kinds, Cycles
<1> QED BY <1>1, PointsTyped

(* During a load the bundle is there, with a version of every file.          *)
LEMMA Loads ==
  ASSUME NEW p \in Procs, IInv, job[p].pc \in Loading
  PROVE  /\ job[p] \in JobType /\ Sound(p) /\ Infers(p) /\ job[p].kind \in Kinds
         /\ job[p].name \in Names /\ bundle[job[p].name] \in Contents
<1>1. job[p] \in JobType /\ Sound(p)
  BY DEF IInv, TypeOK, Sound
<1>2. job[p].kind \in Kinds /\ Infers(p)
  BY <1>1, PointsOfKinds DEF Sound, Staged, Infers, Loading, Loaded
<1>3. job[p].name \in Names /\ bundle[job[p].name] # None
  BY <1>1, <1>2 DEF Sound, Named, Judging
<1> QED BY <1>1, <1>2, <1>3 DEF IInv, TypeOK

(* A step from one point of a load to another: what was copied is of the     *)
(* verified version, and while nobody rewrites bundles so is what they hold. *)
LEMMA LoadStep ==
  ASSUME NEW p \in Procs, NEW r \in JobType, IInv,
         job' = [job EXCEPT ![p] = r],
         UNCHANGED <<current, bundle, pointer, log, cycleLock, made, starts, others, rewrites>>,
         logLock' = IF r.pc = "append" THEN p ELSE logLock,
         r.pc = "append" => logLock = None,
         job[p].pc \in Loading \ {"append"}, r.pc \in Loading,
         r.kind = job[p].kind, r.own = job[p].own, r.gen = job[p].gen,
         r.name = job[p].name, r.champion = job[p].champion,
         Copied(p)',
         rewrites = 0 => /\ r.pc # "open" => bundle[r.name]["manifest"] = r.verified
                         /\ r.pc \in {"lock", "append"} => r.hash = r.verified
  PROVE  IInv'
<1>1. job[p] \in JobType /\ Sound(p) /\ Infers(p) /\ job[p].name \in Names
      /\ bundle[job[p].name] # None
  BY Loads, NamesAssumption
<1>2. job'[p] = r
  BY DEF IInv, TypeOK
<1>3. r.pc \in Points(r.kind) /\ r.pc \in Judging /\ r.pc # "idle" /\ job[p].pc # "idle"
  <2>1. job[p].kind = "quick" \/ job[p].kind = "paper"
    BY <1>1 DEF Infers
  <2>2. r.pc \in Points("quick") /\ r.pc \in Points("paper")
    BY LoadingTyped
  <2> QED BY <2>1, <2>2 DEF Judging, Loading, Loaded
<1>4. Staged(p)'
  <2>1. job[p].pc # "append" /\ job[p].kind \in Kinds
    BY <1>1, <1>3 DEF Sound, Staged
  <2> QED BY <1>1, <1>2, <1>3, <2>1, NamesAssumption DEF Sound, Staged
<1>5. Named(p)'
  BY <1>1, <1>2 DEF Named, Infers, Loading, Loaded
<1>6. Advancing(p)'
  <2>1. job[p].pc \notin {"idle", "ingest", "resolve", "capture"}
    BY DEF Loading, Loaded
  <2> QED BY <1>1, <1>2, <2>1 DEF Sound, Advancing, Quick
<1>7. Undisturbed(p)'
  <2>1. r.pc # "promote" /\ job[p].pc \in Judging
    BY DEF Loading, Loaded, Judging
  <2> QED BY <1>1, <1>2, <1>3, <2>1 DEF Sound, Undisturbed, Infers
<1>8. {current', made', starts', others'} \subseteq Nat /\ current <= current'
  BY DEF IInv, TypeOK
<1>9. /\ {cycleLock', logLock'} \subseteq Procs \cup {None}
      /\ \A q \in Procs : q # p => /\ (cycleLock' = q) <=> (cycleLock = q)
                                   /\ (logLock' = q) <=> (logLock = q)
  BY NamesAssumption DEF IInv, TypeOK
<1> QED BY <1>4, <1>5, <1>6, <1>7, <1>8, <1>9, QuietStep DEF Sound

(* What the manifest says when it is read is what the bundle holds.          *)
LEMMA OpenManifestStep ==
  ASSUME NEW p \in Procs, IInv, OpenManifest(p)
  PROVE  IInv'
<1> DEFINE v == bundle[job[p].name]["manifest"]
           r == [job[p] EXCEPT !.pc = "verify", !.todo = Payload, !.verified = v]
<1>1. job[p].pc = "open"
      /\ UNCHANGED <<current, bundle, pointer, log, cycleLock, logLock, made, starts, others,
                     rewrites>>
  BY DEF OpenManifest, counters
<1>2. job[p] \in JobType /\ v \in Nat
  BY <1>1, Loads DEF Loading, Contents, Files
<1>3. job' = [job EXCEPT ![p] = r]
  BY DEF OpenManifest, IInv, TypeOK, JobType
<1>4. r.pc = "verify" /\ r.kind = job[p].kind /\ r.own = job[p].own /\ r.gen = job[p].gen
      /\ r.name = job[p].name /\ r.champion = job[p].champion /\ r.verified = v
  BY <1>2 DEF JobType
<1>5. r \in JobType
  <2>1. "verify" \in {"idle"} \cup UNION {Points(k) : k \in Kinds}
    BY LoadingTyped DEF Loading
  <2> HIDE DEF v
  <2> QED BY <1>2, <2>1 DEF JobType
<1> HIDE DEF r
<1>6. Copied(p)'
  BY <1>3, <1>4 DEF Copied, Loaded, IInv, TypeOK
<1>7. job[p].pc \in Loading \ {"append"} /\ r.pc \in Loading
  BY <1>1, <1>4 DEF Loading
<1> QED BY <1>1, <1>3, <1>4, <1>5, <1>6, <1>7, LoadStep

(* Verifying a file moves no version.                                        *)
LEMMA VerifyStep ==
  ASSUME NEW p \in Procs, NEW f \in Payload, IInv, Verify(p, f)
  PROVE  IInv'
<1>1. job[p].pc = "verify"
      /\ UNCHANGED <<current, bundle, pointer, log, made, starts, others, rewrites>>
  BY DEF Verify, counters
<1>2. CASE Leave(p)
  BY <1>1, <1>2, LeaveStep
<1>3. CASE ~ Leave(p)
  <2> DEFINE to == IF job[p].todo = {f} THEN "copy" ELSE "verify"
             left == IF job[p].todo = {f} THEN Payload ELSE job[p].todo \ {f}
             r == [job[p] EXCEPT !.pc = to, !.todo = left]
  <2>1. job[p] \in JobType /\ Sound(p)
    BY <1>1, Loads DEF Loading
  <2>2. UNCHANGED <<cycleLock, logLock>> /\ job' = [job EXCEPT ![p] = r]
    <3>1. UNCHANGED <<cycleLock, logLock>>
      BY <1>3 DEF Verify
    <3>2. CASE job[p].todo = {f}
      BY <1>3, <3>2 DEF Verify, IInv, TypeOK, JobType
    <3>3. CASE job[p].todo # {f}
      <4>1. job' = [job EXCEPT ![p].todo = @ \ {f}]
        BY <1>3, <3>3 DEF Verify
      <4>2. r = [job[p] EXCEPT !.todo = @ \ {f}]
        BY <1>1, <2>1, <3>3 DEF JobType
      <4> QED BY <3>1, <4>1, <4>2
    <3> QED BY <3>1, <3>2, <3>3
  <2>3. r.pc = to /\ r.kind = job[p].kind /\ r.own = job[p].own /\ r.gen = job[p].gen
        /\ r.name = job[p].name /\ r.champion = job[p].champion
        /\ r.verified = job[p].verified /\ r.todo = left
    BY <2>1 DEF JobType
  <2>4. to \in {"verify", "copy"} /\ (to = "copy" => left = Payload) /\ left \in SUBSET Payload
    BY <2>1 DEF JobType
  <2>5. r \in JobType
    <3>1. to \in {"idle"} \cup UNION {Points(k) : k \in Kinds}
      BY <2>4, LoadingTyped DEF Loading
    <3> HIDE DEF to, left
    <3> QED BY <2>1, <2>4, <3>1 DEF JobType
  <2> HIDE DEF r, to, left
  <2>6. Copied(p)'
    BY <2>2, <2>3, <2>4 DEF Copied, Loaded, IInv, TypeOK
  <2>7. job[p].pc \in Loading \ {"append"} /\ r.pc \in Loading
        /\ r.pc \notin {"open", "lock", "append"}
    BY <1>1, <2>3, <2>4 DEF Loading
  <2>8. rewrites = 0 => bundle[r.name]["manifest"] = r.verified
    BY <1>1, <2>1, <2>3 DEF Sound, Undisturbed, Loading
  <2> QED BY <1>1, <2>2, <2>3, <2>5, <2>6, <2>7, <2>8, LoadStep
<1> QED BY <1>2, <1>3

(* A file is copied only as the verified version.                            *)
LEMMA CopyStep ==
  ASSUME NEW p \in Procs, NEW f \in Payload, IInv, Copy(p, f)
  PROVE  IInv'
<1>1. job[p].pc = "copy" /\ f \in job[p].todo
      /\ UNCHANGED <<current, bundle, pointer, log, made, starts, others, rewrites>>
  BY DEF Copy, counters
<1>2. CASE Leave(p)
  BY <1>1, <1>2, LeaveStep
<1>3. CASE ~ Leave(p)
  <2> DEFINE to == IF job[p].todo = {f} THEN "infer" ELSE "copy"
             v == bundle[job[p].name][f]
             r == [job[p] EXCEPT !.pc = to, !.todo = @ \ {f}, !.loaded[f] = v]
  <2>1. job[p] \in JobType /\ Sound(p) /\ v \in Nat
    BY <1>1, Loads DEF Loading, Contents, Files
  <2>2. UNCHANGED <<cycleLock, logLock>> /\ job' = [job EXCEPT ![p] = r]
        /\ v = job[p].verified
    BY <1>3, <2>1 DEF Copy, CopyAccepted, Matches, IInv, TypeOK, JobType
  <2>3. r.pc = to /\ r.kind = job[p].kind /\ r.own = job[p].own /\ r.gen = job[p].gen
        /\ r.name = job[p].name /\ r.champion = job[p].champion
        /\ r.verified = job[p].verified /\ r.todo = job[p].todo \ {f}
        /\ r.loaded = [job[p].loaded EXCEPT ![f] = v]
    BY <2>1 DEF JobType
  <2>4. r \in JobType
    <3>1. to \in {"idle"} \cup UNION {Points(k) : k \in Kinds}
      BY LoadingTyped DEF Loading, Loaded
    <3>2. [job[p].loaded EXCEPT ![f] = v] \in [Payload -> Nat]
          /\ job[p].todo \ {f} \in SUBSET Payload
      BY <2>1 DEF JobType
    <3> HIDE DEF to, v
    <3> QED BY <2>1, <3>1, <3>2 DEF JobType
  <2>5. \A g \in Payload \ r.todo : r.loaded[g] = r.verified
    BY <1>1, <2>1, <2>2, <2>3 DEF Sound, Copied, JobType
  <2>6. to \in {"copy", "infer"} /\ (to = "infer" => r.todo = {})
    BY <2>3
  <2> HIDE DEF r, to, v
  <2>7. Copied(p)'
    BY <2>2, <2>3, <2>5, <2>6 DEF Copied, Loaded, IInv, TypeOK
  <2>8. job[p].pc \in Loading \ {"append"} /\ r.pc \in Loading
        /\ r.pc \notin {"open", "lock", "append"}
    BY <1>1, <2>3, <2>6 DEF Loading, Loaded
  <2>9. rewrites = 0 => bundle[r.name]["manifest"] = r.verified
    BY <1>1, <2>1, <2>3 DEF Sound, Undisturbed, Loading
  <2> QED BY <1>1, <2>2, <2>3, <2>4, <2>7, <2>8, <2>9, LoadStep
<1> QED BY <1>2, <1>3

(* The hash read after the inference.                                        *)
LEMMA InferStep ==
  ASSUME NEW p \in Procs, IInv, Infer(p)
  PROVE  IInv'
<1> DEFINE v == bundle[job[p].name]["manifest"]
           r == [job[p] EXCEPT !.pc = "lock", !.hash = v]
<1>1. job[p].pc = "infer"
      /\ UNCHANGED <<current, bundle, pointer, log, cycleLock, logLock, made, starts, others,
                     rewrites>>
  BY DEF Infer, counters
<1>2. job[p] \in JobType /\ Sound(p) /\ v \in Nat
  BY <1>1, Loads DEF Loading, Loaded, Contents, Files
<1>3. job' = [job EXCEPT ![p] = r]
  BY DEF Infer, Hashed, IInv, TypeOK, JobType
<1>4. r.pc = "lock" /\ r.kind = job[p].kind /\ r.own = job[p].own /\ r.gen = job[p].gen
      /\ r.name = job[p].name /\ r.champion = job[p].champion
      /\ r.verified = job[p].verified /\ r.hash = v /\ r.loaded = job[p].loaded
  BY <1>2 DEF JobType
<1>5. r \in JobType
  <2>1. "lock" \in {"idle"} \cup UNION {Points(k) : k \in Kinds}
    BY LoadingTyped DEF Loading, Loaded
  <2> HIDE DEF v
  <2> QED BY <1>2, <2>1 DEF JobType
<1>6. rewrites = 0 => bundle[r.name]["manifest"] = r.verified /\ r.hash = r.verified
  BY <1>1, <1>2, <1>4 DEF Sound, Undisturbed, Loading, Loaded
<1> HIDE DEF r, v
<1>7. Copied(p)'
  BY <1>1, <1>2, <1>3, <1>4 DEF Sound, Copied, Loaded, IInv, TypeOK
<1>8. job[p].pc \in Loading \ {"append"} /\ r.pc \in Loading
  BY <1>1, <1>4 DEF Loading, Loaded
<1> QED BY <1>1, <1>3, <1>4, <1>5, <1>6, <1>7, <1>8, LoadStep

(* The lock of the log is taken when it is free.                             *)
LEMMA LockLogStep ==
  ASSUME NEW p \in Procs, IInv, LockLog(p)
  PROVE  IInv'
<1>1. job[p].pc = "lock"
      /\ UNCHANGED <<current, bundle, pointer, log, made, starts, others, rewrites>>
  BY DEF LockLog, counters
<1>2. CASE Leave(p)
  BY <1>1, <1>2, LeaveStep
<1>3. CASE ~ Leave(p)
  <2> DEFINE r == [job[p] EXCEPT !.pc = "append"]
  <2>1. job[p] \in JobType /\ Sound(p)
    BY <1>1, Loads DEF Loading, Loaded
  <2>2. logLock = None /\ logLock' = p /\ cycleLock' = cycleLock
        /\ job' = [job EXCEPT ![p] = r]
    BY <1>3 DEF LockLog, IInv, TypeOK, JobType
  <2>3. r.pc = "append" /\ r.kind = job[p].kind /\ r.own = job[p].own /\ r.gen = job[p].gen
        /\ r.name = job[p].name /\ r.champion = job[p].champion
        /\ r.verified = job[p].verified /\ r.hash = job[p].hash /\ r.loaded = job[p].loaded
    BY <2>1 DEF JobType
  <2>4. r \in JobType
    <3>1. "append" \in {"idle"} \cup UNION {Points(k) : k \in Kinds}
      BY LoadingTyped DEF Loading, Loaded
    <3> QED BY <2>1, <3>1 DEF JobType
  <2> HIDE DEF r
  <2>5. rewrites = 0 => bundle[r.name]["manifest"] = r.verified /\ r.hash = r.verified
    BY <1>1, <2>1, <2>3 DEF Sound, Undisturbed, Loading, Loaded
  <2>6. Copied(p)'
    BY <1>1, <2>1, <2>2, <2>3 DEF Sound, Copied, Loaded, IInv, TypeOK
  <2>7. job[p].pc \in Loading \ {"append"} /\ r.pc \in Loading
    BY <1>1, <2>3 DEF Loading, Loaded
  <2> QED BY <1>1, <2>2, <2>3, <2>4, <2>5, <2>6, <2>7, LoadStep
<1> QED BY <1>2, <1>3

(* The log grows by one entry.  No other quick cycle is under way when a     *)
(* cycle logs, since both would hold the lock of the cycles.                 *)
LEMMA AppendEntryStep ==
  ASSUME NEW p \in Procs, IInv, AppendEntry(p)
  PROVE  IInv'
<1> DEFINE n == Len(log)
           e == Entry(p)
<1>1. job[p].pc = "append" /\ log' = Append(log, e) /\ Leave(p)
      /\ UNCHANGED <<current, bundle, pointer, made, starts, others, rewrites>>
  BY DEF AppendEntry, counters
<1>2. job[p] \in JobType /\ Sound(p) /\ Infers(p) /\ job[p].kind \in Kinds
  BY <1>1, Loads DEF Loading, Loaded
<1>3. e \in EntryType
  BY <1>2 DEF Entry, EntryType, JobType
<1>4. e.kind = job[p].kind /\ e.own = job[p].own /\ e.gen = job[p].gen
      /\ e.champion = job[p].champion /\ e.verified = job[p].verified
      /\ e.loaded = job[p].loaded /\ e.hash = job[p].hash
  BY DEF Entry
<1> HIDE DEF e
<1>5. log \in Seq(EntryType) /\ current \in Nat /\ job \in [Procs -> JobType]
  BY DEF IInv, TypeOK
<1>6. n \in Nat /\ log' \in Seq(EntryType) /\ Len(log') = n + 1
      /\ (\A i \in 1..n : log'[i] = log[i]) /\ log'[n + 1] = e
  BY <1>1, <1>3, <1>5
<1>7. TypeOK'
  BY <1>1, <1>6, Left DEF IInv, TypeOK
<1>8. e.kind = "quick" => /\ cycleLock = p /\ e.own <= e.gen /\ e.gen <= current
                          /\ \A i \in 1..n : Quick(i) => log[i].gen < e.own
  <2>1. job[p].pc \notin {"idle", "ingest", "resolve", "capture"}
    BY <1>1
  <2> QED BY <1>2, <1>4, <2>1 DEF Sound, Staged, Advancing, Cycles
<1>9. e.own \in Nat /\ e.gen \in Nat /\ \A i \in 1..n : log[i].gen \in Nat
  BY <1>3, <1>5, LogTyped DEF EntryType
<1>10. ASSUME NEW q \in Procs, q # p PROVE Sound(q)'
  <2>1. TypeOK /\ Sound(q) /\ job'[q] = job[q]
    BY <1>1, <1>10, Left DEF IInv, Sound
  <2>2. ASSUME job[q].kind = "quick", job[q].pc \notin {"idle", "ingest"},
               NEW i \in 1..Len(log'), Quick(i)'
        PROVE  log'[i].gen < job[q].own
    <3>1. cycleLock = q
      BY <2>1, <2>2 DEF Sound, Staged, Cycles
    <3>2. e.kind # "quick"
      BY <1>8, <1>10, <3>1
    <3>3. i \in 1..n /\ Quick(i)
      BY <1>6, <2>2, <3>2 DEF Quick
    <3>4. log[i].gen < job[q].own
      BY <2>1, <2>2, <3>3 DEF Sound, Advancing, Cycles
    <3> QED BY <1>6, <3>3, <3>4
  <2>3. /\ (cycleLock' = q) <=> (cycleLock = q)
        /\ (logLock' = q) <=> (logLock = q)
    BY <1>1, <1>10, Left
  <2>4. current' \in Nat /\ current <= current'
    BY <1>1, <1>5
  <2> QED BY <1>1, <2>1, <2>2, <2>3, <2>4, OthersStaySound
<1>11. LogIsPast'
  <2> SUFFICES ASSUME NEW i \in 1..(n + 1), Quick(i)' PROVE log'[i].gen <= current
    BY <1>1, <1>6 DEF LogIsPast
  <2>1. CASE i = n + 1
    BY <1>6, <1>8, <2>1 DEF Quick
  <2>2. CASE i \in 1..n
    BY <1>6, <2>2 DEF Quick, IInv, LogIsPast
  <2> QED BY <1>6, <2>1, <2>2
<1>12. \A f \in Entries' : f \in Entries \/ f = e
  BY <1>6 DEF Entries
<1>13. SignalIsOfOnePiece'
  <2>1. \A f \in Payload : e.loaded[f] = e.verified
    BY <1>1, <1>2, <1>4 DEF Sound, Copied, Loaded
  <2> QED BY <1>12, <2>1 DEF IInv, SignalIsOfOnePiece
<1>14. LoggedHashIsLoaded'
  <2>1. rewrites = 0 => e.hash = e.verified /\ e.champion \in {None, e.verified}
    BY <1>1, <1>2, <1>4 DEF Sound, Undisturbed, Loading, Loaded
  <2> QED BY <1>1, <1>12, <2>1 DEF IInv, LoggedHashIsLoaded
<1>15. SignalsAdvance'
  <2> SUFFICES ASSUME NEW i \in 1..(n + 1), NEW j \in 1..(n + 1), i < j,
                      log'[i].kind = "quick", log'[j].kind = "quick"
               PROVE  log'[i].gen < log'[j].gen /\ log'[i].gen < log'[j].own
                      /\ log'[j].own <= log'[j].gen
    BY <1>6 DEF SignalsAdvance
  <2>1. i \in 1..n /\ log'[i] = log[i]
    BY <1>6
  <2>2. CASE j = n + 1
    BY <1>6, <1>8, <1>9, <2>1, <2>2 DEF Quick
  <2>3. CASE j \in 1..n
    BY <1>6, <2>1, <2>3 DEF IInv, SignalsAdvance
  <2> QED BY <1>6, <2>2, <2>3
<1>16. CyclePromotesItsOwn'
  BY <1>1 DEF IInv, CyclePromotesItsOwn
<1>17. Sound(p)'
  BY <1>1, Left
<1> QED BY <1>7, <1>10, <1>11, <1>13, <1>14, <1>15, <1>16, <1>17 DEF IInv, Sound

(* Exporting: a version of its own, under a name that was free.              *)
LEMMA ExportStep ==
  ASSUME NEW p \in Procs, IInv, Export(p)
  PROVE  IInv'
<1>1. job[p].pc = "export"
      /\ UNCHANGED <<current, bundle, pointer, log, starts, others, rewrites>>
  BY DEF Export, counters
<1>2. CASE Leave(p) /\ UNCHANGED made
  BY <1>1, <1>2, LeaveStep
<1>3. CASE ~ (Leave(p) /\ UNCHANGED made)
  <2>1. PICK n \in Names :
          /\ made' = made + 1 /\ UNCHANGED <<cycleLock, logLock>>
          /\ job' = [job EXCEPT ![p].pc = "rename", ![p].name = n, ![p].verified = made + 1]
    BY <1>3 DEF Export
  <2> DEFINE v == made + 1
             r == [job[p] EXCEPT !.pc = "rename", !.name = n, !.verified = v]
  <2>2. job[p] \in JobType /\ Sound(p) /\ v \in Nat
    BY DEF IInv, TypeOK, Sound
  <2>3. job' = [job EXCEPT ![p] = r]
    BY <2>1 DEF IInv, TypeOK, JobType
  <2>4. r.pc = "rename" /\ r.kind = job[p].kind /\ r.own = job[p].own /\ r.gen = job[p].gen
        /\ r.name = n /\ r.champion = job[p].champion
    BY <2>2 DEF JobType
  <2>5. job[p].kind \in {"deep", "train"}
    BY <1>1, <2>2, PointsOfKinds DEF Sound, Staged
  <2>6. r.kind \in Kinds /\ r.pc \in Points(r.kind)
    BY <2>4, <2>5 DEF Points, Kinds, Cycles
  <2>7. r \in JobType
    <3>1. "rename" \in {"idle"} \cup UNION {Points(k) : k \in Kinds}
      BY <2>4, <2>6, PointsTyped
    <3> HIDE DEF v
    <3> QED BY <2>2, <3>1 DEF JobType
  <2> HIDE DEF r, v
  <2>8. job'[p] = r
    BY <2>3 DEF IInv, TypeOK
  <2>9. Staged(p)'
    BY <1>1, <2>1, <2>2, <2>4, <2>6, <2>8 DEF Sound, Staged
  <2>10. Named(p)' /\ Copied(p)'
    BY <2>4, <2>5, <2>8 DEF Named, Copied, Infers, Loaded
  <2>11. Advancing(p)'
    BY <1>1, <2>2, <2>4, <2>5, <2>8 DEF Sound, Advancing, Quick
  <2>12. Undisturbed(p)'
    BY <2>2, <2>4, <2>5, <2>8 DEF Sound, Undisturbed, Infers, Loading, Loaded
  <2>13. {current', made', starts', others'} \subseteq Nat /\ current <= current'
    BY <1>1, <2>1, <2>2 DEF IInv, TypeOK
  <2> QED BY <1>1, <2>1, <2>3, <2>7, <2>9, <2>10, <2>11, <2>12, <2>13, QuietStep
             DEF IInv, TypeOK, Sound
<1> QED BY <1>2, <1>3

(* The rename fills a name that is free and touches no other.                *)
LEMMA RenameStep ==
  ASSUME NEW p \in Procs, IInv, Rename(p)
  PROVE  IInv'
<1> DEFINE n == job[p].name
           v == job[p].verified
           r == [job[p] EXCEPT !.pc = "promote"]
<1>1. job[p].pc = "rename"
      /\ UNCHANGED <<current, pointer, log, made, starts, others, rewrites>>
  BY DEF Rename, counters
<1>2. job[p] \in JobType /\ Sound(p) /\ n \in Names /\ v \in Nat
  BY <1>1 DEF IInv, TypeOK, Sound, Named, JobType
<1>3. CASE bundle[n] # None
  BY <1>1, <1>3, LeaveStep DEF Rename
<1>4. CASE bundle[n] = None
  <2>1. bundle' = [bundle EXCEPT ![n] = Whole(v)]
    BY <1>4 DEF Rename
  <2>2. Whole(v) \in Contents /\ Whole(v)["manifest"] = v
    BY <1>2 DEF Whole, Contents, Files
  <2>3. bundle' \in [Names -> Contents \cup {None}] /\ bundle'[n] = Whole(v)
        /\ \A m \in Names : bundle[m] # None => bundle'[m] = bundle[m]
    BY <1>2, <1>4, <2>1, <2>2 DEF IInv, TypeOK
  <2>4. {current', made', starts', others'} \subseteq Nat /\ current <= current'
    BY <1>1 DEF IInv, TypeOK
  <2>5. CASE Leave(p)
    BY <1>1, <2>3, <2>4, <2>5, Left, GrowStep
  <2>6. CASE ~ Leave(p)
    <3>1. job[p].kind = "deep" /\ UNCHANGED <<cycleLock, logLock>>
          /\ job' = [job EXCEPT ![p] = r]
      BY <1>4, <2>6 DEF Rename, IInv, TypeOK, JobType
    <3>2. r.pc = "promote" /\ r.kind = "deep" /\ r.own = job[p].own /\ r.gen = job[p].gen
          /\ r.name = n /\ r.champion = job[p].champion /\ r.verified = v
      BY <1>2, <3>1 DEF JobType
    <3>3. "promote" \in Points("deep") /\ "deep" \in Kinds
      BY DEF Points, Kinds, Cycles
    <3>4. r \in JobType
      <4>1. "promote" \in {"idle"} \cup UNION {Points(k) : k \in Kinds}
        BY <3>3, PointsTyped
      <4> QED BY <1>2, <4>1 DEF JobType
    <3> HIDE DEF r, n, v
    <3>5. job'[p] = r
      BY <3>1 DEF IInv, TypeOK
    <3>6. Staged(p)'
      BY <1>1, <1>2, <3>1, <3>2, <3>3, <3>5 DEF Sound, Staged
    <3>7. Named(p)' /\ Copied(p)'
      BY <1>2, <2>2, <2>3, <3>2, <3>5, NamesAssumption DEF Named, Copied, Infers, Loaded
    <3>8. Advancing(p)'
      BY <1>1, <1>2, <3>1, <3>2, <3>5 DEF Sound, Advancing, Quick, Cycles
    <3>9. Undisturbed(p)'
      BY <1>2, <2>2, <2>3, <3>1, <3>2, <3>5 DEF Sound, Undisturbed, Infers
    <3> QED BY <1>1, <2>3, <2>4, <3>1, <3>4, <3>6, <3>7, <3>8, <3>9, GrowStep
               DEF IInv, TypeOK, Sound
  <2> QED BY <2>5, <2>6
<1> QED BY <1>3, <1>4

(* What a deep cycle promotes is what it exported.                           *)
LEMMA PromoteStep ==
  ASSUME NEW p \in Procs, IInv, Promote(p)
  PROVE  IInv'
<1> DEFINE n == job[p].name
           w == [name |-> n, manifest |-> bundle[n]["manifest"],
                 exported |-> job[p].verified, gen |-> job[p].gen, own |-> job[p].own]
<1>1. job[p].pc = "promote" /\ Leave(p)
      /\ UNCHANGED <<current, bundle, log, made, starts, others, rewrites>>
  BY DEF Promote, counters
<1>2. CASE UNCHANGED pointer
  BY <1>1, <1>2, LeaveStep
<1>3. CASE pointer' # pointer
  <2>1. pointer' = w
    BY <1>3 DEF Promote
  <2>2. job[p] \in JobType /\ Sound(p) /\ n \in Names /\ bundle[n] \in Contents
    BY <1>1 DEF IInv, TypeOK, Sound, Named
  <2>3. job[p].kind = "deep"
    BY <1>1, <2>2, PointsOfKinds DEF Sound, Staged
  <2>4. w \in PointerType
    BY <2>2 DEF PointerType, JobType, Contents, Files
  <2>5. TypeOK'
    BY <1>1, <2>1, <2>4, Left DEF IInv, TypeOK
  <2>6. ASSUME NEW q \in Procs, q # p PROVE Sound(q)'
    <3>1. TypeOK /\ Sound(q) /\ job'[q] = job[q] /\ current' \in Nat /\ current <= current'
      BY <1>1, <2>6, Left DEF IInv, Sound, TypeOK
    <3>2. /\ (cycleLock' = q) <=> (cycleLock = q)
          /\ (logLock' = q) <=> (logLock = q)
      BY <1>1, <2>6, Left
    <3>3. (job[q].kind = "quick" /\ job[q].pc \notin {"idle", "ingest"}) =>
              \A i \in 1..Len(log') : Quick(i)' => log'[i].gen < job[q].own
      BY <1>1, <3>1 DEF Sound, Advancing, Cycles, Quick
    <3> QED BY <1>1, <3>1, <3>2, <3>3, OthersStaySound
  <2>7. CyclePromotesItsOwn'
    <3>1. job[p].own <= job[p].gen
      BY <1>1, <2>2, <2>3 DEF Sound, Advancing, Cycles
    <3>2. rewrites = 0 => bundle[n]["manifest"] = job[p].verified
      BY <1>1, <2>2 DEF Sound, Undisturbed
    <3> QED BY <1>1, <2>1, <3>1, <3>2 DEF CyclePromotesItsOwn
  <2>8. LogIsPast' /\ SignalIsOfOnePiece' /\ SignalsAdvance' /\ LoggedHashIsLoaded'
    BY <1>1 DEF IInv, LogIsPast, Quick, SignalIsOfOnePiece, SignalsAdvance,
                LoggedHashIsLoaded, Entries
  <2>9. Sound(p)'
    BY <1>1, Left
  <2> QED BY <2>5, <2>6, <2>7, <2>8, <2>9 DEF IInv, Sound
<1> QED BY <1>2, <1>3

(* An exception, or the end of the process.                                  *)
LEMMA RaiseStep ==
  ASSUME NEW p \in Procs, IInv, Raise(p)
  PROVE  IInv'
<1>1. Leave(p) /\ UNCHANGED <<current, bundle, pointer, log, made, starts, others, rewrites>>
  BY DEF Raise, counters
<1> QED BY <1>1, LeaveStep

(* A step of none of the processes leaves all their operations sound.        *)
LEMMA AllStaySound ==
  ASSUME IInv, UNCHANGED <<job, cycleLock, logLock, log>>,
         current' \in Nat, current <= current',
         \A n \in Names : bundle[n] # None =>
            bundle'[n] # None /\ (rewrites' = 0 => bundle'[n] = bundle[n]),
         rewrites' = 0 => rewrites = 0
  PROVE  \A p \in Procs : Sound(p)'
<1> TAKE q \in Procs
<1>1. TypeOK /\ Sound(q)
  BY DEF IInv, Sound
<1>2. (job[q].kind = "quick" /\ job[q].pc \notin {"idle", "ingest"}) =>
          \A i \in 1..Len(log') : Quick(i)' => log'[i].gen < job[q].own
  BY <1>1 DEF Sound, Advancing, Cycles, Quick
<1>3. job'[q] = job[q]
  OBVIOUS
<1>4. /\ (cycleLock' = q) <=> (cycleLock = q)
      /\ (logLock' = q) <=> (logLock = q)
  OBVIOUS
<1> QED BY <1>1, <1>2, <1>3, <1>4, OthersStaySound

(* A foreign ingestion makes the current generation newer, nothing else.      *)
LEMMA OtherIngestStep ==
  ASSUME IInv, OtherIngest
  PROVE  IInv'
<1>1. current \in Nat /\ current' = current + 1 /\ others' = others + 1
      /\ UNCHANGED <<bundle, pointer, log, cycleLock, logLock, job, made, starts, rewrites>>
  BY DEF IInv, TypeOK, OtherIngest
<1>2. TypeOK'
  BY <1>1 DEF IInv, TypeOK
<1>3. current' \in Nat /\ current <= current'
      /\ \A n \in Names : bundle[n] # None =>
            bundle'[n] # None /\ (rewrites' = 0 => bundle'[n] = bundle[n])
  BY <1>1
<1>4. \A p \in Procs : Sound(p)'
  BY <1>1, <1>3, AllStaySound
<1>5. /\ LogIsPast' /\ SignalIsOfOnePiece' /\ SignalsAdvance'
      /\ LoggedHashIsLoaded' /\ CyclePromotesItsOwn'
  BY <1>1, <1>3, RecordsKept
<1> QED BY <1>2, <1>4, <1>5 DEF IInv, Sound

(* A foreign promotion names no export of a cycle.                           *)
LEMMA OtherPromoteStep ==
  ASSUME IInv, OtherPromote
  PROVE  IInv'
<1>1. UNCHANGED <<current, bundle, log, cycleLock, logLock, job, made, starts, others, rewrites>>
  BY DEF OtherPromote, counters
<1>2. PICK n \in Names :
        /\ bundle[n] # None
        /\ pointer' = [name |-> n, manifest |-> bundle[n]["manifest"],
                       exported |-> None, gen |-> 0, own |-> 0]
  BY DEF OtherPromote, Verifies
<1>3. bundle[n]["manifest"] \in Nat
  BY <1>2 DEF IInv, TypeOK, Contents, Files
<1>4. TypeOK'
  BY <1>1, <1>2, <1>3 DEF IInv, TypeOK, PointerType
<1>5. current' \in Nat /\ current <= current'
      /\ \A m \in Names : bundle[m] # None =>
            bundle'[m] # None /\ (rewrites' = 0 => bundle'[m] = bundle[m])
  BY <1>1 DEF IInv, TypeOK
<1>6. \A p \in Procs : Sound(p)'
  BY <1>1, <1>5, AllStaySound
<1>7. LogIsPast' /\ SignalIsOfOnePiece' /\ SignalsAdvance' /\ LoggedHashIsLoaded'
  BY <1>1 DEF IInv, LogIsPast, Quick, SignalIsOfOnePiece, SignalsAdvance,
              LoggedHashIsLoaded, Entries
<1>8. CyclePromotesItsOwn'
  BY <1>2 DEF CyclePromotesItsOwn
<1> QED BY <1>4, <1>6, <1>7, <1>8 DEF IInv, Sound

(* A rewrite changes a bundle that stays one.                                *)
LEMMA RewriteStep ==
  ASSUME IInv, Rewrite
  PROVE  IInv'
<1>1. rewrites \in Nat /\ rewrites' = rewrites + 1 /\ current \in Nat
      /\ UNCHANGED <<current, pointer, log, cycleLock, logLock, job, made, starts, others>>
  BY DEF IInv, TypeOK, Rewrite
<1>2. PICK n \in Names, f \in Files, v \in 1..made :
        bundle[n] # None /\ bundle' = [bundle EXCEPT ![n][f] = v]
  BY DEF Rewrite
<1>3. [bundle[n] EXCEPT ![f] = v] \in Contents
  BY <1>2 DEF IInv, TypeOK, Contents
<1>4. bundle' \in [Names -> Contents \cup {None}] /\ bundle'[n] # None
      /\ \A m \in Names : m # n => bundle'[m] = bundle[m]
  BY <1>2, <1>3, NamesAssumption DEF IInv, TypeOK
<1>5. TypeOK'
  BY <1>1, <1>4 DEF IInv, TypeOK
<1>6. rewrites' # 0 /\ current' \in Nat /\ current <= current'
      /\ \A m \in Names : bundle[m] # None =>
            bundle'[m] # None /\ (rewrites' = 0 => bundle'[m] = bundle[m])
  BY <1>1, <1>4
<1>7. \A p \in Procs : Sound(p)'
  BY <1>1, <1>6, AllStaySound
<1>8. /\ LogIsPast' /\ SignalIsOfOnePiece' /\ SignalsAdvance'
      /\ LoggedHashIsLoaded' /\ CyclePromotesItsOwn'
  BY <1>1, <1>6, RecordsKept
<1> QED BY <1>5, <1>7, <1>8 DEF IInv, Sound

(* Every step preserves the invariant.                                       *)
LEMMA CyclesStep ==
  ASSUME IInv, [Next]_vars
  PROVE  IInv'
<1>1. CASE UNCHANGED vars
  <2>1. UNCHANGED <<current, bundle, pointer, log, cycleLock, logLock, job, made, starts,
                    others, rewrites>>
    BY <1>1 DEF vars
  <2>2. TypeOK' /\ current' \in Nat /\ current <= current'
        /\ \A m \in Names : bundle[m] # None =>
              bundle'[m] # None /\ (rewrites' = 0 => bundle'[m] = bundle[m])
    BY <2>1 DEF IInv, TypeOK
  <2>3. \A p \in Procs : Sound(p)'
    BY <2>1, <2>2, AllStaySound
  <2>4. /\ LogIsPast' /\ SignalIsOfOnePiece' /\ SignalsAdvance'
        /\ LoggedHashIsLoaded' /\ CyclePromotesItsOwn'
    BY <2>1, <2>2, RecordsKept
  <2> QED BY <2>2, <2>3, <2>4 DEF IInv, Sound
<1>2. ASSUME NEW p \in Procs, Step(p)
      PROVE  IInv'
  <2>1. CASE Ingest(p) \/ Resolve(p) \/ Choose(p) \/ Capture(p) \/ PrimaryFrame(p)
    BY <2>1, IngestStep, ResolveStep, ChooseStep, CaptureStep
  <2>2. CASE OpenManifest(p) \/ (\E f \in Payload : Verify(p, f) \/ Copy(p, f))
    BY <2>2, OpenManifestStep, VerifyStep, CopyStep
  <2>3. CASE Infer(p) \/ LockLog(p) \/ AppendEntry(p)
    BY <2>3, InferStep, LockLogStep, AppendEntryStep
  <2>4. CASE Export(p) \/ Rename(p) \/ Promote(p)
    BY <2>4, ExportStep, RenameStep, PromoteStep
  <2> QED BY <1>2, <2>1, <2>2, <2>3, <2>4 DEF Step
<1>3. ASSUME NEW p \in Procs, Raise(p) \/ \E kind \in Kinds : Start(p, kind)
      PROVE  IInv'
  BY <1>3, RaiseStep, StartStep
<1>4. CASE OtherIngest \/ OtherPromote \/ Rewrite
  BY <1>4, OtherIngestStep, OtherPromoteStep, RewriteStep
<1> QED BY <1>1, <1>2, <1>3, <1>4 DEF Next

(* The scheduled cycles and paper inference, for any processes, any names,   *)
(* any number of bundle files and any number of operations, foreign          *)
(* ingestions and rewrites: every operation is at a point of its kind and    *)
(* holds its locks exactly there, the bundle it works on stays, a cycle      *)
(* works on its own ingestion or a newer one, and what was copied or hashed  *)
(* is what was verified (scheduler.py, live.py, bundles.py).                 *)
THEOREM CyclesInvariance == Spec => []IInv
<1>1. Init => IInv
  BY Initially
<1>2. IInv /\ [Next]_vars => IInv'
  BY CyclesStep
<1> QED BY <1>1, <1>2, PTL DEF Spec

(* load_bundle: the model, the scaler, the features and the configuration    *)
(* behind a logged signal are the bytes of the one manifest it verified,     *)
(* however many files a concurrent writer changes.                           *)
THEOREM OnePiece == Spec => []SignalIsOfOnePiece
<1>1. IInv => SignalIsOfOnePiece
  BY DEF IInv
<1> QED BY <1>1, CyclesInvariance, PTL

(* quick_cycle: the signals of the cycles never go back in time, however     *)
(* many processes commit generations meanwhile.                              *)
THEOREM SignalsGoForward == Spec => []SignalsAdvance
<1>1. IInv => SignalsAdvance
  BY DEF IInv
<1> QED BY <1>1, CyclesInvariance, PTL

(* generate_paper_signal: while no bundle is changed in place, the manifest  *)
(* hash read after the inference is that of the bytes that were loaded, and  *)
(* of the champion that was resolved.                                        *)
THEOREM HashIsOfTheLoaded == Spec => []LoggedHashIsLoaded
<1>1. IInv => LoggedHashIsLoaded
  BY DEF IInv
<1> QED BY <1>1, CyclesInvariance, PTL

(* deep_cycle: whatever other process exports under the same name, a cycle   *)
(* that promotes makes its own export the champion.                          *)
THEOREM DeepCyclePromotesItsOwn == Spec => []CyclePromotesItsOwn
<1>1. IInv => CyclePromotesItsOwn
  BY DEF IInv
<1> QED BY <1>1, CyclesInvariance, PTL

(* At most one cycle is under way, and whoever holds the lock of the cycles  *)
(* is one.                                                                   *)
UnderWay(p) == job[p].kind \in Cycles /\ job[p].pc # "idle"
OneCycle == /\ \A p, q \in Procs : UnderWay(p) /\ UnderWay(q) => p = q
            /\ \A p \in Procs : cycleLock = p => UnderWay(p)

(* _cycle_lock: quick and deep cycles exclude each other, and no end of a    *)
(* cycle - a return, an exception, a kill - leaves its lock behind.          *)
THEOREM CyclesExclude == Spec => []OneCycle
<1>1. IInv => OneCycle
  BY DEF IInv, Staged, OneCycle, UnderWay
<1> QED BY <1>1, CyclesInvariance, PTL
=============================================================================
