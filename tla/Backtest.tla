------------------------------- MODULE Backtest -------------------------------
(***************************************************************************)
(* The threshold backtest of backtest.py that judges every model: on folds *)
(* (validation.py), on the replay window (replay.py) and on the locked     *)
(* holdout (holdout.py), each time once at the configured costs and once   *)
(* under a stress multiplier.                                              *)
(*                                                                         *)
(* Several ledgers run over the same bars, with probabilities and cost     *)
(* multipliers of their own.  Amounts are exact integers: a return or a    *)
(* cost counts units of 1/Unit, an equity or a peak after n bars counts    *)
(* units of 1/Unit^n, and scale is Unit^n, the initial capital.  Sharpe    *)
(* and the annualised return are left out.                                 *)
(***************************************************************************)
EXTENDS Integers, Sequences

CONSTANTS Ledgers,        \* the calls of run_backtest that are compared
          Unit,           \* resolution of returns and costs
          Returns,        \* returns a bar may have
          Probabilities,  \* what a model may answer
          Long, Short,    \* long_threshold, short_threshold
          Rate,           \* fee_bps + slippage_bps, for a change of one
          Multipliers,    \* cost_multiplier: 1, or stress_cost_multiplier
          Delay,          \* execution_delay_bars
          MaxBars         \* bound on the length of a ledger

ASSUME AmountAssumption ==
    /\ Unit \in Nat \ {0} /\ Returns \subseteq Int
    /\ Rate \in Nat /\ Multipliers \subseteq Nat
ASSUME SignalAssumption ==
    /\ Probabilities \subseteq Int /\ Long \in Int /\ Short \in Int
    /\ Short < Long
ASSUME DelayAssumption == Delay \in Nat \ {0} /\ MaxBars \in Nat

VARIABLES
    factor,    \* cost multiplier of each ledger
    bar,       \* bars settled so far
    scale,     \* the initial capital in the units of equity
    signal,    \* the signal column of each ledger
    position,  \* position held over the latest bar
    equity,    \* the loop's equity
    bankrupt,
    curve,     \* the equity column, the initial capital as its bar 0, all
               \* of it in the units of the latest bar
    peak,      \* running peak of the equity, the initial capital included
    worst,     \* equity and peak where the drawdown was deepest
    turnover, trades, active   \* sums over the evaluated bars

account == <<equity, bankrupt, curve, peak, worst>>
activity == <<turnover, trades, active>>
ledgerVars == <<factor, bar, scale, signal, position, account, activity>>

Abs(x) == IF x < 0 THEN -x ELSE x
Larger(x, y) == IF x < y THEN y ELSE x

(* probabilities_to_signal: the short rule is applied last. *)
Signal(p) == IF p <= Short THEN -1 ELSE IF p >= Long THEN 1 ELSE 0

(* What paper inference makes of the same probability, the long rule first. *)
PaperSignal(p) == IF p >= Long THEN 1 ELSE IF p <= Short THEN -1 ELSE 0

(* Mutation of PositionAt: one bar too early. *)
PositionEarly(s, n) == IF n >= Delay THEN s[n - Delay + 1] ELSE 0

(* The position over bar n: signals shifted by the delay, flat before. *)
PositionAt(s, n) == IF n > Delay THEN s[n - Delay] ELSE 0

(* Mutation of Change: a reduced position earns its costs back. *)
ChangeSigned(from, to) == to - from

Change(from, to) == Abs(to - from)

RawNet(from, to, r, m) == to * r - Change(from, to) * (Rate * m)

Ruined(e, raw) == raw <= -Unit \/ e * (Unit + raw) <= 0

(* The peak of the next bar, never below the initial capital. *)
RunningPeak(p, e) == Larger(p * Unit, e)

(* The drawdown e/p - 1 of x is below that of y. *)
Deeper(x, y) == x.equity * y.peak < y.equity * x.peak

(* Mutation of Deepest: the drawdown of the last bar is reported. *)
DeepestLast(w, e, p) == [equity |-> e, peak |-> p]

Deepest(w, e, p) ==
    LET now == [equity |-> e, peak |-> p] IN IF Deeper(now, w) THEN now ELSE w

(* Mutation of Evaluated: metrics run to the end of the ledger. *)
EvaluatedToTheEnd(broke) == TRUE

(* Bars after the one of the bankruptcy do not count. *)
Evaluated(broke) == ~broke

----------------------------------------------------------------------------
(* Before the first bar: flat, with an initial capital of one. *)
Opening ==
    /\ factor \in [Ledgers -> Multipliers]
    /\ bar = 0
    /\ scale = 1
    /\ signal = [l \in Ledgers |-> <<>>]
    /\ position = [l \in Ledgers |-> 0]
    /\ equity = [l \in Ledgers |-> 1]
    /\ bankrupt = [l \in Ledgers |-> FALSE]
    /\ curve = [l \in Ledgers |-> [i \in {0} |-> 1]]
    /\ peak = [l \in Ledgers |-> 1]
    /\ worst = [l \in Ledgers |-> [equity |-> 1, peak |-> 1]]
    /\ turnover = [l \in Ledgers |-> 0]
    /\ trades = [l \in Ledgers |-> 0]
    /\ active = [l \in Ledgers |-> 0]

(* The raw return of ledger l over a bar with return r. *)
Raw(l, r) == RawNet(position[l], position'[l], r, factor[l])

(* Equity is compounded until it is gone, and stays gone. *)
Compound(r) ==
    /\ bankrupt' = [l \in Ledgers |-> bankrupt[l] \/ Ruined(equity[l], Raw(l, r))]
    /\ equity' = [l \in Ledgers |->
                    IF bankrupt'[l] THEN 0 ELSE equity[l] * (Unit + Raw(l, r))]
    /\ curve' = [l \in Ledgers |-> [i \in 0 .. bar + 1 |->
                    IF i = bar + 1 THEN equity'[l] ELSE curve[l][i] * Unit]]
    /\ peak' = [l \in Ledgers |-> RunningPeak(peak[l], equity'[l])]
    /\ worst' = [l \in Ledgers |-> Deepest(worst[l], equity'[l], peak'[l])]

(* Turnover, trades and exposure of the evaluated bars. *)
Count ==
    LET moved(l) == Change(position[l], position'[l]) IN
    /\ turnover' = [l \in Ledgers |->
                      turnover[l] + IF Evaluated(bankrupt[l]) THEN moved(l) ELSE 0]
    /\ trades' = [l \in Ledgers |->
                      trades[l] + IF Evaluated(bankrupt[l]) /\ moved(l) > 0 THEN 1 ELSE 0]
    /\ active' = [l \in Ledgers |->
                      active[l] + IF Evaluated(bankrupt[l]) /\ position'[l] # 0 THEN 1 ELSE 0]

(* One bar of the ledgers: its return, and what each model makes of it. *)
Settle ==
    /\ bar < MaxBars
    /\ \E r \in Returns, probability \in [Ledgers -> Probabilities] :
          /\ signal' = [l \in Ledgers |-> Append(signal[l], Signal(probability[l]))]
          /\ position' = [l \in Ledgers |-> PositionAt(signal'[l], bar + 1)]
          /\ Compound(r)
          /\ Count
    /\ bar' = bar + 1
    /\ scale' = scale * Unit
    /\ UNCHANGED factor

LedgerSpec == Opening /\ [][Settle]_ledgerVars

----------------------------------------------------------------------------
Column(l) == <<position[l], equity[l], bankrupt[l], peak[l], worst[l],
               turnover[l], trades[l], active[l]>>

(* Nothing trades on the future: two models that agreed until Delay bars    *)
(* ago have the same ledger and the same metrics today, whatever they       *)
(* disagree on since (backtest.py shifts the signal column as a whole).     *)
NoLookahead ==
    \A a, b \in Ledgers :
        /\ factor[a] = factor[b]
        /\ \A i \in 1 .. bar - Delay : signal[a][i] = signal[b][i]
        => Column(a) = Column(b)

(* A stress test is a stress: with the same signals, higher costs never     *)
(* leave more equity, never avert a bankruptcy and never make a drawdown    *)
(* shallower.  The gates rely on it, as they ask the return of the          *)
(* stressed ledger and the drawdown of the other (replay.replay_gates).     *)
StressNeverBetter ==
    \A a, b \in Ledgers :
        signal[a] = signal[b] /\ factor[a] <= factor[b] =>
            /\ equity[b] <= equity[a]
            /\ bankrupt[a] => bankrupt[b]
            /\ ~Deeper(worst[a], worst[b])

(* The reported drawdown is at least as deep as every decline there was,    *)
(* from any earlier equity, the initial capital included, to any later one  *)
(* (the running peak and its minimum ratio in run_backtest).                *)
EveryDeclineShows ==
    \A l \in Ledgers : \A j \in 0 .. bar : \A i \in 0 .. j :
        worst[l].equity * curve[l][i] <= curve[l][j] * worst[l].peak

(* Bankruptcy is terminal: no later bar brings equity back, and none counts *)
(* in turnover, trades or exposure (the evaluated slice of run_backtest).   *)
NothingAfterBankruptcy ==
    [][\A l \in Ledgers : bankrupt[l] =>
          /\ bankrupt'[l] /\ equity'[l] = 0
          /\ <<turnover[l], trades[l], active[l]>>'
                = <<turnover[l], trades[l], active[l]>>]_ledgerVars

----------------------------------------------------------------------------
(* Every variable has its type; the columns are as long as the bars.        *)
LedgerTypes ==
    /\ factor \in [Ledgers -> Multipliers]
    /\ bar \in Nat
    /\ scale \in Nat \ {0}
    /\ signal \in [Ledgers -> Seq({-1, 0, 1})]
    /\ \A l \in Ledgers : Len(signal[l]) = bar
    /\ position \in [Ledgers -> {-1, 0, 1}]
    /\ equity \in [Ledgers -> Nat]
    /\ bankrupt \in [Ledgers -> BOOLEAN]
    /\ curve \in [Ledgers -> [0 .. bar -> Nat]]
    /\ peak \in [Ledgers -> Nat \ {0}]
    /\ worst \in [Ledgers -> [equity : Nat, peak : Nat \ {0}]]
    /\ turnover \in [Ledgers -> Nat]
    /\ trades \in [Ledgers -> Nat]
    /\ active \in [Ledgers -> Nat]

(* A ledger is solvent exactly while it has equity. *)
Solvent(l) == bankrupt[l] <=> equity[l] = 0

(* Its peak is that of the curve, which ends in its equity. *)
PeakIsHighest(l) ==
    /\ curve[l][bar] = equity[l]
    /\ \A i \in 0 .. bar : curve[l][i] <= peak[l]

(* The drawdown reported is at least the current one. *)
WorstIsDeepest(l) == worst[l].equity * peak[l] <= equity[l] * worst[l].peak

(* Under higher costs the current drawdown is deeper too. *)
StressDrawsDown ==
    \A a, b \in Ledgers :
        signal[a] = signal[b] /\ factor[a] <= factor[b] =>
            equity[b] * peak[a] <= equity[a] * peak[b]

(* What every bar preserves. *)
LedgerInv ==
    /\ LedgerTypes
    /\ \A l \in Ledgers : /\ position[l] = PositionAt(signal[l], bar)
                         /\ Solvent(l)
                         /\ PeakIsHighest(l)
                         /\ WorstIsDeepest(l)
    /\ EveryDeclineShows
    /\ NoLookahead
    /\ StressDrawsDown
    /\ StressNeverBetter
=============================================================================
