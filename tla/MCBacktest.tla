------------------------------ MODULE MCBacktest ------------------------------
(* A memory and a database on which backtests are run, at most twice, over     *)
(* files of up to three lines, cheap trades being small and dear ones large.   *)
EXTENDS Backtest

At(t) == {[ts |-> t, price |-> 1, volume |-> 1], [ts |-> t, price |-> 3, volume |-> 2]}
MCFiles ==
  LET lines == At(1) \union At(3) \union At(5) IN
    {<<>>} \union {<<a>> : a \in lines}
    \union {f \in lines \X lines : f[1].ts <= f[2].ts}
    \union {<<a, b>> : a \in At(5), b \in At(1)}
    \union {<<a, b, c>> : a \in At(1), b \in At(3), c \in At(5)}
=============================================================================
