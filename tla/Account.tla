------------------------------- MODULE Account -------------------------------
(* What a PretendBroker (brokers/PretendBroker.hpp) that chooses its amounts *)
(* promises its owner: the account never spends money it does not have, and  *)
(* pays the commission of every trade, once. That it never sells stock it    *)
(* does not have is promised from the price of one on: a sale earns one for  *)
(* each unit of stock the account has, at most, and so sells more than it    *)
(* has when a unit is worth less.                                            *)
EXTENDS Integers

CONSTANTS Funds,      \* the liquidity an account is opened with
          One,        \* the price of 1.0
          FeeDivisor  \* a commission is the value of the trade over FeeDivisor

VARIABLE balance      \* liquidity, stock and accumulated commission

Opened == [liquidity |-> Funds, stock |-> 0, commission |-> 0]

Init == balance = Opened

\* init() again, after a restart.
Open == balance' = Opened

Charged(value) == balance'.commission = balance.commission + value \div FeeDivisor

Buy ==
  LET spent == balance.liquidity - balance'.liquidity IN
    /\ spent \in 0 .. balance.liquidity - balance.commission
    /\ balance'.stock > balance.stock
    /\ Charged(spent)

Sell ==
  LET earned == balance'.liquidity - balance.liquidity
      sold == balance.stock - balance'.stock
  IN /\ earned \in 0 .. balance.stock * One
     /\ sold > 0
     /\ sold > balance.stock => earned < sold * One
     /\ Charged(earned)

Next == Open \/ Buy \/ Sell

Spec == Init /\ [][Next]_balance
=============================================================================
