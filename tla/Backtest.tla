------------------------------- MODULE Backtest -------------------------------
(* A simulation like that of tests/bots.cpp: CSVSource parses a file into    *)
(* histories, a PretendBroker is opened on them, and a RandomBot is asked to *)
(* decide at regular times from the first trade to the last. Its price is an *)
(* average over trades of a history in which its own are put too. The        *)
(* program may die or end at any point and be run again, with or without     *)
(* parsing (must_parse), on what its databases still hold.                   *)
(* Broker has what is fed to the histories, one after the other. What a      *)
(* DBHistory has in its log it also has in its index here.                   *)
EXTENDS Broker, Functions

CONSTANTS Step,   \* the time between two decisions, and the length of a window
          Files   \* what the file may hold, up to the first line fscanf does not understand

Line == [ts : Nat \ {0}, price : Prices, volume : Nat \ {0}]
ASSUME StepAssumption  == Step \in Nat \ {0}
ASSUME FilesAssumption == Files \subseteq Seq(Line)

VARIABLES
  file,     \* what the file holds
  line,     \* how many of them this run has parsed
  phase,    \* where main() is
  watched,  \* _history of the bot
  span,     \* what get_time_span() said before the loop
  last      \* _last_price of the bot

program == <<line, phase, span, last>>
allVars == <<vars, file, watched, program>>

NoSpan == [from |-> NaN, to |-> NaN]

-----------------------------------------------------------------------------
(* What a history answers.                                                   *)

InWindow_Closed(log, b, e) == {i \in DOMAIN log : log[i].ts >= b /\ log[i].ts <= e}
InWindow(log, b, e) == {i \in DOMAIN log : log[i].ts > b /\ log[i].ts <= e}

\* The first, by timestamp and then by arrival, of the trades after e.
FirstBeyond(log, e) ==
  {i \in DOMAIN log : log[i].ts > e /\ \A j \in DOMAIN log :
     log[j].ts > e => log[i].ts < log[j].ts \/ (log[i].ts = log[j].ts /\ i <= j)}

(* get_trades_by_timestamp(b, e): the range of a MemoryHistory stops at e,   *)
(* that of a DBHistory begins with the first trade after b, whatever its     *)
(* timestamp (UpscaleBTree.hpp, line 107).                                   *)
ByTimestamp(h, b, e) ==
  LET asked == InWindow(trades[h], b, e) IN
    IF h \in Memory \/ asked # {} THEN asked ELSE FirstBeyond(trades[h], e)

(* TradeSummary counts a trade of the market, whose type is UNDEFINED, half  *)
(* as bought and half as sold, and one of a broker whole on its side. Halves *)
(* are counted here.                                                         *)
Halves(trade, side) ==
  CASE trade.type = "UNDEFINED" -> 1 [] trade.type = side -> 2 [] OTHER -> 0
Volumes(seen, side) == [i \in DOMAIN seen |-> Halves(seen[i], side) * seen[i].volume]
Values(seen, side)  == [i \in DOMAIN seen |-> Volumes(seen, side)[i] * seen[i].price]
Volume(seen, side)  == SumFunction(Volumes(seen, side))
Value(seen, side)   == SumFunction(Values(seen, side))

\* average_price, of at least one trade: that of none, 0 / 0, is not a number.
Average_PerTrade(seen) ==
  (Value(seen, "BUY") + Value(seen, "SELL")) \div (2 * Cardinality(DOMAIN seen))
Average(seen) ==
  (Value(seen, "BUY") + Value(seen, "SELL")) \div (Volume(seen, "BUY") + Volume(seen, "SELL"))

\* The trades a range shows.
Shown(log, S) == [i \in S |-> log[i]]

\* get_time_span: the least and the greatest timestamp of the trades.
TimeSpan(log) ==
  LET times == {log[i].ts : i \in DOMAIN log} IN
    IF times = {} THEN NoSpan
    ELSE [from |-> CHOOSE t \in times : \A s \in times : t <= s,
          to |-> CHOOSE t \in times : \A s \in times : s <= t]

-----------------------------------------------------------------------------
BacktestInit ==
  /\ Init
  /\ file \in Files
  /\ watched \in Histories
  /\ line = 0 /\ phase = "off" /\ span = NoSpan /\ last = NaN

\* main() begins.
Run(parse) ==
  /\ ~ up
  /\ up' = TRUE
  /\ lastId' = 0
  /\ line' = 0
  /\ phase' = IF parse THEN "parse" ELSE "open"
  /\ UNCHANGED <<logs, queue, to, now, count, crashes, file, watched, span, last>>

\* What is fed goes to every history before the caller goes on.
Returned == up /\ queue = <<>>
FeedNext ==
  /\ FeedOne
  /\ UNCHANGED <<file, watched, program>>

\* One turn of CSVSource::parse. Such trades have no orders to be fed with.
ParseLine ==
  /\ phase = "parse" /\ Returned
  /\ line < Len(file)
  /\ line' = line + 1
  /\ LET l == file[line'] IN
       queue' = <<Item("trade", [ts |-> l.ts, decision |-> 0, type |-> "UNDEFINED",
                                 volume |-> l.volume, price |-> l.price])>>
  /\ UNCHANGED <<logs, to, up, now, lastId, count, crashes, file, watched, phase, span, last>>

\* fscanf meets the end of the file, or a line it does not understand.
ParseEnds ==
  /\ phase = "parse" /\ Returned
  /\ line = Len(file)
  /\ phase' = "open"
  /\ UNCHANGED <<vars, file, watched, line, span, last>>

\* PretendBroker::init, at a time before every trade.
OpenAccount ==
  /\ phase = "open" /\ Returned
  /\ queue' = Opening
  /\ phase' = "span"
  /\ UNCHANGED <<logs, to, up, now, lastId, count, crashes, file, watched, line, span, last>>

\* The bot is made, and the loop begins at the first trade.
ReadSpan ==
  /\ phase = "span" /\ Returned
  /\ span' = TimeSpan(trades[watched])
  /\ now' = span'.from
  /\ last' = NaN
  /\ phase' = IF span' = NoSpan THEN "done" ELSE "loop"
  /\ UNCHANGED <<logs, queue, to, up, lastId, count, crashes, file, watched, line>>

(* RandomBot::decide at the time of the loop, which then goes on; rand()     *)
(* says whether it waits, and whether it buys or sells.                      *)
Price(t) ==
  LET asked == ByTimestamp(watched, t - Step, t) IN
    IF asked = {} THEN last ELSE Average(Shown(trades[watched], asked))

Decides(t, stamp) ==
  /\ phase = "loop" /\ Returned
  /\ t <= span.to
  /\ last' = Price(t)
  /\ lastId' = lastId + 1
  /\ now' = t + Step
  /\ \/ UNCHANGED queue
     \/ /\ last' # NaN
        /\ \E type \in {"BUY", "SELL"} : queue' = Effects(Decided(stamp, type, last', NaN))
  /\ UNCHANGED <<logs, to, up, count, crashes, file, watched, line, phase, span>>
Decide_StampedOnce == Decides(now, span.from)
Decide == Decides(now, now)

LoopEnds ==
  /\ phase = "loop" /\ Returned
  /\ now > span.to
  /\ phase' = "done"
  /\ UNCHANGED <<vars, file, watched, line, span, last>>

\* The program ends, or dies at any other point: memories are lost.
Dies ==
  /\ Crash
  /\ line' = 0 /\ phase' = "off" /\ span' = NoSpan /\ last' = NaN
  /\ UNCHANGED <<file, watched>>

\* Nobody runs it again.
Over ==
  /\ phase = "done" /\ Returned
  /\ UNCHANGED allVars

BacktestNext ==
  \/ \E parse \in BOOLEAN : Run(parse)
  \/ FeedNext
  \/ ParseLine \/ ParseEnds \/ OpenAccount \/ ReadSpan
  \/ Decide \/ LoopEnds
  \/ Dies
  \/ Over

BacktestSpec == BacktestInit /\ [][BacktestNext]_allVars

-----------------------------------------------------------------------------
(* Properties.                                                               *)

Times == Nat \union {NaN}

\* Every variable holds a value the program can give it.
BacktestTypeOK ==
  /\ file \in Files /\ watched \in Histories
  /\ line \in 0 .. Len(file)
  /\ phase \in {"off", "parse", "open", "span", "loop", "done"}
  /\ span \in [from : Times, to : Times] /\ now \in Times
  /\ last \in Nat \union {NaN}

Market(log) == {i \in DOMAIN log : log[i].type = "UNDEFINED"}

\* The windows of the decisions made so far, by their end.
Ends == {t \in span.from .. now - Step : (t - span.from) % Step = 0}
Traded(t) == Market(trades[watched]) \intersect InWindow(trades[watched], t - Step, t)

(* A bot decides by the market as it was: its price is the average over the  *)
(* trades of the market in the latest window that has any, the windows ended *)
(* before or at the time of the decision. So it sees no trade of the future, *)
(* and none of its own (a trade at t is in ]t-60, t], but the decision at t  *)
(* is made before it, and the next looks at ]t, t+60]; RandomBot.hpp, lines  *)
(* 25-29). Owed to a bot that reads a DBHistory only while no window was     *)
(* empty (UpscaleBTree.hpp, line 110), and no run before has left trades.    *)
Reference ==
  LET full == {t \in Ends : Traded(t) # {}}
      latest == CHOOSE t \in full : \A s \in full : s <= t
  IN Average(Shown(trades[watched], Traded(latest)))
PricesAreTheMarkets ==
  phase = "loop" /\ Ends # {}
    /\ (watched \in Memory \/ (crashes = 0 /\ \A t \in Ends : Traded(t) # {}))
    => last = Reference

(* In every run and whatever the runs before have left: a decision always    *)
(* has a price, and neither it nor a trade lies outside of what the file     *)
(* says prices are.                                                          *)
PricesStayInRange ==
  LET known == {file[n].price : n \in DOMAIN file} IN
    /\ phase = "loop" /\ Ends # {} => last # NaN
    /\ \A h \in Histories : \A i \in DOMAIN trades[h] :
         \E low, high \in known : trades[h][i].price \in low .. high
=============================================================================
