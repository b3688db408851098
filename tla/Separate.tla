------------------------------ MODULE Separate ------------------------------
(***************************************************************************)
(* Parts of the program that share no document and no call: the quota of   *)
(* provider requests, how often requests are made, the reading of the      *)
(* second provider, what a user is shown of his trading, and money from    *)
(* outside trading.  No step of one can matter to another, so a behaviour  *)
(* is one of a single part.                                                *)
(***************************************************************************)
EXTENDS RequestQuota, Cadence, Scoreboard, CricketLine, Portfolio, Accounts

CONSTANT Parts \* those followed

ASSUME PartsAssumption == Parts \subseteq {"quota", "cadence", "scoreboard", "reading", "portfolio", "accounts"}

VARIABLE part
vars == <<part, quotaVars, cadenceVars, scoreVars, lineVars, portfolioVars, accountVars>>

Init ==
  /\ part \in Parts
  /\ QuotaInit /\ CadenceInit /\ ScoreboardInit /\ CricketLineInit /\ PortfolioInit /\ AccountsInit

QuotaStep ==
  /\ part = "quota" /\ QuotaNext
  /\ UNCHANGED <<part, cadenceVars, scoreVars, lineVars, portfolioVars, accountVars>>

CadenceStep ==
  /\ part = "cadence" /\ CadenceNext
  /\ UNCHANGED <<part, quotaVars, scoreVars, lineVars, portfolioVars, accountVars>>

ScoreboardStep ==
  /\ part = "scoreboard" /\ ScoreboardNext
  /\ UNCHANGED <<part, quotaVars, cadenceVars, lineVars, portfolioVars, accountVars>>

ReadingStep ==
  /\ part = "reading" /\ CricketLineNext
  /\ UNCHANGED <<part, quotaVars, cadenceVars, scoreVars, portfolioVars, accountVars>>

PortfolioStep ==
  /\ part = "portfolio" /\ PortfolioNext
  /\ UNCHANGED <<part, quotaVars, cadenceVars, scoreVars, lineVars, accountVars>>

AccountsStep ==
  /\ part = "accounts" /\ AccountsNext
  /\ UNCHANGED <<part, quotaVars, cadenceVars, scoreVars, lineVars, portfolioVars>>

Next == QuotaStep \/ CadenceStep \/ ScoreboardStep \/ ReadingStep \/ PortfolioStep \/ AccountsStep
Spec == Init /\ [][Next]_vars
=============================================================================
