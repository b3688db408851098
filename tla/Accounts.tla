------------------------------ MODULE Accounts ------------------------------
(***************************************************************************)
(* Money that reaches a wallet outside trading: the welcome bonus of a     *)
(* sign-up, top-ups and administrators' adjustments, and the rewards of    *)
(* challenges (modules/wallet, modules/challenges, modules/auth).          *)
(*                                                                         *)
(* One user, one daily challenge and one academy challenge.  A call is one *)
(* request, handled by any API process.  An adjustment without an          *)
(* operation key changes the account and writes the ledger in two separate *)
(* writes; a reward carries a key and is one transaction.  Progress of a   *)
(* daily challenge is counted by the fills themselves, inside their        *)
(* transaction but not part of it.                                         *)
(***************************************************************************)
EXTENDS Integers, FiniteSets, FiniteSetsExt, Functions

CONSTANTS Calls,      \* requests, each served once
          Fills,      \* attempts to fill an order that closes at a profit
          Amounts,    \* amounts of top-ups, credits and debits
          Bonus,      \* the welcome bonus
          Rewards,    \* rewards of the challenges, one per deployed version
          Target,     \* profitable closes the daily challenge asks for
          Days,       \* the last UTC day of the run
          MaxCrashes, \* processes that stop, and writes that fail
          NoKey

ASSUME AccountsAssumption ==
  /\ IsFiniteSet(Calls) /\ IsFiniteSet(Fills) /\ NoKey \notin Nat
  /\ Amounts \cup Rewards \cup {Bonus} \subseteq Nat \ {0}
  /\ Target \in Nat \ {0} /\ Days \in Nat \ {0} /\ MaxCrashes \in Nat

VARIABLES user,     \* TRUE once the users collection holds the email
          account,  \* the wallet account: [exists, cash]
          ledger,   \* the ledger entries
          row,      \* per day, the progress document of the daily challenge
          fill,     \* per fill, how far its transaction is and the day of its close
          call,     \* per call, the local state of its handler
          today,    \* the UTC date
          orphaned, \* history: money moved by calls that died before the ledger
          crashes
accountVars == <<user, account, ledger, row, fill, call, today, orphaned, crashes>>
-----------------------------------------------------------------------------
\* The document a challenge's first close of a day creates.
NoRow == [exists |-> FALSE, progress |-> 0, fills |-> {}, claimed |-> FALSE]
NewFill == [step |-> "new", day |-> 0]
Waiting == [step |-> "new", kind |-> "none", delta |-> 0, key |-> NoKey]

AccountsInit ==
  /\ user = FALSE /\ account = [exists |-> FALSE, cash |-> 0] /\ ledger = {}
  /\ row = [d \in 1..Days |-> NoRow] /\ fill = [f \in Fills |-> NewFill]
  /\ call = [c \in Calls |-> Waiting] /\ today = 1 /\ orphaned = 0 /\ crashes = 0

At(c, step) == call[c].step = step
Goto(c, step) == call' = [call EXCEPT ![c].step = step]
Begin(c, step, kind, delta, key) ==
  call' = [call EXCEPT ![c] = [step |-> step, kind |-> kind, delta |-> delta, key |-> key]]
Entry(c) == [by |-> c, kind |-> call[c].kind, delta |-> call[c].delta, key |-> call[c].key]

\* An account is created empty by the first operation that needs it.
EnsureAccount == [account EXCEPT !.exists = TRUE]
-----------------------------------------------------------------------------
\* Sign-up: with a password the user is inserted at once, with Google the
\* email is looked up first.  The unique index on the email admits one; the
\* bonus is credited by a goroutine of the call that created the user.
LookUp(c) ==
  /\ At(c, "new") /\ ~user
  /\ Begin(c, "create", "bonus", Bonus, NoKey)
  /\ UNCHANGED <<user, account, ledger, row, fill, today, orphaned, crashes>>

Unique == ~user
Create(c) ==
  /\ At(c, "new") \/ At(c, "create")
  /\ IF Unique THEN Begin(c, "check", "bonus", Bonus, NoKey) ELSE Goto(c, "done")
  /\ user' = TRUE
  /\ UNCHANGED <<account, ledger, row, fill, today, orphaned, crashes>>

\* ApplyWelcomeCredit looks for an earlier bonus among the latest entries.
CheckBonus(c) ==
  /\ At(c, "check") /\ call[c].kind = "bonus"
  /\ Goto(c, IF \E e \in ledger : e.kind = "bonus" THEN "done" ELSE "update")
  /\ UNCHANGED <<user, account, ledger, row, fill, today, orphaned, crashes>>
-----------------------------------------------------------------------------
\* UserTopUp, AdminCredit and AdminDebit.  A debit is compared with the
\* balance before the repository is asked.
TopUp(c, amount) ==
  /\ At(c, "new")
  /\ Begin(c, "update", "topup", amount, NoKey)
  /\ UNCHANGED <<user, account, ledger, row, fill, today, orphaned, crashes>>

AdminDebit(c, amount) ==
  /\ At(c, "new")
  /\ Begin(c, IF EnsureAccount.cash < amount THEN "done" ELSE "update",
           "debit", -amount, NoKey)
  /\ account' = EnsureAccount
  /\ UNCHANGED <<user, ledger, row, fill, today, orphaned, crashes>>

\* Mutant: a debit relies on the comparison its handler made.
Trusted(c) == TRUE

\* The filter of the update: a debit needs the balance at that moment.
Affordable(c) == call[c].delta < 0 => EnsureAccount.cash >= -call[c].delta

\* ApplyAdjustment without a key: the account moves in one write ...
Adjust(c) ==
  /\ At(c, "update")
  /\ IF Affordable(c)
     THEN /\ account' = [EnsureAccount EXCEPT !.cash = @ + call[c].delta]
          /\ Goto(c, "insert")
     ELSE account' = EnsureAccount /\ Goto(c, "done")
  /\ UNCHANGED <<user, ledger, row, fill, today, orphaned, crashes>>

\* ... and the ledger entry follows in another.
InsertEntry(c) ==
  /\ At(c, "insert")
  /\ ledger' = ledger \cup {Entry(c)} /\ Goto(c, "done")
  /\ UNCHANGED <<user, account, row, fill, today, orphaned, crashes>>
-----------------------------------------------------------------------------
\* Claim of the daily challenge: the progress document of the day on which
\* the call arrived must be complete and not marked.
ClaimDaily(c, reward) ==
  LET r == row[today] IN
  /\ At(c, "new")
  /\ Begin(c, IF r.progress >= Target /\ ~r.claimed THEN "credit" ELSE "done",
           "daily", reward, today)
  /\ UNCHANGED <<user, account, ledger, row, fill, today, orphaned, crashes>>

\* Claim of the academy challenge: completion comes from the committed
\* positions, and whether it was paid from the ledger.
ClaimAcademy(c, reward) ==
  /\ At(c, "new")
  /\ Begin(c, IF (\E f \in Fills : fill[f].step = "done") /\ ~ \E e \in ledger : e.kind = "academy"
              THEN "credit" ELSE "done", "academy", reward, 0)
  /\ UNCHANGED <<user, account, ledger, row, fill, today, orphaned, crashes>>

\* Mutant: the ledger is not asked for the key.
Forgotten(c) == {}

\* Entries that already carry the operation key of a call.
PriorOperation(c) == {e \in ledger : e.key = call[c].key}

\* The keyed adjustment, one transaction; the loser of two concurrent calls
\* meets the unique index, retries and finds the winner's entry.  The same
\* inputs return its result, others are a conflict.
CreditReward(c) ==
  /\ At(c, "credit")
  /\ IF PriorOperation(c) = {}
     THEN /\ ledger' = ledger \cup {Entry(c)}
          /\ account' = [EnsureAccount EXCEPT !.cash = @ + call[c].delta]
     ELSE UNCHANGED <<ledger, account>>
  /\ Goto(c, IF call[c].kind = "daily" /\ \A e \in PriorOperation(c) : e.delta = call[c].delta
             THEN "mark" ELSE "done")
  /\ UNCHANGED <<user, row, fill, today, orphaned, crashes>>

\* MarkClaimed, a write of its own after the payment.
MarkClaimed(c) ==
  /\ At(c, "mark")
  /\ row' = [row EXCEPT ![call[c].key].claimed = TRUE] /\ Goto(c, "done")
  /\ UNCHANGED <<user, account, ledger, fill, today, orphaned, crashes>>
-----------------------------------------------------------------------------
\* A fill makes its execution; the UTC day of that instant is the day of the
\* close, whenever the close is counted.
StartFill(f) ==
  /\ fill[f].step = "new" /\ fill' = [fill EXCEPT ![f] = [step |-> "open", day |-> today]]
  /\ UNCHANGED <<user, account, ledger, row, call, today, orphaned, crashes>>

\* A fill counts once, up to the target.
WithClose(r, f) ==
  IF f \in r.fills THEN r
  ELSE [r EXCEPT !.exists = TRUE, !.fills = @ \cup {f}, !.progress = Min({@ + 1, Target})]

\* notifyProfitableClose: the observer is called inside the transaction of
\* the fill, on a context of its own; what it writes stays if the fill aborts.
Counted(f) == row' = [row EXCEPT ![fill[f].day] = WithClose(@, f)]

\* Increment on a document that exists.  The transaction may be retried, and
\* the observer with it: the fill id is counted once.
Increment(f) ==
  /\ fill[f].step = "open" /\ row[fill[f].day].exists /\ Counted(f)
  /\ UNCHANGED <<user, account, ledger, fill, call, today, orphaned, crashes>>

\* An upsert that found no document inserts one; if another fill inserted it
\* meanwhile the duplicate is taken for a fill already counted.
SeekRow(f) ==
  /\ fill[f].step = "open" /\ ~row[fill[f].day].exists
  /\ fill' = [fill EXCEPT ![f].step = "seeking"]
  /\ UNCHANGED <<user, account, ledger, row, call, today, orphaned, crashes>>
InsertRow(f) ==
  /\ fill[f].step = "seeking"
  /\ IF row[fill[f].day].exists THEN UNCHANGED row ELSE Counted(f)
  /\ fill' = [fill EXCEPT ![f].step = "open"]
  /\ UNCHANGED <<user, account, ledger, call, today, orphaned, crashes>>

\* The fill commits, with or without its observer's writes, or aborts.
EndFill(f) ==
  /\ fill[f].step = "open"
  /\ \E outcome \in {"done", "aborted"} : fill' = [fill EXCEPT ![f].step = outcome]
  /\ UNCHANGED <<user, account, ledger, row, call, today, orphaned, crashes>>
-----------------------------------------------------------------------------
Midnight ==
  /\ today < Days /\ today' = today + 1
  /\ UNCHANGED <<user, account, ledger, row, fill, call, orphaned, crashes>>

\* The process of a call stops, or its next write fails.
Crash(c) ==
  /\ call[c].step \notin {"new", "done"} /\ crashes < MaxCrashes
  /\ crashes' = crashes + 1 /\ Goto(c, "done")
  /\ orphaned' = orphaned + (IF At(c, "insert") THEN call[c].delta ELSE 0)
  /\ UNCHANGED <<user, account, ledger, row, fill, today>>

AccountsNext ==
  \/ \E c \in Calls :
       \/ LookUp(c) \/ Create(c) \/ CheckBonus(c) \/ Adjust(c) \/ InsertEntry(c)
       \/ CreditReward(c) \/ MarkClaimed(c) \/ Crash(c)
       \/ \E a \in Amounts : TopUp(c, a) \/ AdminDebit(c, a)
       \/ \E r \in Rewards : ClaimDaily(c, r) \/ ClaimAcademy(c, r)
  \/ \E f \in Fills :
       StartFill(f) \/ Increment(f) \/ SeekRow(f) \/ InsertRow(f) \/ EndFill(f)
  \/ Midnight
-----------------------------------------------------------------------------
\* The balance is never negative, and the ledger explains it but for calls
\* that have moved the money and not yet written, or died before they could.
LedgerExplains ==
  /\ account.cash >= 0
  /\ account.cash = SumFunctionOnSet([e \in ledger |-> e.delta], ledger) + orphaned
                    + SumFunctionOnSet([c \in Calls |-> call[c].delta], {c \in Calls : At(c, "insert")})

\* The welcome bonus, the academy reward and each day's reward are paid at
\* most once, whatever calls race or are repeated after a crash; a daily
\* reward is paid only on a day that counted enough closes, and a document
\* marked as claimed has been paid.
PaidOnce ==
  /\ Cardinality({e \in ledger : e.kind = "bonus"}) <= 1
  /\ Cardinality({e \in ledger : e.kind = "academy"}) <= 1
  /\ \A d \in 1..Days :
       LET paid == {e \in ledger : e.kind = "daily" /\ e.key = d} IN
       /\ Cardinality(paid) <= 1
       /\ paid # {} => Cardinality(row[d].fills) >= Target
       /\ row[d].claimed => paid # {}
=============================================================================
