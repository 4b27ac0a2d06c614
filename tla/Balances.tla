------------------------------ MODULE Balances ------------------------------
(***************************************************************************)
(* pallet_balances, as the marketplace uses it: an external component.     *)
(* Only free balances matter here: nothing in this runtime holds, freezes  *)
(* or reserves a positive amount (the deposits of pallet_uniques are 0).   *)
(***************************************************************************)
EXTENDS Integers, FiniteSetsExt, Accounts

CONSTANTS ExistentialDeposit,  \* the least balance an account can hold
          Endowment            \* the balances genesis may give an account

ASSUME BalancesAssumption ==
    /\ ExistentialDeposit \in Nat \ {0}
    /\ Endowment \subseteq {n \in Nat : n >= ExistentialDeposit}

VARIABLE free

BalancesTypeOK == free \in [Account -> Nat]

\* Genesis endows accounts of its choice and never the pallet account.
BalancesInit == /\ free \in [Account -> Endowment \union {0}]
                /\ free[PalletAccount] = 0

\* Currency::transfer with ExistenceRequirement::AllowDeath succeeds: what the
\* sender keeps may be less than the deposit, and its account is then closed.
CanTransferAllowDeath(from, to, amount) ==
    \/ amount = 0
    \/ from = to
    \/ /\ free[from] >= amount
       /\ free[to] + amount >= ExistentialDeposit

\* Currency::transfer with ExistenceRequirement::KeepAlive succeeds.  Moving
\* nothing, or moving to oneself, succeeds whatever the balances are.
CanTransfer(from, to, amount) ==
    \/ amount = 0
    \/ from = to
    \/ /\ free[from] >= amount + ExistentialDeposit
       /\ free[to] + amount >= ExistentialDeposit

\* The balances after that transfer.
Transferred(from, to, amount) ==
    [free EXCEPT ![from] = @ - amount, ![to] = @ + amount]

\* The sum of all balances.
Issuance == MapThenSumSet(LAMBDA a : free[a], Account)
=============================================================================
