------------------------------ MODULE Accounts ------------------------------
(***************************************************************************)
(* Account identifiers of the runtime.  PalletAccount is the account that  *)
(* the marketplace derives from its pallet id: no key belongs to it, so it *)
(* never signs an extrinsic.  It acts only through the pallet's own calls  *)
(* into pallet_uniques.                                                    *)
(***************************************************************************)
CONSTANTS Account,        \* every AccountId32 of the instance
          PalletAccount,  \* PalletId(b"mkt/escp").into_account_truncating()
          NoAccount       \* None, where the code holds an Option<AccountId>

ASSUME AccountAssumption == /\ PalletAccount \in Account
                            /\ NoAccount \notin Account

\* The accounts that can sign an extrinsic.
User == Account \ {PalletAccount}
=============================================================================
