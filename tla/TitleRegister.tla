--------------------------- MODULE TitleRegister ----------------------------
(***************************************************************************)
(* What the marketplace promises, with no word of how: a register of who   *)
(* holds which good.  A good is issued once, changes hands only while it   *)
(* is offered, against its price, paid by the new holder to the old one,   *)
(* and may be retired (delivered) by its holder, which ends its life.      *)
(* One word stands for the record and the NFT that the program keeps in    *)
(* two pallets, and offering a retired good means nothing.                 *)
(***************************************************************************)
EXTENDS Integers

CONSTANTS Party, Good, Amount, Unissued, Retired  \* no Party is one of the last two

VARIABLES holder,   \* the holder of each good, Unissued or Retired
          offered,  \* the goods that are for sale
          price,    \* what each good costs, once issued
          funds     \* the money of each party

tvars == <<holder, offered, price, funds>>

Held(g) == holder[g] \in Party

Init == /\ holder = [g \in Good |-> Unissued]
        /\ offered = {}
        /\ price \in [Good -> {0}]
        /\ funds \in [Party -> Nat]

Issue(g, p, v) == /\ holder[g] = Unissued
                  /\ holder' = [holder EXCEPT ![g] = p]
                  /\ price' = [price EXCEPT ![g] = v]
                  /\ offered' = offered \union {g}
                  /\ UNCHANGED funds

Exchange(g, buyer) ==
    LET seller == holder[g]
    IN  /\ Held(g) /\ g \in offered
        /\ seller # buyer
        /\ funds[buyer] >= price[g]
        /\ funds' = [funds EXCEPT ![buyer] = @ - price[g],
                                  ![seller] = @ + price[g]]
        /\ holder' = [holder EXCEPT ![g] = buyer]
        /\ offered' = offered \ {g}
        /\ UNCHANGED price

Offer(g) == /\ Held(g)
            /\ offered' = offered \union {g}
            /\ UNCHANGED <<holder, price, funds>>

Withdraw(g) == /\ Held(g)
               /\ offered' = offered \ {g}
               /\ UNCHANGED <<holder, price, funds>>

Retire(g) == /\ Held(g)
             /\ holder' = [holder EXCEPT ![g] = Retired]
             /\ offered' = offered \ {g}
             /\ UNCHANGED <<price, funds>>

Next == \E g \in Good :
            \/ \E p \in Party, v \in Amount : Issue(g, p, v)
            \/ \E p \in Party : Exchange(g, p)
            \/ Offer(g)
            \/ Withdraw(g)
            \/ Retire(g)

Spec == Init /\ [][Next]_tvars
=============================================================================
