---------------------------- MODULE SwapPromise -----------------------------
(***************************************************************************)
(* What Flow.Execute and Flow.ExecuteThorchain promise their callers,      *)
(* without steps, nonces, approvals or receipts: a call agrees on an       *)
(* amount, sends its swap once at most, and answers.  Its swap may be lost *)
(* or mined; when it is mined, the amount agreed on is paid, or nothing.   *)
(* A call answers "ok" only when its swap was mined, and "refused" only    *)
(* when none was sent; any other end leaves its caller unsure.             *)
(***************************************************************************)
EXTENDS Naturals

CONSTANTS Calls, MaxAmount, Held

VARIABLES
  answer,   \* what each call told its caller, or how far it is
  agreed,   \* the amount each call is to swap
  token,    \* the calls that sell the token, the others sell the native one
  swap,     \* the swap of each call, as the chain has it
  paid,     \* what each call's swap took from the wallet
  wallet    \* what the wallet holds of the token

vars == <<answer, agreed, token, swap, paid, wallet>>

Tell(c, what) == answer' = [answer EXCEPT ![c] = what]

\* The chain forgets a pending swap, or none.
Forget ==
  \/ UNCHANGED swap
  \/ \E c \in Calls : swap[c] = "pending" /\ swap' = [swap EXCEPT ![c] = "none"]

Init ==
  /\ answer = [c \in Calls |-> "idle"]
  /\ agreed = [c \in Calls |-> 0]
  /\ token = {}
  /\ swap = [c \in Calls |-> "none"]
  /\ paid = [c \in Calls |-> 0]
  /\ wallet = Held

\* A call starts: its amount and the token it sells are settled for good.
Ask(c) ==
  /\ answer[c] = "idle"
  /\ Tell(c, "asked")
  /\ \E a \in 1..MaxAmount : agreed' = [agreed EXCEPT ![c] = a]
  /\ token' \in {token \ {c}, token \cup {c}}
  /\ UNCHANGED <<swap, paid, wallet>>

\* It ends before it sent its swap, and says so.
Refuse(c) ==
  /\ answer[c] \in {"idle", "asked"}
  /\ Tell(c, "refused")
  /\ UNCHANGED <<agreed, token, swap, paid, wallet>>

\* It sends its swap, which may take the place of another call's, and waits for
\* it, or is not told that it was sent.
Submit(c) ==
  /\ answer[c] = "asked"
  /\ Tell(c, "sent") \/ Tell(c, "unsure")
  /\ \E d \in Calls :
       swap' = [swap EXCEPT ![d] = IF @ = "pending" THEN "none" ELSE @,
                            ![c] = "pending"]
  /\ UNCHANGED <<agreed, token, paid, wallet>>

\* It ends without knowing: its last transaction may have been sent, may still
\* be mined, and may have taken the place of another call's swap.
Doubt(c) ==
  /\ answer[c] \in {"asked", "sent"}
  /\ Tell(c, "unsure")
  /\ Forget
  /\ UNCHANGED <<agreed, token, paid, wallet>>

\* It sees its swap mined.
Succeed(c) ==
  /\ answer[c] = "sent"
  /\ swap[c] = "mined"
  /\ Tell(c, "ok")
  /\ UNCHANGED <<agreed, token, swap, paid, wallet>>

\* A pending swap is mined, whoever still waits for it: the amount is paid, out
\* of the wallet when the call sells the token, or the swap reverts.
Settle(c) ==
  /\ swap[c] = "pending"
  /\ swap' = [swap EXCEPT ![c] = "mined"]
  /\ \/ /\ paid' = [paid EXCEPT ![c] = agreed[c]]
        /\ IF c \in token
           THEN agreed[c] <= wallet /\ wallet' = wallet - agreed[c]
           ELSE UNCHANGED wallet
     \/ UNCHANGED <<paid, wallet>>
  /\ UNCHANGED <<answer, agreed, token>>

\* A pending swap is lost: forgotten, or another transaction took its place.
Lose == Forget /\ UNCHANGED <<answer, agreed, token, paid, wallet>>

Next ==
  \/ \E c \in Calls : \/ Ask(c) \/ Refuse(c) \/ Submit(c) \/ Doubt(c)
                      \/ Succeed(c) \/ Settle(c)
  \/ Lose

Spec == Init /\ [][Next]_vars
=============================================================================
