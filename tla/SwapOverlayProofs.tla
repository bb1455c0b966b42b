------------------------- MODULE SwapOverlayProofs -------------------------
(***************************************************************************)
(* Theorems about SwapOverlay, for any tokens and amounts and any number   *)
(* of quotes, openings and cancels.                                        *)
(*                                                                         *)
(* The invariant has two layers.  Backed holds whatever the user presses:  *)
(* a preview without an error shows a quote, and every quote asked for is  *)
(* on its way, on the preview, or spent by one confirmation.  Unhurried    *)
(* holds for a user who waits for the answers: what is on its way, and on  *)
(* the preview, is of the selection that stands, and no swap of the dialog *)
(* is under way before the confirmation.                                   *)
(***************************************************************************)
EXTENDS SwapOverlay, FiniteSetTheorems, TLAPS

\* Which variables each group stands for is known throughout.
USE DEF screen, outcome

\* The quotes on their way, and the swaps.
Asking == {m \in inflight : m.type \in {"quoteRequest", "quoteResult"}}
Running == {m \in inflight : m.type \in {"executeRequest", "executeResult"}}

\* The preview can be confirmed.
Confirmable == step = "Preview" /\ ~quoteErr

Backed ==
  /\ Confirmable => quote # None
  /\ IsFiniteSet(inflight) /\ IsFiniteSet(confirmed)
  /\ Cardinality(confirmed) + (IF Confirmable THEN 1 ELSE 0) + Cardinality(Asking) <= asked
  /\ mode = "swap" => opened >= 1
  /\ \A m \in Running : m.session <= opened

Unhurried ==
  /\ \A m \in Asking : m.swap = Selection /\ from # to
  /\ step \in {"Amount", "Preview"} => from # to
  /\ step = "Preview" /\ quote # None => quote.swap = Selection
  /\ step \notin {"Executing", "Done"} \/ Asking # {} =>
       \A m \in Running : m.session # opened

\* The two halves of ConfirmedAsQuoted: for any user, and for one who waits.
ConfirmedAQuote == \A c \in confirmed : c.quote # None

AsQuoted == ~hasty => \A c \in confirmed : c.quote # None => c.swap = c.quote.swap

IInv ==
  /\ TypeOK
  /\ Backed
  /\ ConfirmedAQuote
  /\ ~hasty => Unhurried /\ AsQuoted /\ NeverSameToken /\ OneUnderway
----------------------------------------------------------------------------
\* The initial state satisfies the invariant.
LEMMA Initially == Init => IInv
<1> SUFFICES ASSUME Init PROVE IInv
  OBVIOUS
<1>1. Asking = {} /\ Running = {} /\ confirmed = {} /\ inflight = {} /\ ~Confirmable
  BY DEF Init, Asking, Running, Confirmable
<1>2. TypeOK
  <2>1. Selection \in Swaps
    BY DEF Init, Selection, Swaps
  <2>2. asked \in 0..MaxQuotes /\ opened \in 0..MaxOpens /\ cancels \in 0..MaxCancels
    BY OverlayAssumption DEF Init
  <2>3. QED
    BY <1>1, <2>1, <2>2 DEF Init, TypeOK, Steps
<1>3. Backed
  BY <1>1, FS_EmptySet DEF Init, Backed
<1>4. ConfirmedAQuote /\ Unhurried /\ AsQuoted /\ NeverSameToken /\ OneUnderway
  BY <1>1
  DEF Init, ConfirmedAQuote, Unhurried, AsQuoted, NeverSameToken, OneUnderway
<1>5. QED
  BY <1>2, <1>3, <1>4 DEF IInv

\* The fields of a message are those of its type.
LEMMA Fields ==
  ASSUME TypeOK, NEW m \in inflight
  PROVE  /\ m.type \in {"quoteRequest", "quoteResult"} =>
              m.id \in 1..MaxQuotes /\ m.swap \in Swaps
         /\ m.type = "safetyResult" => m.token \in Tokens
         /\ m.type \in {"executeRequest", "executeResult"} =>
              m.id \in Nat /\ m.session \in 1..MaxOpens
BY DEF TypeOK, Messages

\* What is counted is finite.
LEMMA Counted ==
  ASSUME Backed
  PROVE  /\ IsFiniteSet(Asking) /\ Cardinality(Asking) \in Nat
         /\ IsFiniteSet(confirmed) /\ Cardinality(confirmed) \in Nat
<1>1. IsFiniteSet(Asking)
  BY FS_Subset DEF Backed, Asking
<1>2. QED
  BY <1>1, FS_CardinalityType DEF Backed
----------------------------------------------------------------------------
\* A step that sends nothing keeps the invariant if it keeps the preview and
\* the selection, whatever else it does.
LEMMA QuietStep ==
  ASSUME IInv, TypeOK', IsFiniteSet(inflight'), Asking' = Asking, Running' = Running,
         UNCHANGED <<step, from, to, usd, quote, quoteErr, asked, opened, confirmed, hasty>>,
         mode' \in {mode, "normal"}
  PROVE  IInv'
<1> USE DEF IInv
<1>1. Backed'
  BY DEF Backed, Confirmable
<1>2. Unhurried <=> Unhurried'
  BY DEF Unhurried, Selection
<1>3. OneUnderway <=> OneUnderway'
  <2>1. OneUnderway <=> \A m, n \in Running : m.session = n.session => m = n
    BY DEF OneUnderway, Running
  <2>2. OneUnderway' <=> \A m, n \in Running' : m.session = n.session => m = n
    BY DEF OneUnderway, Running
  <2>3. QED
    BY <2>1, <2>2
<1>4. QED
  BY <1>1, <1>2, <1>3 DEF ConfirmedAQuote, AsQuoted, NeverSameToken

\* A key that sends nothing: a user who waits presses it with no quote on its
\* way, so only the selection and the preview that stand after it matter.
LEMMA KeyStep ==
  ASSUME IInv, TypeOK', UNCHANGED <<inflight, asked, confirmed>>,
         hasty' = (hasty \/ ~Settled),
         Confirmable' => Confirmable /\ quote' = quote,
         mode' = "swap" => opened' >= 1, opened' >= opened,
         Unhurried /\ step' \in {"Amount", "Preview"} => from' # to',
         Unhurried /\ step' = "Preview" /\ quote' # None => quote'.swap = Selection',
         Unhurried /\ step' \notin {"Executing", "Done"} =>
                        \A m \in Running : m.session # opened'
  PROVE  IInv'
<1> USE DEF IInv
<1>1. Asking' = Asking /\ Running' = Running
  BY DEF Asking, Running
<1>2. Backed'
  <2>1. \A m \in Running : m.session \in Nat
    BY Fields DEF Running
  <2>2. \A m \in Running' : m.session <= opened'
    BY <1>1, <2>1, OverlayAssumption DEF Backed, TypeOK
  <2>3. QED
    BY <1>1, <2>2, Counted, OverlayAssumption DEF Backed, TypeOK
<1>3. ASSUME ~hasty' PROVE Unhurried'
  <2>1. Asking = {}
    BY <1>3 DEF Settled, Asking
  <2>2. QED
    BY <1>1, <1>3, <2>1 DEF Unhurried
<1>4. QED
  BY <1>2, <1>3
  DEF ConfirmedAQuote, AsQuoted, NeverSameToken, OneUnderway

\* The keys that send nothing: choosing, going back, leaving, opening again.
LEMMA KeysStep ==
  ASSUME IInv, Open \/ ChooseFrom \/ ChooseTo \/ StepBack \/ Leave
  PROVE  IInv'
<1> USE OverlayAssumption DEF IInv, KeyPressed, counters, dialog
<1>1. from \in Tokens \cup {None} /\ to \in Tokens \cup {None} /\ usd \in Amounts \cup {None}
  BY DEF TypeOK, Selection, Swaps
<1>2. \A m \in Running : m.session \in Nat /\ m.session <= opened
  BY Fields DEF Running, Backed
<1>3. CASE Open
  <2>1. TypeOK'
    <3>1. Selection' \in Swaps
      BY <1>3 DEF Open, Selection, Swaps
    <3>2. opened' \in 0..MaxOpens
      BY <1>3 DEF Open, TypeOK
    <3>3. QED
      BY <1>3, <3>1, <3>2 DEF Open, TypeOK, Steps
  <2>2. QED
    BY <1>2, <1>3, <2>1, KeyStep DEF Open, Confirmable, TypeOK
<1>4. CASE ChooseFrom
  <2>1. TypeOK'
    BY <1>1, <1>4 DEF ChooseFrom, TypeOK, Steps, Selection, Swaps
  <2>2. QED
    BY <1>4, <2>1, KeyStep DEF ChooseFrom, Confirmable, Unhurried, Backed, TypeOK
<1>5. CASE ChooseTo
  <2>1. TypeOK'
    BY <1>1, <1>5 DEF ChooseTo, TypeOK, Steps, Selection, Swaps
  <2>2. QED
    BY <1>5, <2>1, KeyStep DEF ChooseTo, Confirmable, Unhurried, Backed, TypeOK
<1>6. CASE StepBack
  <2>1. TypeOK'
    BY <1>1, <1>6 DEF StepBack, TypeOK, Steps, Selection, Swaps
  <2>2. QED
    BY <1>6, <2>1, KeyStep DEF StepBack, Confirmable, Unhurried, Backed, TypeOK
<1>7. CASE Leave
  <2>1. TypeOK'
    BY <1>7 DEF Leave, TypeOK, Selection
  <2>2. Selection' = Selection
    BY <1>7 DEF Leave, Selection
  <2>3. QED
    BY <1>7, <2>1, <2>2, KeyStep DEF Leave, Confirmable, Unhurried, Backed, TypeOK
<1>8. QED
  BY <1>3, <1>4, <1>5, <1>6, <1>7

\* The amount is submitted: one more quote is asked for, and is on its way, with
\* the selection that now stands.
LEMMA SubmitStep ==
  ASSUME IInv, SubmitAmount
  PROVE  IInv'
<1> USE OverlayAssumption DEF IInv
<1> DEFINE new == [type |-> "quoteRequest", id |-> asked', swap |-> Selection']
<1>1. /\ mode = "swap" /\ step = "Amount" /\ asked < MaxQuotes /\ asked' = asked + 1
      /\ usd' \in Amounts \cup {None} /\ focused' = FALSE
      /\ hasty' = (hasty \/ ~Settled)
      /\ UNCHANGED <<screen, step, from, to, quote, quoteErr, risk, riskPending,
                     cancels, opened, outcome>>
  BY DEF SubmitAmount, KeyPressed, TypeOK, Selection, Swaps
<1>2. Selection' = [Selection EXCEPT !.usd = usd'] /\ Selection' \in Swaps
  BY <1>1 DEF Selection, Swaps, TypeOK
<1>3. inflight' = inflight \cup {new}
  BY <1>2 DEF SubmitAmount, Emit
<1>4. new.type = "quoteRequest" /\ new.swap = Selection' /\ new \in Messages
  BY <1>1, <1>2 DEF Messages, TypeOK
<1> HIDE DEF new
<1>5. Asking' = Asking \cup {new} /\ Running' = Running
  BY <1>3, <1>4 DEF Asking, Running
<1>6. TypeOK'
  <2>1. asked' \in 0..MaxQuotes
    BY <1>1 DEF TypeOK
  <2>2. inflight' \subseteq Messages
    BY <1>3, <1>4 DEF TypeOK
  <2>3. hasty' \in BOOLEAN
    BY <1>1
  <2>4. QED
    BY <1>1, <1>2, <2>1, <2>2, <2>3 DEF TypeOK
<1>7. Backed'
  <2>1. Cardinality(Asking') <= Cardinality(Asking) + 1 /\ Cardinality(Asking') \in Nat
    <3>1. Cardinality(Asking \cup {new}) = IF new \in Asking THEN Cardinality(Asking)
                                           ELSE Cardinality(Asking) + 1
      BY Counted, FS_AddElement
    <3>2. QED
      BY <1>5, <3>1, Counted
  <2>2. IsFiniteSet(inflight')
    BY <1>3, FS_AddElement DEF Backed
  <2>3. ~Confirmable /\ ~Confirmable'
    BY <1>1 DEF Confirmable
  <2>4. QED
    BY <1>1, <1>5, <2>1, <2>2, <2>3, Counted DEF Backed, TypeOK
<1>8. ASSUME ~hasty' PROVE Unhurried' /\ OneUnderway'
  <2>1. Asking = {}
    BY <1>1, <1>8 DEF Settled, Asking
  <2>2. Unhurried'
    BY <1>1, <1>4, <1>5, <1>8, <2>1 DEF Unhurried
  <2>3. OneUnderway'
    BY <1>1, <1>3, <1>4, <1>8 DEF OneUnderway
  <2>4. QED
    BY <2>2, <2>3
<1>9. QED
  BY <1>1, <1>6, <1>7, <1>8 DEF ConfirmedAQuote, AsQuoted, NeverSameToken

\* The preview is confirmed: the quote on it is spent, and of this dialog no
\* other swap is under way.
LEMMA ConfirmStep ==
  ASSUME IInv, Confirm
  PROVE  IInv'
<1> USE OverlayAssumption DEF IInv
<1> DEFINE id == Cardinality(confirmed) + 1
           new == [type |-> "executeRequest", id |-> id, session |-> opened]
           c == [id |-> id, session |-> opened, swap |-> Selection,
                 quote |-> quote, risk |-> risk]
<1>1. /\ mode = "swap" /\ step = "Preview" /\ ~quoteErr /\ step' = "Executing"
      /\ hasty' = (hasty \/ ~Settled)
      /\ inflight' = inflight \cup {new} /\ confirmed' = confirmed \cup {c}
      /\ dropped' = FALSE
      /\ UNCHANGED <<screen, from, to, usd, focused, quote, quoteErr, risk,
                     riskPending, cancels, counters>>
  BY DEF Confirm, KeyPressed, Emit
<1>2. id \in Nat /\ opened \in 1..MaxOpens /\ quote # None
  BY <1>1, Counted DEF TypeOK, Backed, Confirmable
<1>3. new \in Messages /\ new.type = "executeRequest" /\ new.session = opened
  BY <1>2 DEF Messages
<1>4. /\ c \in Confirmations /\ c.quote = quote /\ c.swap = Selection
      /\ c.swap.from = from /\ c.swap.to = to
  BY <1>2 DEF Confirmations, TypeOK, Selection
<1> HIDE DEF id, new, c
<1>5. Asking' = Asking /\ Running' = Running \cup {new}
  BY <1>1, <1>3 DEF Asking, Running
<1>6. TypeOK'
  <2>1. inflight' \subseteq Messages /\ confirmed' \subseteq Confirmations
    BY <1>1, <1>3, <1>4 DEF TypeOK
  <2>2. hasty' \in BOOLEAN /\ Selection' \in Swaps
    BY <1>1 DEF TypeOK, Selection
  <2>3. QED
    BY <1>1, <2>1, <2>2 DEF TypeOK, counters, Steps
<1>7. Backed'
  <2>1. IsFiniteSet(inflight') /\ IsFiniteSet(confirmed')
    BY <1>1, FS_AddElement DEF Backed
  <2>2. Cardinality(confirmed') <= Cardinality(confirmed) + 1 /\ Cardinality(confirmed') \in Nat
    <3>1. Cardinality(confirmed \cup {c}) = IF c \in confirmed THEN Cardinality(confirmed)
                                            ELSE Cardinality(confirmed) + 1
      BY Counted, FS_AddElement
    <3>2. QED
      BY <1>1, <3>1, Counted
  <2>3. Confirmable /\ ~Confirmable'
    BY <1>1 DEF Confirmable
  <2>4. \A m \in Running' : m.session <= opened'
    BY <1>1, <1>3, <1>5 DEF counters, Backed, TypeOK
  <2>5. QED
    BY <1>1, <1>2, <1>5, <2>1, <2>2, <2>3, <2>4, Counted DEF Backed, TypeOK, counters
<1>8. ConfirmedAQuote'
  BY <1>1, <1>2, <1>4 DEF ConfirmedAQuote
<1>9. ASSUME ~hasty'
      PROVE  Unhurried' /\ AsQuoted' /\ NeverSameToken' /\ OneUnderway'
  <2>1. Asking = {} /\ Unhurried /\ AsQuoted /\ NeverSameToken /\ OneUnderway
    BY <1>1, <1>9 DEF Settled, Asking
  <2>2. quote.swap = Selection /\ from # to /\ \A m \in Running : m.session # opened
    BY <1>1, <1>2, <2>1 DEF Unhurried
  <2>3. Unhurried'
    BY <1>1, <1>5, <2>1 DEF Unhurried
  <2>4. AsQuoted'
    BY <1>1, <1>4, <2>1, <2>2, <1>9 DEF AsQuoted
  <2>5. NeverSameToken'
    BY <1>1, <1>4, <2>1, <2>2, <1>9 DEF NeverSameToken
  <2>6. OneUnderway'
    BY <1>1, <1>3, <2>1, <2>2 DEF OneUnderway, Running
  <2>7. QED
    BY <2>3, <2>4, <2>5, <2>6
<1>10. QED
  BY <1>6, <1>7, <1>8, <1>9
----------------------------------------------------------------------------
\* A cancel or a safety report arrives: it touches neither the quotes nor the
\* swaps under way.
LEMMA CancelStep ==
  ASSUME IInv, HandleCancel \/ \E m \in inflight : SafetyResult(m)
  PROVE  IInv'
<1> USE DEF IInv
<1>1. CASE HandleCancel
  <2>1. TypeOK'
    BY <1>1, OverlayAssumption DEF HandleCancel, dialog, counters, TypeOK, Selection
  <2>2. QED
    BY <1>1, <2>1, QuietStep
    DEF HandleCancel, dialog, counters, Asking, Running, Backed
<1>2. ASSUME NEW m \in inflight, SafetyResult(m) PROVE IInv'
  <2>1. TypeOK'
    BY <1>2, Fields DEF SafetyResult, counters, TypeOK, Selection
  <2>2. Asking' = Asking /\ Running' = Running
    BY <1>2 DEF SafetyResult, Asking, Running
  <2>3. IsFiniteSet(inflight')
    BY <1>2, FS_RemoveElement DEF SafetyResult, Backed
  <2>4. QED
    BY <1>2, <2>1, <2>2, <2>3, QuietStep DEF SafetyResult, counters
<1>3. QED
  BY <1>1, <1>2

\* A request is swallowed: there is less on its way, and nothing else changes.
LEMMA DropStep ==
  ASSUME IInv, NEW m \in inflight, inflight' = inflight \ {m}, dropped' \in BOOLEAN,
         UNCHANGED <<screen, dialog, cancels, counters, confirmed, hasty>>
  PROVE  IInv'
<1> USE DEF IInv, dialog, counters
<1>1. TypeOK'
  BY DEF TypeOK, Selection
<1>2. Asking' \subseteq Asking /\ Running' \subseteq Running
  BY DEF Asking, Running
<1>3. Backed'
  <2>1. IsFiniteSet(inflight')
    BY FS_RemoveElement DEF Backed
  <2>2. Cardinality(Asking') <= Cardinality(Asking) /\ Cardinality(Asking') \in Nat
    BY <1>2, Counted, FS_Subset, FS_CardinalityType
  <2>3. QED
    BY <1>2, <2>1, <2>2, Counted DEF Backed, Confirmable, TypeOK
<1>4. Unhurried => Unhurried'
  BY <1>2 DEF Unhurried, Selection
<1>5. OneUnderway => OneUnderway'
  BY DEF OneUnderway
<1>6. QED
  BY <1>1, <1>3, <1>4, <1>5 DEF ConfirmedAQuote, AsQuoted, NeverSameToken

\* A request becomes a quote, for the same swap, and maybe a safety check, or is
\* swallowed.
LEMMA QuoteRequestStep ==
  ASSUME IInv, NEW m \in inflight, HandleQuoteRequest(m)
  PROVE  IInv'
<1> USE DEF IInv
<1>0. CASE ~wallet
  BY <1>0, DropStep DEF HandleQuoteRequest, TypeOK
<1> SUFFICES ASSUME wallet PROVE IInv'
  BY <1>0
<1> DEFINE new == [type |-> "quoteResult", id |-> m.id, swap |-> m.swap]
           checks == {[type |-> "safetyResult", id |-> m.id, token |-> t] :
                        t \in {m.swap.to} \cap Checked}
<1>1. /\ m.type = "quoteRequest" /\ inflight' = ((inflight \ {m}) \cup {new}) \cup checks
      /\ UNCHANGED <<screen, dialog, cancels, counters, outcome, hasty>>
  BY DEF HandleQuoteRequest, QuoteCmds
<1>2. m.id \in 1..MaxQuotes /\ m.swap \in Swaps
  BY <1>1, Fields
<1>3. new \in Messages /\ new.type = "quoteResult" /\ new.swap = m.swap
  BY <1>2 DEF Messages
<1>4. checks \subseteq Messages /\ \A n \in checks : n.type = "safetyResult"
  BY <1>2, OverlayAssumption DEF Messages
<1>5. IsFiniteSet(checks)
  <2>1. CASE m.swap.to \in Checked
    <3>1. checks = {[type |-> "safetyResult", id |-> m.id, token |-> m.swap.to]}
      BY <2>1
    <3>2. QED
      BY <3>1, FS_Singleton
  <2>2. CASE m.swap.to \notin Checked
    <3>1. checks = {}
      BY <2>2
    <3>2. QED
      BY <3>1, FS_EmptySet
  <2>3. QED
    BY <2>1, <2>2
<1> HIDE DEF new, checks
<1>6. IsFiniteSet(inflight')
  BY <1>1, <1>5, FS_RemoveElement, FS_AddElement, FS_Union DEF Backed
<1>7. m \in Asking /\ Asking' = (Asking \ {m}) \cup {new} /\ Running' = Running
  BY <1>1, <1>3, <1>4 DEF Asking, Running
<1>8. Cardinality(Asking') <= Cardinality(Asking) /\ Cardinality(Asking') \in Nat
  <2>1. /\ IsFiniteSet(Asking \ {m})
        /\ Cardinality(Asking \ {m}) = Cardinality(Asking) - 1
    BY <1>7, Counted, FS_RemoveElement
  <2>2. Cardinality(Asking \ {m}) \in Nat
    BY <2>1, FS_CardinalityType
  <2>3. Cardinality((Asking \ {m}) \cup {new}) =
          IF new \in Asking \ {m} THEN Cardinality(Asking \ {m})
          ELSE Cardinality(Asking \ {m}) + 1
    BY <2>1, FS_AddElement
  <2>4. QED
    BY <1>7, <2>1, <2>2, <2>3, Counted
<1>9. UNCHANGED <<step, from, to, usd, focused, quote, quoteErr, risk, riskPending,
                  screen, cancels, opened, asked, outcome, hasty>>
  BY <1>1 DEF dialog, counters
<1>10. TypeOK'
  <2>1. inflight' \subseteq Messages
    BY <1>1, <1>3, <1>4 DEF TypeOK
  <2>2. QED
    BY <1>9, <2>1 DEF TypeOK, Selection
<1>11. Backed'
  BY <1>6, <1>7, <1>8, <1>9, Counted DEF Backed, Confirmable, TypeOK
<1>12. Unhurried => Unhurried'
  BY <1>3, <1>7, <1>9 DEF Unhurried, Selection
<1>13. OneUnderway => OneUnderway'
  BY <1>1, <1>3, <1>4 DEF OneUnderway
<1>14. QED
  BY <1>9, <1>10, <1>11, <1>12, <1>13
  DEF ConfirmedAQuote, AsQuoted, NeverSameToken

\* A quote or its error comes up as the preview.
LEMMA QuoteResultStep ==
  ASSUME IInv, NEW m \in inflight, QuoteResult(m)
  PROVE  IInv'
<1> USE DEF IInv
<1>1. /\ m.type = "quoteResult" /\ inflight' = inflight \ {m} /\ step' = "Preview"
      /\ UNCHANGED <<screen, from, to, usd, focused, cancels, opened, asked, outcome, hasty>>
  BY DEF QuoteResult
<1>2. m.id \in 1..MaxQuotes /\ m.swap \in Swaps
  BY <1>1, Fields
<1>3. \/ /\ quote' = [id |-> m.id, swap |-> m.swap] /\ quote' \in Quotes /\ ~quoteErr'
         /\ quote'.swap = m.swap
      \/ quote' = None /\ quoteErr'
  BY <1>2 DEF QuoteResult, Quotes
<1>4. m \in Asking /\ Asking' = Asking \ {m} /\ Running' = Running
  BY <1>1 DEF Asking, Running
<1>5. TypeOK'
  <2>1. quote' \in Quotes \cup {None} /\ risk' = None
    BY <1>3 DEF QuoteResult
  <2>2. quoteErr' \in BOOLEAN
    <3>1. quoteErr' = FALSE \/ quoteErr' = TRUE
      BY DEF QuoteResult
    <3>2. QED
      BY <3>1
  <2>3. riskPending' \in BOOLEAN
    <3>1. riskPending' = (m.swap.to \in Checked) \/ riskPending' = FALSE
      BY DEF QuoteResult
    <3>2. (m.swap.to \in Checked) \in BOOLEAN
      OBVIOUS
    <3>3. QED
      BY <3>1, <3>2
  <2>4. QED
    BY <1>1, <2>1, <2>2, <2>3 DEF TypeOK, Selection, Steps
<1>6. Backed'
  <2>1. IsFiniteSet(inflight')
    BY <1>1, FS_RemoveElement DEF Backed
  <2>2. Cardinality(Asking') = Cardinality(Asking) - 1
    BY <1>4, Counted, FS_RemoveElement
  <2>3. Confirmable' => quote' # None
    BY <1>3, OverlayAssumption DEF Confirmable
  <2>4. QED
    BY <1>1, <1>4, <2>1, <2>2, <2>3, Counted DEF Backed, TypeOK
<1>7. Unhurried => Unhurried'
  BY <1>1, <1>3, <1>4 DEF Unhurried, Selection
<1>8. OneUnderway => OneUnderway'
  BY <1>1 DEF OneUnderway
<1>9. QED
  BY <1>1, <1>5, <1>6, <1>7, <1>8
  DEF ConfirmedAQuote, AsQuoted, NeverSameToken

\* A confirmed swap is executed or swallowed, and its result arrives.
LEMMA ExecuteStep ==
  ASSUME IInv, NEW m \in inflight, HandleExecuteRequest(m) \/ ExecuteResult(m)
  PROVE  IInv'
<1> USE DEF IInv
<1>0. CASE HandleExecuteRequest(m) /\ ~wallet
  <2>1. dropped' = (dropped \/ IsLatest(m))
    BY <1>0 DEF HandleExecuteRequest
  <2>2. dropped' \in BOOLEAN
    BY <2>1
  <2>3. QED
    BY <1>0, <2>2, DropStep DEF HandleExecuteRequest
<1>1. CASE HandleExecuteRequest(m) /\ wallet
  <2> DEFINE new == [type |-> "executeResult", id |-> m.id, session |-> m.session]
  <2>1. /\ m.type = "executeRequest" /\ inflight' = (inflight \ {m}) \cup {new}
        /\ UNCHANGED <<screen, step, from, to, usd, focused, quote, quoteErr, risk, riskPending,
                       cancels, opened, asked, outcome, hasty>>
    BY <1>1 DEF HandleExecuteRequest, dialog, counters
  <2>2. m.id \in Nat /\ m.session \in 1..MaxOpens
    BY <2>1, Fields
  <2>3. new \in Messages /\ new.type = "executeResult" /\ new.session = m.session
    BY <2>2 DEF Messages
  <2> HIDE DEF new
  <2>4. Asking' = Asking /\ m \in Running /\ Running' = (Running \ {m}) \cup {new}
    BY <2>1, <2>3 DEF Asking, Running
  <2>5. TypeOK'
    <3>1. inflight' \subseteq Messages
      BY <2>1, <2>3 DEF TypeOK
    <3>2. QED
      BY <2>1, <3>1 DEF TypeOK, Selection
  <2>6. Backed'
    <3>1. IsFiniteSet(inflight')
      BY <2>1, FS_RemoveElement, FS_AddElement DEF Backed
    <3>2. QED
      BY <2>1, <2>3, <2>4, <3>1 DEF Backed, Confirmable
  <2>7. Unhurried => Unhurried'
    BY <2>1, <2>3, <2>4 DEF Unhurried, Selection
  <2>8. OneUnderway => OneUnderway'
    BY <2>1, <2>3 DEF OneUnderway
  <2>9. QED
    BY <2>1, <2>5, <2>6, <2>7, <2>8
    DEF ConfirmedAQuote, AsQuoted, NeverSameToken
<1>2. CASE ExecuteResult(m)
  <2>1. /\ m.type = "executeResult" /\ inflight' = inflight \ {m} /\ step' = "Done"
        /\ UNCHANGED <<screen, from, to, usd, focused, quote, quoteErr, risk, riskPending,
                       cancels, opened, asked, outcome, hasty>>
    BY <1>2 DEF ExecuteResult, counters
  <2>2. Asking' = Asking /\ Running' \subseteq Running
    BY <2>1 DEF Asking, Running
  <2>3. TypeOK'
    BY <2>1 DEF TypeOK, Selection, Steps
  <2>4. Backed'
    <3>1. IsFiniteSet(inflight')
      BY <2>1, FS_RemoveElement DEF Backed
    <3>2. QED
      BY <2>1, <2>2, <3>1, Counted DEF Backed, Confirmable, TypeOK
  <2>5. Unhurried => Unhurried'
    BY <2>1, <2>2 DEF Unhurried, Selection
  <2>6. OneUnderway => OneUnderway'
    BY <2>1 DEF OneUnderway
  <2>7. QED
    BY <2>1, <2>3, <2>4, <2>5, <2>6
    DEF ConfirmedAQuote, AsQuoted, NeverSameToken
<1>3. QED
  BY <1>0, <1>1, <1>2 DEF HandleExecuteRequest

\* The wallets are refreshed: the dialog and its messages are left alone.
LEMMA RefreshStep ==
  ASSUME IInv, WalletsRefreshed
  PROVE  IInv'
<1> USE DEF IInv, dialog, counters
<1>1. TypeOK'
  BY DEF WalletsRefreshed, TypeOK, Selection
<1>2. QED
  BY <1>1, QuietStep DEF WalletsRefreshed, Asking, Running, Backed
----------------------------------------------------------------------------
\* No step breaks the invariant.
LEMMA NextStep == IInv /\ [Next]_vars => IInv'
<1> SUFFICES ASSUME IInv, [Next]_vars PROVE IInv'
  OBVIOUS
<1>1. CASE UNCHANGED vars
  <2>1. /\ UNCHANGED <<screen, step, from, to, usd, quote, quoteErr, inflight, asked,
                       opened, confirmed, hasty>>
        /\ Asking' = Asking /\ Running' = Running
    BY <1>1 DEF vars, dialog, counters, Asking, Running
  <2>2. TypeOK'
    BY <1>1 DEF vars, dialog, counters, IInv, TypeOK, Selection
  <2>3. QED
    BY <2>1, <2>2, QuietStep DEF IInv, Backed
<1>2. CASE Next
  BY <1>2, KeysStep, SubmitStep, ConfirmStep, CancelStep, QuoteRequestStep,
     QuoteResultStep, ExecuteStep, RefreshStep
  DEF Next, Key, Deliver
<1>3. QED
  BY <1>1, <1>2

\* The quotes, the preview and the swaps under way stay as the invariant says.
THEOREM Invariance == Spec => []IInv
<1>1. QED
  BY Initially, NextStep, PTL DEF Spec

\* The types of all variables, for any number of quotes and openings.
THEOREM TypesHold == Spec => []TypeOK
<1>1. IInv => TypeOK
  BY DEF IInv
<1>2. QED
  BY <1>1, Invariance, PTL

\* Every confirmation spends a quote that was delivered.
THEOREM ConfirmsBackedHolds == Spec => []ConfirmsBacked
<1>1. IInv => ConfirmsBacked
  BY Counted DEF IInv, Backed, Asking, ConfirmsBacked, TypeOK
<1>2. QED
  BY <1>1, Invariance, PTL

\* No empty preview is confirmed, and who waits for the answers confirms what was
\* quoted.
THEOREM ConfirmedAsQuotedHolds == Spec => []ConfirmedAsQuoted
<1>1. IInv => ConfirmedAsQuoted
  BY DEF IInv, ConfirmedAQuote, AsQuoted, ConfirmedAsQuoted
<1>2. QED
  BY <1>1, Invariance, PTL

\* Who waits for the answers never swaps a token for itself.
THEOREM NeverSameTokenHolds == Spec => []NeverSameToken
<1>1. IInv => NeverSameToken
  BY DEF IInv, NeverSameToken
<1>2. QED
  BY <1>1, Invariance, PTL

\* Who waits for the answers has one swap of a dialog under way at most.
THEOREM OneUnderwayHolds == Spec => []OneUnderwayUnhurried
<1>1. IInv => OneUnderwayUnhurried
  BY DEF IInv, OneUnderwayUnhurried
<1>2. QED
  BY <1>1, Invariance, PTL
=============================================================================
