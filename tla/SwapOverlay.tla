---------------------------- MODULE SwapOverlay ----------------------------
(***************************************************************************)
(* The modal swap dialog of the TUI (tui/overlays/swapoverlay) and the     *)
(* handlers of the main screen that serve it.  Keys act on the dialog at   *)
(* once; everything else, its own intents included, is a message that some *)
(* goroutine delivers later, in any order, whatever the dialog shows then. *)
(***************************************************************************)
EXTENDS Naturals, FiniteSets

CONSTANTS
  Tokens,      \* tokens offered on both sides
  Checked,     \* the tokens safety.ShouldCheck wants a report on
  Amounts,     \* USD amounts the user may type
  MaxQuotes,   \* bound: quotes asked for
  MaxOpens,    \* bound: times the dialog is opened
  MaxCancels,  \* bound: cancel messages on their way at once
  None         \* nothing selected, no quote, no report

VARIABLES
  mode,         \* mainscreen.mode: the dialog is open or not
  wallet,       \* mainscreen.current is set: a wallet is selected
  step,         \* swapoverlay.step
  from, to,     \* selectedFrom, selectedTo
  usd,          \* usdAmount
  focused,      \* the amount field takes text
  quote,        \* the quote shown, or None
  quoteErr,     \* whether quoteErr is set
  risk,         \* the token whose report is shown, or None
  riskPending,  \* "checking..." is shown
  inflight,     \* messages and commands on their way
  cancels,      \* CancelMsgs on their way
  opened,       \* how many times the dialog was opened
  asked,        \* how many quotes were asked for
  confirmed,    \* the swaps the user confirmed, with what was on the screen
  dropped,      \* the last of them was swallowed: no wallet was selected
  hasty         \* a key was pressed while a quote or a cancel was on its way

dialog == <<step, from, to, usd, focused, quote, quoteErr, risk, riskPending>>
screen == <<mode, wallet>>
counters == <<opened, asked>>
outcome == <<confirmed, dropped>>
vars == <<screen, dialog, inflight, cancels, counters, outcome, hasty>>

Steps == {"From", "To", "Amount", "Preview", "Executing", "Done"}

Swaps == [from : Tokens \cup {None}, to : Tokens \cup {None},
          usd : Amounts \cup {None}]

\* What the overlay asks for: its current selection.
Selection == [from |-> from, to |-> to, usd |-> usd]

Messages ==
  [type : {"quoteRequest", "quoteResult"}, id : 1..MaxQuotes, swap : Swaps]
    \cup [type : {"safetyResult"}, id : 1..MaxQuotes, token : Tokens]
    \cup [type : {"executeRequest", "executeResult"}, id : Nat, session : 1..MaxOpens]

Quotes == [id : 1..MaxQuotes, swap : Swaps]

ASSUME OverlayAssumption ==
  /\ Checked \subseteq Tokens
  /\ MaxQuotes \in Nat /\ MaxOpens \in Nat /\ MaxCancels \in Nat
  /\ None \notin Tokens \cup Amounts \cup Quotes

Confirmations == [id : Nat, session : 1..MaxOpens, swap : Swaps,
                  quote : Quotes \cup {None}, risk : Tokens \cup {None}]

\* Nothing the user waits for is on its way: no quote, no cancel.
Settled ==
  /\ cancels = 0
  /\ \A m \in inflight : m.type \notin {"quoteRequest", "quoteResult"}

\* A key reaches the main screen, or the dialog.
KeyPressed(where) == mode = where /\ hasty' = (hasty \/ ~Settled)

Emit(m) == inflight' = inflight \cup {m}
----------------------------------------------------------------------------
\* openSwapOverlay: a fresh dialog, when a wallet is selected.
Open ==
  /\ KeyPressed("normal")
  /\ wallet
  /\ opened < MaxOpens
  /\ opened' = opened + 1
  /\ mode' = "swap"
  /\ step' = "From"
  /\ from' = None /\ to' = None /\ usd' = None /\ focused' = FALSE
  /\ quote' = None /\ quoteErr' = FALSE
  /\ risk' = None /\ riskPending' = FALSE
  /\ UNCHANGED <<wallet, inflight, cancels, asked, outcome>>

ChooseFrom ==
  /\ KeyPressed("swap")
  /\ step = "From"
  /\ from' \in Tokens
  /\ step' = "To"
  /\ UNCHANGED <<screen, to, usd, focused, quote, quoteErr, risk, riskPending,
                 inflight, cancels, counters, outcome>>

\* Mutant of ChooseTo: the token sold may be bought.
ChooseAnyTo ==
  /\ KeyPressed("swap")
  /\ step = "To"
  /\ to' \in Tokens
  /\ step' = "Amount"
  /\ focused' = TRUE
  /\ UNCHANGED <<screen, from, usd, quote, quoteErr, risk, riskPending,
                 inflight, cancels, counters, outcome>>

\* Enter on the token sold is ignored.
ChooseTo ==
  /\ KeyPressed("swap")
  /\ step = "To"
  /\ to' \in Tokens \ {from}
  /\ step' = "Amount"
  /\ focused' = TRUE
  /\ UNCHANGED <<screen, from, usd, quote, quoteErr, risk, riskPending,
                 inflight, cancels, counters, outcome>>

\* Mutant of SubmitAmount: the request is built before the amount is stored.
SubmitStale ==
  /\ KeyPressed("swap")
  /\ step = "Amount"
  /\ asked < MaxQuotes
  /\ asked' = asked + 1
  /\ usd' \in IF focused THEN Amounts ELSE {usd}
  /\ focused' = FALSE
  /\ Emit([type |-> "quoteRequest", id |-> asked', swap |-> Selection])
  /\ UNCHANGED <<screen, step, from, to, quote, quoteErr, risk, riskPending,
                 cancels, opened, outcome>>

\* The amount is submitted; the dialog stays where it is until the quote comes,
\* and the field, blurred, can only be submitted again as it is.
SubmitAmount ==
  /\ KeyPressed("swap")
  /\ step = "Amount"
  /\ asked < MaxQuotes
  /\ asked' = asked + 1
  /\ usd' \in IF focused THEN Amounts ELSE {usd}
  /\ focused' = FALSE
  /\ Emit([type |-> "quoteRequest", id |-> asked',
           swap |-> [Selection EXCEPT !.usd = usd']])
  /\ UNCHANGED <<screen, step, from, to, quote, quoteErr, risk, riskPending,
                 cancels, opened, outcome>>

\* Mutant of Confirm: the preview stays up.
ConfirmStays ==
  /\ KeyPressed("swap")
  /\ step = "Preview"
  /\ ~quoteErr
  /\ LET id == Cardinality(confirmed) + 1
     IN /\ id <= MaxQuotes + 1
        /\ Emit([type |-> "executeRequest", id |-> id, session |-> opened])
        /\ confirmed' = confirmed \cup
             {[id |-> id, session |-> opened, swap |-> Selection,
               quote |-> quote, risk |-> risk]}
  /\ dropped' = FALSE
  /\ UNCHANGED <<screen, dialog, cancels, counters>>

\* y or enter on the preview, unless it shows an error.
Confirm ==
  /\ KeyPressed("swap")
  /\ step = "Preview"
  /\ ~quoteErr
  /\ step' = "Executing"
  /\ LET id == Cardinality(confirmed) + 1
     IN /\ Emit([type |-> "executeRequest", id |-> id, session |-> opened])
        /\ confirmed' = confirmed \cup
             {[id |-> id, session |-> opened, swap |-> Selection,
               quote |-> quote, risk |-> risk]}
  /\ dropped' = FALSE
  /\ UNCHANGED <<screen, from, to, usd, focused, quote, quoteErr, risk,
                 riskPending, cancels, counters>>

\* ESC, or n on the preview: one step back.
StepBack ==
  /\ KeyPressed("swap")
  /\ \/ /\ step = "To" /\ step' = "From"
        /\ UNCHANGED <<focused, quote, quoteErr>>
     \/ /\ step = "Amount" /\ step' = "To" /\ focused' = FALSE
        /\ UNCHANGED <<quote, quoteErr>>
     \/ /\ step = "Preview" /\ step' = "Amount" /\ focused' = TRUE
        /\ quote' = None /\ quoteErr' = FALSE
  /\ UNCHANGED <<screen, from, to, usd, risk, riskPending, inflight,
                 cancels, counters, outcome>>

\* ESC on the first step or on a swap under way, any key on a result.
Leave ==
  /\ KeyPressed("swap")
  /\ step \in {"From", "Executing", "Done"}
  /\ cancels < MaxCancels
  /\ cancels' = cancels + 1
  /\ UNCHANGED <<screen, dialog, inflight, counters, outcome>>
----------------------------------------------------------------------------
\* The main screen handles a CancelMsg, of this dialog or of an earlier one.
HandleCancel ==
  /\ cancels > 0
  /\ cancels' = cancels - 1
  /\ mode' = "normal"
  /\ UNCHANGED <<wallet, dialog, inflight, counters, outcome, hasty>>

\* Mutant of HandleQuoteRequest: every token is checked, ShouldCheck or not.
HandleQuoteChecksAll(m) ==
  /\ m.type = "quoteRequest"
  /\ \/ /\ wallet
        /\ inflight' = (inflight \ {m})
             \cup {[type |-> "quoteResult", id |-> m.id, swap |-> m.swap],
                   [type |-> "safetyResult", id |-> m.id, token |-> m.swap.to]}
     \/ /\ ~wallet
        /\ inflight' = inflight \ {m}
  /\ UNCHANGED <<screen, dialog, cancels, counters, outcome, hasty>>

\* quoteCmds: the quote, and a safety check of a token that wants one, each of
\* which sends its result.
QuoteCmds(m) ==
  {[type |-> "quoteResult", id |-> m.id, swap |-> m.swap]}
    \cup {[type |-> "safetyResult", id |-> m.id, token |-> t] :
            t \in {m.swap.to} \cap Checked}

\* onSwapQuoteRequest: the quote starts, and with it a safety check; without a
\* wallet the request is swallowed.
HandleQuoteRequest(m) ==
  /\ m.type = "quoteRequest"
  /\ \/ /\ wallet
        /\ inflight' = (inflight \ {m}) \cup QuoteCmds(m)
     \/ /\ ~wallet
        /\ inflight' = inflight \ {m}
  /\ UNCHANGED <<screen, dialog, cancels, counters, outcome, hasty>>

\* Mutant of QuoteResult: an error clears the quote and leaves no message.
QuoteResultNoError(m) ==
  /\ m.type = "quoteResult"
  /\ inflight' = inflight \ {m}
  /\ \/ /\ quote' = [id |-> m.id, swap |-> m.swap]
        /\ riskPending' = (m.swap.to \in Checked)
     \/ /\ quote' = None
        /\ riskPending' = FALSE
  /\ quoteErr' = FALSE
  /\ risk' = None
  /\ step' = "Preview"
  /\ UNCHANGED <<screen, from, to, usd, focused, cancels, opened, asked,
                 outcome, hasty>>

\* onSwapQuoteResult and the overlay's QuoteResultMsg: whatever step the dialog
\* is at, the preview comes up.
QuoteResult(m) ==
  /\ m.type = "quoteResult"
  /\ inflight' = inflight \ {m}
  /\ \/ /\ quote' = [id |-> m.id, swap |-> m.swap]
        /\ quoteErr' = FALSE
        /\ riskPending' = (m.swap.to \in Checked)
     \/ /\ quote' = None
        /\ quoteErr' = TRUE
        /\ riskPending' = FALSE
  /\ risk' = None
  /\ step' = "Preview"
  /\ UNCHANGED <<screen, from, to, usd, focused, cancels, opened, asked,
                 outcome, hasty>>

SafetyResult(m) ==
  /\ m.type = "safetyResult"
  /\ inflight' = inflight \ {m}
  /\ risk' = m.token
  /\ riskPending' = FALSE
  /\ UNCHANGED <<screen, step, from, to, usd, focused, quote, quoteErr, cancels,
                 counters, outcome, hasty>>

\* The swap a request is for is the last one confirmed.
IsLatest(m) == m.id = Cardinality(confirmed)

\* Mutant of HandleExecuteRequest: the command sends no result back.
HandleExecuteSilently(m) ==
  /\ m.type = "executeRequest"
  /\ inflight' = inflight \ {m}
  /\ dropped' = (dropped \/ (~wallet /\ IsLatest(m)))
  /\ UNCHANGED <<screen, dialog, cancels, counters, confirmed, hasty>>

\* onSwapExecuteRequest: flow.Execute runs in the background; without a wallet
\* the request is swallowed, and the dialog is told nothing.
HandleExecuteRequest(m) ==
  /\ m.type = "executeRequest"
  /\ \/ /\ wallet
        /\ inflight' = (inflight \ {m})
             \cup {[type |-> "executeResult", id |-> m.id, session |-> m.session]}
        /\ UNCHANGED dropped
     \/ /\ ~wallet
        /\ inflight' = inflight \ {m}
        /\ dropped' = (dropped \/ IsLatest(m))
  /\ UNCHANGED <<screen, dialog, cancels, counters, confirmed, hasty>>

\* onSwapExecResult and the overlay's ExecutionResultMsg.
ExecuteResult(m) ==
  /\ m.type = "executeResult"
  /\ inflight' = inflight \ {m}
  /\ step' = "Done"
  /\ UNCHANGED <<screen, from, to, usd, focused, quote, quoteErr, risk,
                 riskPending, cancels, counters, outcome, hasty>>

\* onWalletsRefreshed: a refresh of the wallets lands, whatever is open, and
\* selects one of them, or none when there is none.
WalletsRefreshed ==
  /\ wallet' \in BOOLEAN
  /\ UNCHANGED <<mode, dialog, inflight, cancels, counters, outcome, hasty>>
----------------------------------------------------------------------------
Init ==
  /\ mode = "normal"
  /\ wallet = FALSE
  /\ step = "From"
  /\ from = None /\ to = None /\ usd = None /\ focused = FALSE
  /\ quote = None /\ quoteErr = FALSE
  /\ risk = None /\ riskPending = FALSE
  /\ inflight = {}
  /\ cancels = 0
  /\ opened = 0 /\ asked = 0
  /\ confirmed = {} /\ dropped = FALSE
  /\ hasty = FALSE

Key == ChooseFrom \/ ChooseTo \/ SubmitAmount \/ Confirm \/ StepBack \/ Leave

Deliver ==
  \/ HandleCancel
  \/ \E m \in inflight :
       \/ HandleQuoteRequest(m) \/ QuoteResult(m) \/ SafetyResult(m)
       \/ HandleExecuteRequest(m) \/ ExecuteResult(m)

Next == Open \/ Key \/ Deliver \/ WalletsRefreshed

Spec == Init /\ [][Next]_vars

\* Commands have deadlines and the program delivers their messages; the user
\* need not press anything, nor the wallets be refreshed.  As quotes and
\* openings are bounded, so are the messages, and delivering some message again
\* and again delivers them all.
FairSpec == Spec /\ WF_vars(Deliver)
----------------------------------------------------------------------------
\* Types of every variable.
TypeOK ==
  /\ mode \in {"normal", "swap"}
  /\ wallet \in BOOLEAN
  /\ step \in Steps
  /\ Selection \in Swaps
  /\ focused \in BOOLEAN
  /\ quote \in Quotes \cup {None}
  /\ quoteErr \in BOOLEAN
  /\ risk \in Tokens \cup {None}
  /\ riskPending \in BOOLEAN
  /\ inflight \subseteq Messages
  /\ cancels \in 0..MaxCancels
  /\ opened \in 0..MaxOpens
  /\ asked \in 0..MaxQuotes
  /\ confirmed \subseteq Confirmations
  /\ dropped \in BOOLEAN
  /\ hasty \in BOOLEAN

\* One confirmation per quote delivered: a repeated key cannot execute twice.
ConfirmsBacked ==
  Cardinality(confirmed) <=
    asked - Cardinality({m \in inflight : m.type \in {"quoteRequest", "quoteResult"}})

\* Nobody confirms an empty preview, and what a user who waits for the answers
\* confirms is what was quoted: the tokens and the amount on the preview.
ConfirmedAsQuoted ==
  \A c \in confirmed : c.quote # None /\ (~hasty => c.swap = c.quote.swap)

\* A user who waits for the answers never swaps a token for itself, although the
\* dialog compares the two only when the second is chosen ("Refuse same-token
\* swap").
NeverSameToken == ~hasty => \A c \in confirmed : c.swap.from # c.swap.to

\* "Block all input while a tx is in flight; only ESC exits": a dialog has one
\* confirmed swap under way at most.
OneUnderway ==
  \A m, n \in inflight :
    /\ m.type \in {"executeRequest", "executeResult"}
    /\ n.type \in {"executeRequest", "executeResult"}
    /\ m.session = n.session
    => m = n

\* It has, when the user waits for the answers.
OneUnderwayUnhurried == ~hasty => OneUnderway

\* "the token you're buying is risk-checked ... and the verdict is shown": a
\* verdict on the screen at the confirmation is that of the token bought.
VerdictIsForBought == \A c \in confirmed : c.risk \in {c.swap.to, None}

\* A dialog that waits for a swap does not wait for ever, unless the request was
\* swallowed because no wallet was selected when it was handled (`m.current ==
\* nil`): of that swap no result ever comes.
ExecutingEnds ==
  step = "Executing" /\ ~dropped ~> step # "Executing" \/ dropped
=============================================================================
