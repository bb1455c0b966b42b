-------------------------- MODULE SpendingBudget ---------------------------
(***************************************************************************)
(* What the cumulative budget of the MCP server promises, without locks,   *)
(* logs or handlers: the money of one run is a line of length Budget, a    *)
(* call is given a slice of it that nobody else has, and only a call with  *)
(* a slice of the present run may be signed.  Slices are never given back. *)
(***************************************************************************)
EXTENDS Naturals

CONSTANTS Calls, Budget, Cap

VARIABLES
  epoch,   \* the run of the server
  open,    \* [0, open) has not been given out in this run
  slice,   \* the slice of each call that has one
  signed   \* the calls whose swap was signed

vars == <<epoch, open, slice, signed>>

Init ==
  /\ epoch = 1
  /\ open = Budget
  /\ slice = [c \in {} |-> {}]
  /\ signed = {}

\* A call without a slice takes the top of what is open, at most Cap of it.
Book(c) ==
  /\ c \notin DOMAIN slice
  /\ \E usd \in 1..Cap :
       /\ usd <= open
       /\ open' = open - usd
       /\ slice' = [d \in DOMAIN slice \cup {c} |->
                      IF d = c THEN [epoch |-> epoch, lo |-> open - usd, hi |-> open]
                      ELSE slice[d]]
  /\ UNCHANGED <<epoch, signed>>

\* A call with a slice of this run is signed, once.
Sign(c) ==
  /\ c \in DOMAIN slice \ signed
  /\ slice[c].epoch = epoch
  /\ signed' = signed \cup {c}
  /\ UNCHANGED <<epoch, open, slice>>

\* A new run starts with the whole budget open.
NewRun ==
  /\ epoch' = epoch + 1
  /\ open' = Budget
  /\ UNCHANGED <<slice, signed>>

Next == (\E c \in Calls : Book(c) \/ Sign(c)) \/ NewRun

Spec == Init /\ [][Next]_vars
=============================================================================
