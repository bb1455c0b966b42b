---------------------------- MODULE VaultProofs ----------------------------
(***************************************************************************)
(* Theorems about Vault, for any number of processes, passwords and        *)
(* wallets.                                                                *)
(*                                                                         *)
(* The invariant has three parts.  Settled: as long as no two processes    *)
(* set the password at once, who sets it works on a store that has no      *)
(* sentinel, and who is in has the key the sentinel is under.  Resolved:   *)
(* the wallet of a command is the one it was told.  Exported: the file     *)
(* belongs to the one process that writes it, or to the exports that are   *)
(* done.                                                                   *)
(***************************************************************************)
EXTENDS Vault, TLAPS

Settled ==
  ~raced =>
    /\ \A p, q \in Processes : pc[p] \in Creating /\ pc[q] \in Creating => p = q
    /\ \A p \in Processes : pc[p] \in Creating => sentinel = None
    /\ \A p \in Processes : pc[p] = "sentinel" => salt = secret[p].salt
    /\ \A p \in Processes : pc[p] = "main" => sentinel = secret[p] /\ salt = secret[p].salt
    /\ sentinel # None => salt # None

\* The steps a command takes on the wallet it found.
Acting == {"quote", "confirmSwap", "reveal", "export", "write", "done"}

Resolved(p) ==
  /\ pc[p] \in Acting =>
       /\ cmd[p].wallet \in Addresses
       /\ cmd[p].told # None => cmd[p].wallet = cmd[p].told
       /\ cmd[p].told = None /\ cmd[p].loaded # None => cmd[p].wallet = cmd[p].loaded
  /\ pc[p] \in {"unlock", "pick"} => cmd[p].kind \in {"swap", "reveal", "export"}
  /\ pc[p] \in {"export", "write"} => cmd[p].kind = "export"
  /\ pc[p] \in {"quote", "confirmSwap", "reveal"} => cmd[p].kind # "export"

Exported ==
  /\ \A p \in Processes : pc[p] = "write" => file = [of |-> cmd[p].wallet, whole |-> FALSE]
  /\ \A p, q \in Processes : pc[p] = "write" /\ pc[q] = "write" => p = q
  /\ \A p \in Processes : pc[p] = "done" /\ cmd[p].kind = "export" =>
       file = [of |-> cmd[p].wallet, whole |-> TRUE]

IInv ==
  /\ TypeOK
  /\ Settled
  /\ RowsReadable
  /\ \A p \in Processes : Resolved(p)
  /\ Exported
----------------------------------------------------------------------------
\* The initial state satisfies the invariant.
LEMMA Initially == Init => IInv
<1> SUFFICES ASSUME Init PROVE IInv
  OBVIOUS
<1>1. \A p \in Processes : pc[p] = "off"
  BY DEF Init
<1>2. NoCommand \in [kind : {"none", "swap", "reveal", "export", "config"},
                     told : Addresses \cup {None}, loaded : Addresses \cup {None},
                     wallet : Addresses \cup {None}]
  BY DEF NoCommand
<1>3. TypeOK
  <2>1. /\ pc \in [Processes -> {"off"}] /\ secret \in [Processes -> {None}]
        /\ rows \in [Addresses -> {None}] /\ cmd \in [Processes -> {NoCommand}]
    BY DEF Init
  <2>2. drawn \in 0..MaxSalts
    BY VaultAssumption DEF Init
  <2>3. raced \in BOOLEAN
    BY DEF Init
  <2>4. QED
    BY <1>1, <1>2, <2>1, <2>2, <2>3 DEF Init, TypeOK, Steps
<1>4. Settled /\ RowsReadable
  BY <1>1 DEF Init, Settled, RowsReadable, Stored, Creating
<1>5. \A p \in Processes : Resolved(p)
  BY <1>1 DEF Resolved, Acting
<1>6. Exported
  BY <1>1 DEF Exported
<1>7. QED
  BY <1>3, <1>4, <1>5, <1>6 DEF IInv

\* What a step of one process leaves alone.
Alone(p) ==
  \A q \in Processes \ {p} :
    pc'[q] = pc[q] /\ secret'[q] = secret[q] /\ cmd'[q] = cmd[q]

\* Outside the commands a step keeps the invariant if it keeps what is said of
\* the locks and the rows.  So does a step that ends a process.
LEMMA LoginStep ==
  ASSUME IInv, NEW p \in Processes, TypeOK', Alone(p), file' = file,
         pc'[p] \notin Acting \cup {"unlock", "pick"}, Settled', RowsReadable'
  PROVE  IInv'
<1> USE DEF IInv, Alone
<1>1. ASSUME NEW q \in Processes PROVE Resolved(q)'
  BY DEF Resolved, Acting
<1>2. Exported'
  BY DEF Exported, Acting
<1>3. QED
  BY <1>1, <1>2

\* A step that leaves the locks and the rows alone and does not log in keeps
\* what is said of them.
LEMMA LocksKept ==
  ASSUME IInv, NEW p \in Processes, Alone(p), UNCHANGED <<locks, rows, raced>>,
         pc'[p] \notin Creating \cup {"main"}
  PROVE  Settled' /\ RowsReadable'
<1> USE DEF IInv, Alone, locks
<1>1. Settled'
  BY DEF Settled, Creating
<1>2. RowsReadable'
  BY DEF RowsReadable, Stored
<1>3. QED
  BY <1>1, <1>2

\* Of a store whose password is being set, nothing is stored yet.
LEMMA NothingStored ==
  ASSUME IInv, NEW p \in Processes, pc[p] \in Creating, ~raced
  PROVE  Stored = {} /\ sentinel = None
BY VaultAssumption DEF IInv, Settled, RowsReadable, Stored, TypeOK
----------------------------------------------------------------------------
\* A process starts, and finds a sentinel or none.
LEMMA StartStep ==
  ASSUME IInv, NEW p \in Processes, Start(p)
  PROVE  IInv'
<1> USE DEF IInv, Start, Goto, database
<1>1. TypeOK'
  BY DEF TypeOK, Creating, Steps
<1>2. Alone(p) /\ file' = file /\ pc'[p] \notin Acting \cup {"unlock", "pick"}
  BY DEF Alone, TypeOK, Acting
<1>3. RowsReadable'
  BY DEF RowsReadable, Stored
<1>4. Settled'
  <2>1. CASE salt # None /\ sentinel # None
    BY <2>1, <1>2, LocksKept DEF locks, Creating, TypeOK
  <2>2. CASE ~(salt # None /\ sentinel # None)
    <3> SUFFICES ASSUME ~raced' PROVE Settled'
      BY DEF Settled
    <3>1. ~raced /\ \A q \in Processes : pc[q] \notin Creating
      BY <2>2
    <3>2. sentinel = None
      BY <2>2, <3>1 DEF Settled
    <3>3. pc' = [pc EXCEPT ![p] = "create"] /\ UNCHANGED <<salt, sentinel, secret>>
      BY <2>2
    <3>4. QED
      BY <3>1, <3>2, <3>3 DEF Settled, TypeOK, Creating
  <2>3. QED
    BY <2>1, <2>2
<1>5. QED
  BY <1>1, <1>2, <1>3, <1>4, LoginStep

\* The password is entered and confirmed.
LEMMA PasswordStep ==
  ASSUME IInv, NEW p \in Processes, EnterPassword(p) \/ ConfirmPassword(p)
  PROVE  IInv'
<1> USE DEF IInv, EnterPassword, ConfirmPassword, Goto, Hold, database
<1>1. /\ pc[p] \in Creating /\ pc'[p] \in Creating /\ pc'[p] # "sentinel"
      /\ Alone(p) /\ UNCHANGED <<salt, sentinel, rows, raced, file>>
  BY DEF TypeOK, Creating, Alone
<1>2. TypeOK'
  BY DEF TypeOK, Creating, Steps
<1>3. Settled'
  BY <1>1 DEF Settled, Alone, Creating
<1>4. RowsReadable'
  BY <1>1 DEF RowsReadable, Stored
<1>5. QED
  BY <1>1, <1>2, <1>3, <1>4, LoginStep DEF Creating, Acting

\* A salt is drawn and stored, with nothing encrypted under another.
LEMMA InitSaltStep ==
  ASSUME IInv, NEW p \in Processes, InitSalt(p)
  PROVE  IInv'
<1> USE DEF IInv, InitSalt, Goto, Hold
<1>1. /\ pc[p] \in Creating /\ pc'[p] \in {"confirm", "sentinel"} /\ Alone(p)
      /\ UNCHANGED <<sentinel, rows, raced, file>>
  BY DEF TypeOK, Creating, Alone
<1>2. TypeOK'
  <2>1. CASE pc' = [pc EXCEPT ![p] = "confirm"] /\ UNCHANGED <<salt, drawn, secret>>
    BY <2>1 DEF TypeOK, Creating, Steps
  <2>2. CASE drawn < MaxSalts /\ drawn' = drawn + 1
    <3>1. drawn' \in Salts /\ drawn' \in 0..MaxSalts
      BY <2>2, VaultAssumption DEF TypeOK, Salts
    <3>2. Key(secret[p], drawn') \in Keys
      BY <3>1 DEF Key, Keys, TypeOK
    <3>3. QED
      BY <2>2, <3>1, <3>2, VaultAssumption DEF TypeOK, Creating, Steps
  <2>3. QED
    BY <2>1, <2>2
<1>3. Settled' /\ RowsReadable'
  <2> SUFFICES ASSUME ~raced PROVE Settled' /\ RowsReadable'
    BY <1>1 DEF Settled, RowsReadable
  <2>1. Stored = {} /\ sentinel = None
    BY <1>1, NothingStored
  <2>2. RowsReadable'
    BY <1>1, <2>1 DEF RowsReadable, Stored
  <2>3. \A q \in Processes : pc[q] # "main"
    BY <2>1, VaultAssumption DEF Settled, TypeOK
  <2>4. pc'[p] = "sentinel" => salt' = secret'[p].salt
    BY DEF TypeOK, Key
  <2>5. Settled'
    BY <1>1, <2>1, <2>3, <2>4 DEF Settled, Alone, Creating
  <2>6. QED
    BY <2>2, <2>5
<1>4. QED
  BY <1>1, <1>2, <1>3, LoginStep DEF Acting

\* The sentinel is stored, under the key of the salt that is there.
LEMMA InitSentinelStep ==
  ASSUME IInv, NEW p \in Processes, InitSentinel(p)
  PROVE  IInv'
<1> USE DEF IInv, InitSentinel, Goto, Hold
<1>1. /\ pc[p] = "sentinel" /\ pc'[p] \in {"confirm", "main"} /\ Alone(p)
      /\ UNCHANGED <<salt, rows, raced, file>>
  BY DEF TypeOK, Alone
<1>2. TypeOK'
  <2>1. secret[p] \in Keys /\ secret[p].password \in Passwords
    BY <1>1 DEF TypeOK, Keys
  <2>2. QED
    BY <2>1 DEF TypeOK, Creating, Steps
<1>3. Settled' /\ RowsReadable'
  <2> SUFFICES ASSUME ~raced PROVE Settled' /\ RowsReadable'
    BY <1>1 DEF Settled, RowsReadable
  <2>1. Stored = {} /\ sentinel = None
    BY <1>1, NothingStored DEF Creating
  <2>2. RowsReadable'
    BY <1>1, <2>1 DEF RowsReadable, Stored
  <2>3. \A q \in Processes : pc[q] # "main"
    BY <2>1, VaultAssumption DEF Settled, TypeOK
  <2>4. \A q \in Processes \ {p} : pc[q] \notin Creating
    BY <1>1 DEF Settled, Creating
  <2>5. salt = secret[p].salt /\ salt # None
    BY <1>1, VaultAssumption DEF Settled, TypeOK, Keys
  <2>6. \A q \in Processes \ {p} : pc'[q] \notin Creating \cup {"main"}
    BY <1>1, <2>3, <2>4 DEF Alone
  <2> HIDE DEF InitSentinel, IInv
  <2>7. CASE pc'[p] = "confirm" /\ sentinel' = sentinel
    BY <1>1, <2>1, <2>2, <2>6, <2>7 DEF Settled, Creating
  <2>8. CASE pc'[p] = "main" /\ sentinel' = secret[p] /\ secret' = secret
    BY <1>1, <2>2, <2>5, <2>6, <2>8 DEF Settled, Creating
  <2>9. (pc'[p] = "confirm" /\ sentinel' = sentinel)
        \/ (pc'[p] = "main" /\ sentinel' = secret[p] /\ secret' = secret)
    BY DEF InitSentinel, IInv, TypeOK
  <2>10. QED
    BY <2>7, <2>8, <2>9
<1>4. QED
  BY <1>1, <1>2, <1>3, LoginStep DEF Acting
----------------------------------------------------------------------------
\* The right password logs in: the key it holds is the one of the sentinel.
LEMMA LogInStep ==
  ASSUME IInv, NEW p \in Processes, Login(p)
  PROVE  IInv'
<1> USE DEF IInv, Login, Goto, Hold, database
<1>1. PICK pw \in Passwords : Opens(pw) /\ secret' = [secret EXCEPT ![p] = Key(pw, salt)]
  OBVIOUS
<1>2. Key(pw, salt) \in Keys /\ sentinel = Key(pw, salt) /\ Key(pw, salt).salt = salt
  BY <1>1 DEF Opens, Key, Keys, TypeOK
<1>3. /\ pc' = [pc EXCEPT ![p] = "main"] /\ Alone(p)
      /\ UNCHANGED <<salt, sentinel, rows, raced, file>>
  BY DEF TypeOK, Alone
<1>4. TypeOK'
  BY <1>1, <1>2 DEF TypeOK, Steps
<1>5. Settled'
  BY <1>1, <1>2, <1>3 DEF Settled, Creating, TypeOK
<1>6. RowsReadable'
  BY <1>3 DEF RowsReadable, Stored
<1>7. QED
  BY <1>3, <1>4, <1>5, <1>6, LoginStep DEF Acting, TypeOK

\* Wallets are added, deleted and chosen by a process that is in.
LEMMA MainStep ==
  ASSUME IInv, NEW p \in Processes, AddWallet(p) \/ DeleteWallet(p) \/ SelectWallet(p)
  PROVE  IInv'
<1> USE DEF IInv, AddWallet, DeleteWallet, SelectWallet, locks
<1>1. pc[p] = "main" /\ UNCHANGED <<salt, sentinel, raced, file, pc, secret, cmd, drawn>>
  OBVIOUS
<1>2. secret[p] \in Keys
  BY <1>1 DEF TypeOK
<1>3. TypeOK'
  BY <1>1, <1>2 DEF TypeOK, Stored
<1>4. Settled'
  BY <1>1 DEF Settled
<1>5. RowsReadable'
  <2> SUFFICES ASSUME ~raced PROVE RowsReadable'
    BY <1>1 DEF RowsReadable
  <2>1. secret[p] = sentinel /\ secret[p].salt = salt
    BY <1>1 DEF Settled
  <2>2. \A a \in Addresses : rows'[a] \in {rows[a], secret[p], None}
    BY DEF TypeOK, Stored
  <2>3. QED
    BY <1>1, <2>1, <2>2 DEF RowsReadable, Stored
<1>6. QED
  BY <1>1, <1>3, <1>4, <1>5, LoginStep DEF Alone, Acting

\* A process ends, or its command has not found a wallet yet.
LEMMA EndStep ==
  ASSUME IInv, NEW p \in Processes, End(p),
         default' \in Addresses \cup {None},
         UNCHANGED <<locks, rows, known, file, drawn, raced>>
  PROVE  IInv'
<1> USE DEF IInv, End, locks
<1>1. pc'[p] = "off" /\ Alone(p)
  BY DEF TypeOK, Alone
<1>2. NoCommand \in [kind : {"none", "swap", "reveal", "export", "config"},
                     told : Addresses \cup {None}, loaded : Addresses \cup {None},
                     wallet : Addresses \cup {None}]
  BY DEF NoCommand
<1>3. TypeOK'
  BY <1>2 DEF TypeOK, Steps
<1>4. QED
  BY <1>1, <1>3, LocksKept, LoginStep DEF Creating, Acting

\* The default wallet is stored by config set-wallet.
LEMMA ConfigStep ==
  ASSUME IInv, NEW p \in Processes, Configure(p) \/ SetWallet(p)
  PROVE  IInv'
<1>1. CASE Configure(p)
  <2> USE DEF IInv, Configure, Goto, database, locks
  <2>1. PICK a \in Addresses :
          cmd' = [cmd EXCEPT ![p] = [kind |-> "config", told |-> a,
                                     loaded |-> None, wallet |-> None]]
    BY <1>1 DEF Stored
  <2>2. pc' = [pc EXCEPT ![p] = "config"] /\ Alone(p) /\ pc'[p] = "config"
    BY <1>1, <2>1 DEF TypeOK, Alone
  <2>3. TypeOK'
    BY <1>1, <2>1, <2>2 DEF TypeOK, Steps
  <2>4. QED
    BY <1>1, <2>2, <2>3, LocksKept, LoginStep DEF Creating, Acting
<1>2. CASE SetWallet(p)
  BY <1>2, EndStep DEF SetWallet, IInv, TypeOK
<1>3. QED
  BY <1>1, <1>2
----------------------------------------------------------------------------
\* A step of a command that leaves the file alone, and does not report an
\* export, keeps the invariant if its wallet is still the one it was told.
LEMMA CommandStep ==
  ASSUME IInv, NEW p \in Processes, TypeOK', Alone(p),
         UNCHANGED <<database, file, drawn, raced>>,
         pc'[p] \notin Creating \cup {"main", "write"},
         pc'[p] = "done" => cmd'[p].kind # "export",
         Resolved(p)'
  PROVE  IInv'
<1> USE DEF IInv, Alone, database, locks
<1>1. Settled' /\ RowsReadable'
  BY LocksKept
<1>2. ASSUME NEW q \in Processes PROVE Resolved(q)'
  BY DEF Resolved
<1>3. Exported'
  BY DEF Exported
<1>4. QED
  BY <1>1, <1>2, <1>3

\* A command reads its settings and unlocks the store.
LEMMA OpeningStep ==
  ASSUME IInv, NEW p \in Processes, Command(p) \/ Unlock(p)
  PROVE  IInv'
<1> USE DEF IInv, Goto, Hold
<1>1. CASE Command(p)
  <2>1. PICK kind \in {"swap", "reveal", "export"}, told \in Addresses \cup {None},
             loaded \in {default, None} :
          cmd' = [cmd EXCEPT ![p] = [kind |-> kind, told |-> told,
                                     loaded |-> loaded, wallet |-> None]]
    BY <1>1 DEF Command
  <2>2. pc' = [pc EXCEPT ![p] = "unlock"] /\ pc'[p] = "unlock" /\ Alone(p)
        /\ UNCHANGED <<database, file, drawn, secret, raced>>
    BY <1>1, <2>1 DEF Command, TypeOK, Alone
  <2>3. TypeOK'
    BY <2>1, <2>2 DEF TypeOK, database, Steps
  <2>4. Resolved(p)'
    BY <2>1, <2>2 DEF Resolved, Acting, TypeOK
  <2>5. QED
    BY <2>2, <2>3, <2>4, CommandStep DEF Creating
<1>2. CASE Unlock(p)
  <2>1. PICK pw \in Passwords : Opens(pw) /\ secret' = [secret EXCEPT ![p] = Key(pw, salt)]
    BY <1>2 DEF Unlock
  <2>2. Key(pw, salt) \in Keys
    BY <2>1 DEF Opens, Key, Keys, TypeOK
  <2>3. pc[p] = "unlock" /\ pc' = [pc EXCEPT ![p] = "pick"] /\ pc'[p] = "pick" /\ Alone(p)
        /\ UNCHANGED <<database, file, drawn, cmd, raced>>
    BY <1>2, <2>1 DEF Unlock, TypeOK, Alone
  <2>4. TypeOK'
    BY <2>1, <2>2, <2>3 DEF TypeOK, database, Steps
  <2>5. Resolved(p)'
    BY <2>3 DEF Resolved, Acting
  <2>6. QED
    BY <2>3, <2>4, <2>5, CommandStep DEF Creating
<1>3. QED
  BY <1>1, <1>2

\* Pick finds the wallet told, or the default that was loaded, or refuses.
LEMMA PickStep ==
  ASSUME IInv, NEW p \in Processes, PickWallet(p)
  PROVE  IInv'
<1> USE DEF IInv
<1>1. PICK a \in Picked(p) : cmd' = [cmd EXCEPT ![p].wallet = a]
  BY DEF PickWallet
<1>2. /\ a \in Addresses
      /\ cmd[p].told # None => a = cmd[p].told
      /\ cmd[p].told = None /\ cmd[p].loaded # None => a = cmd[p].loaded
  BY <1>1 DEF Picked, Stored
<1>3. /\ pc[p] = "pick" /\ cmd[p].kind \in {"swap", "reveal", "export"}
      /\ pc' = [pc EXCEPT ![p] = CASE cmd[p].kind = "swap" -> "quote"
                                   [] cmd[p].kind = "reveal" -> "reveal"
                                   [] OTHER -> "export"]
      /\ UNCHANGED <<database, file, drawn, secret, raced>>
  BY DEF PickWallet, Goto, Resolved
<1>4. /\ pc'[p] \in {"quote", "reveal", "export"}
      /\ pc'[p] = "export" <=> cmd[p].kind = "export"
  BY <1>3 DEF TypeOK
<1>5. /\ cmd'[p].wallet = a /\ cmd'[p].kind = cmd[p].kind
      /\ cmd'[p].told = cmd[p].told /\ cmd'[p].loaded = cmd[p].loaded
  BY <1>1 DEF TypeOK
<1>6. Alone(p)
  BY <1>1, <1>3 DEF TypeOK, Alone
<1>7. TypeOK'
  BY <1>1, <1>2, <1>3, <1>4 DEF TypeOK, database, Steps
<1>8. Resolved(p)'
  BY <1>2, <1>4, <1>5 DEF Resolved, Acting
<1>9. QED
  BY <1>3, <1>4, <1>6, <1>7, <1>8, CommandStep DEF Creating

\* The steps of a swap and of a reveal on that wallet; an executed swap is not
\* modelled here.
LEMMA ActingStep ==
  ASSUME IInv, NEW p \in Processes, QuoteSwap(p) \/ ConfirmSwap(p) \/ Reveal(p)
  PROVE  IInv'
<1> USE DEF IInv
<1>1. UNCHANGED <<database, file, drawn, raced>>
  BY DEF QuoteSwap, ConfirmSwap, Reveal
<1>2. CASE End(p)
  BY <1>1, <1>2, EndStep DEF database, locks, TypeOK
<1>3. ASSUME NEW step \in {"confirmSwap", "done"}, pc' = [pc EXCEPT ![p] = step],
             pc[p] \in {"quote", "confirmSwap", "reveal"}, UNCHANGED <<secret, cmd>>
      PROVE  IInv'
  <2>1. pc'[p] = step /\ Alone(p)
    BY <1>3 DEF TypeOK, Alone
  <2>2. TypeOK'
    BY <1>1, <1>3 DEF TypeOK, database, Steps
  <2>3. Resolved(p)' /\ cmd'[p].kind # "export"
    BY <1>3, <2>1 DEF Resolved, Acting
  <2>4. QED
    BY <1>1, <1>3, <2>1, <2>2, <2>3, CommandStep DEF Creating
<1>4. QED
  BY <1>2, <1>3 DEF QuoteSwap, ConfirmSwap, Reveal, Goto

\* An export creates the file of its wallet, and is the only one that has it.
LEMMA CreateFileStep ==
  ASSUME IInv, NEW p \in Processes, CreateFile(p)
  PROVE  IInv'
<1> USE DEF IInv
<1>1. /\ pc[p] = "export" /\ cmd[p].wallet \in Addresses /\ file = None
      /\ file' = [of |-> cmd[p].wallet, whole |-> FALSE]
      /\ pc' = [pc EXCEPT ![p] = "write"]
      /\ UNCHANGED <<database, drawn, secret, cmd, raced>>
  BY DEF CreateFile, Goto, Stored
<1>2. pc'[p] = "write" /\ Alone(p)
  BY <1>1 DEF TypeOK, Alone
<1>3. TypeOK'
  BY <1>1 DEF TypeOK, database, Steps, Keystores
<1>4. \A q \in Processes : pc[q] # "write" /\ (pc[q] = "done" => cmd[q].kind # "export")
  <2>1. ASSUME NEW q \in Processes, pc[q] \in {"write", "done"}
        PROVE  cmd[q].wallet \in Addresses
    BY <2>1 DEF Resolved, Acting
  <2>2. \A a \in Addresses, b \in BOOLEAN : [of |-> a, whole |-> b] \in Keystores
    BY DEF Keystores
  <2>3. QED
    BY <1>1, <2>1, <2>2, VaultAssumption DEF Exported
<1>5. Settled' /\ RowsReadable'
  BY <1>1, <1>2, LocksKept DEF database, locks, Creating
<1>6. ASSUME NEW q \in Processes PROVE Resolved(q)'
  BY <1>1, <1>2 DEF Resolved, Alone, Acting
<1>7. Exported'
  BY <1>1, <1>2, <1>4 DEF Exported, Alone
<1>8. QED
  BY <1>3, <1>5, <1>6, <1>7

\* It writes the file, or fails, and no other export was done or at it.
LEMMA WriteFileStep ==
  ASSUME IInv, NEW p \in Processes, WriteFile(p)
  PROVE  IInv'
<1> USE DEF IInv
<1>1. /\ pc[p] = "write" /\ cmd[p].wallet \in Addresses /\ cmd[p].kind = "export"
      /\ file = [of |-> cmd[p].wallet, whole |-> FALSE]
      /\ UNCHANGED <<database, drawn, raced>>
  BY DEF WriteFile, Resolved, Acting, Exported
<1>2. \A q \in Processes \ {p} :
        pc[q] # "write" /\ (pc[q] = "done" => cmd[q].kind # "export")
  BY <1>1 DEF Exported
<1>3. CASE pc' = [pc EXCEPT ![p] = "done"] /\ UNCHANGED <<secret, cmd>>
           /\ file' = [file EXCEPT !.whole = TRUE]
  <2>1. file' = [of |-> cmd[p].wallet, whole |-> TRUE]
    BY <1>1, <1>3
  <2>2. pc'[p] = "done" /\ Alone(p)
    BY <1>3 DEF TypeOK, Alone
  <2>3. TypeOK'
    BY <1>1, <1>3, <2>1 DEF TypeOK, database, Steps, Keystores
  <2>4. Settled' /\ RowsReadable'
    BY <1>1, <2>2, LocksKept DEF database, locks, Creating
  <2>5. ASSUME NEW q \in Processes PROVE Resolved(q)'
    BY <1>1, <1>3, <2>2 DEF Resolved, Alone, Acting
  <2>6. Exported'
    BY <1>2, <1>3, <2>1, <2>2 DEF Exported, Alone
  <2>7. QED
    BY <2>3, <2>4, <2>5, <2>6
<1>4. CASE file' \in {None, file} /\ End(p)
  <2>1. pc'[p] = "off" /\ Alone(p)
    BY <1>4 DEF End, TypeOK, Alone
  <2>2. NoCommand \in [kind : {"none", "swap", "reveal", "export", "config"},
                       told : Addresses \cup {None}, loaded : Addresses \cup {None},
                       wallet : Addresses \cup {None}]
    BY DEF NoCommand
  <2>3. TypeOK'
    BY <1>1, <1>4, <2>2 DEF End, TypeOK, database, Steps
  <2>4. Settled' /\ RowsReadable'
    BY <1>1, <2>1, LocksKept DEF database, locks, Creating
  <2>5. ASSUME NEW q \in Processes PROVE Resolved(q)'
    BY <2>1 DEF Resolved, Alone, Acting
  <2>6. Exported'
    BY <1>2, <2>1 DEF Exported, Alone
  <2>7. QED
    BY <2>3, <2>4, <2>5, <2>6
<1>5. QED
  BY <1>3, <1>4 DEF WriteFile, Goto
----------------------------------------------------------------------------
\* No step breaks the invariant.
LEMMA NextStep == IInv /\ [Next]_vars => IInv'
<1> SUFFICES ASSUME IInv, [Next]_vars PROVE IInv'
  OBVIOUS
<1>1. CASE UNCHANGED vars
  BY <1>1
  DEF vars, IInv, TypeOK, Settled, RowsReadable, Stored, Resolved, Exported
<1>2. CASE Next
  <2>1. PICK p \in Processes :
          \/ Start(p) \/ EnterPassword(p) \/ ConfirmPassword(p) \/ InitSalt(p)
          \/ InitSentinel(p) \/ Login(p) \/ AddWallet(p) \/ DeleteWallet(p)
          \/ SelectWallet(p) \/ Crash(p) \/ Command(p) \/ Configure(p) \/ SetWallet(p)
          \/ Unlock(p) \/ PickWallet(p) \/ QuoteSwap(p) \/ ConfirmSwap(p) \/ Reveal(p)
          \/ CreateFile(p) \/ WriteFile(p)
    BY <1>2 DEF Next
  <2>2. CASE Crash(p)
    BY <2>2, EndStep DEF Crash, database, locks, IInv, TypeOK
  <2>3. QED
    BY <2>1, <2>2, StartStep, PasswordStep, InitSaltStep, InitSentinelStep, LogInStep,
       MainStep, ConfigStep, OpeningStep, PickStep, ActingStep, CreateFileStep,
       WriteFileStep
<1>3. QED
  BY <1>1, <1>2

\* The locks, the rows, the commands and the export stay as the invariant says.
THEOREM Invariance == Spec => []IInv
<1>1. QED
  BY Initially, NextStep, PTL DEF Spec

\* The types of all variables, for any number of processes; a process that is
\* in, or runs a command past its unlocking, holds a key.
THEOREM TypesHold == Spec => []TypeOK
<1>1. IInv => TypeOK
  BY DEF IInv
<1>2. QED
  BY <1>1, Invariance, PTL

\* One key reads every wallet that is stored, unless two processes set the
\* password at once.
THEOREM RowsReadableHolds == Spec => []RowsReadable
<1>1. IInv => RowsReadable
  BY DEF IInv
<1>2. QED
  BY <1>1, Invariance, PTL

\* A command acts on the wallet it was told, else on the default it loaded, and
\* an export that reports success left that wallet's keystore whole.
THEOREM ActsAsToldHolds == Spec => []ActsAsTold
<1>1. IInv => ActsAsTold
  BY DEF IInv, Resolved, Exported, Acting, ActsAsTold
<1>2. QED
  BY <1>1, Invariance, PTL

\* A step writes only a file that is not there, or that it created itself.
THEOREM KeystoresKeptHolds == Spec => KeystoresKept
<1> DEFINE Kept == \/ file' = file
                   \/ \E p \in Processes : /\ pc[p] = "write" /\ pc'[p] # "write"
                                           /\ ~file.whole
                                           /\ file' # None => file'.of = file.of
<1>1. IInv /\ [Next]_vars => (file # None => Kept) \/ file' = file
  <2> SUFFICES ASSUME IInv, [Next]_vars, file # None PROVE Kept
    OBVIOUS
  <2>1. ASSUME NEW p \in Processes, WriteFile(p) PROVE Kept
    <3>1. pc[p] = "write" /\ file.whole = FALSE
      BY <2>1 DEF IInv, Exported, WriteFile
    <3>2. pc'[p] # "write"
      BY <2>1 DEF WriteFile, Goto, End, IInv, TypeOK
    <3>3. file' # None => file'.of = file.of
      BY <2>1, <3>1 DEF WriteFile, IInv, Exported
    <3>4. QED
      BY <3>1, <3>2, <3>3
  <2>2. CASE UNCHANGED vars
    BY <2>2 DEF vars
  <2>3. CASE ~(\E p \in Processes : WriteFile(p))
    BY <2>3
    DEF Next, vars, database, locks, Start, EnterPassword, ConfirmPassword, InitSalt,
        InitSentinel, Login, AddWallet, DeleteWallet, SelectWallet, Crash, Command,
        Configure, SetWallet, Unlock, PickWallet, QuoteSwap, ConfirmSwap, Reveal,
        CreateFile
  <2>4. QED
    BY <2>1, <2>2, <2>3
<1>2. QED
  BY <1>1, Invariance, PTL DEF Spec, KeystoresKept
=============================================================================
