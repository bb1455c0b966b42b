------------------------------- MODULE Vault -------------------------------
(***************************************************************************)
(* wallets.db as the processes of one user share it: the login screen that *)
(* sets the password or checks it, the wallets encrypted under it, the     *)
(* default wallet, and the commands swap, reveal, export and config        *)
(* set-wallet.  Every process may end at any step, and every access to the *)
(* database may fail.                                                      *)
(*                                                                         *)
(* A key is a password with the salt it was derived with; decrypting with  *)
(* another key fails.  The flags of a command matter once each, so each is *)
(* a choice where it is read.  The screens after the login are in          *)
(* WalletScreen, the swap itself in SwapExecutor.                          *)
(***************************************************************************)
EXTENDS Naturals

CONSTANTS
  Processes,   \* processes of the user, each of which may run again and again
  Passwords,   \* passwords that satisfy ValidatePassword
  Addresses,   \* wallets
  MaxSalts,    \* bound: salts ever drawn
  None         \* nothing

VARIABLES
  salt,      \* encryption_salt
  sentinel,  \* password_sentinel: the key that encrypted it
  rows,      \* the wallets table: the key each wallet is encrypted under
  default,   \* setting_default_wallet
  known,     \* wallets ever stored, which the lists of processes may still show
  file,      \* the file at the path that exports are told to write
  drawn,     \* salts drawn so far
  pc,        \* where each process is
  secret,    \* the password entered first, or the key a process holds
  cmd,       \* the command a process runs, with what it read for it
  raced      \* two processes were setting the password at the same time

locks == <<salt, sentinel>>
database == <<salt, sentinel, rows, default, known>>
vars == <<salt, sentinel, rows, default, known, file, drawn, pc, secret, cmd, raced>>

Salts == 1..MaxSalts
Keys == [password : Passwords, salt : Salts]
Key(pw, s) == [password |-> pw, salt |-> s]
Keystores == [of : Addresses, whole : BOOLEAN]

ASSUME VaultAssumption ==
  /\ MaxSalts \in Nat \ {0}
  /\ None \notin Passwords \cup Addresses \cup Salts \cup Keys \cup Keystores

Creating == {"create", "confirm", "init", "sentinel"}
Steps == {"unlock", "pick", "quote", "confirmSwap", "reveal", "export", "write"}

NoCommand == [kind |-> "none", told |-> None, loaded |-> None, wallet |-> None]

Goto(p, step) == pc' = [pc EXCEPT ![p] = step]
Hold(p, what) == secret' = [secret EXCEPT ![p] = what]

\* A process ends, by itself or killed.
End(p) ==
  /\ pc' = [pc EXCEPT ![p] = "off"]
  /\ secret' = [secret EXCEPT ![p] = None]
  /\ cmd' = [cmd EXCEPT ![p] = NoCommand]

\* Service.FetchAll decrypts every row, or fails for one it cannot.
Readable(key) == \A a \in Addresses : rows[a] \in {None, key}

Stored == {a \in Addresses : rows[a] # None}
----------------------------------------------------------------------------
\* login.New: without both the salt and the sentinel it is the first access.
Start(p) ==
  /\ pc[p] = "off"
  /\ IF salt # None /\ sentinel # None
       THEN Goto(p, "login") /\ UNCHANGED raced
       ELSE /\ Goto(p, "create")
            /\ raced' = (raced \/ \E q \in Processes : pc[q] \in Creating)
  /\ UNCHANGED <<database, file, drawn, secret, cmd>>

\* Enter on a new password.
EnterPassword(p) ==
  /\ pc[p] = "create"
  /\ \E pw \in Passwords : Hold(p, pw)
  /\ Goto(p, "confirm")
  /\ UNCHANGED <<database, file, drawn, cmd, raced>>

\* The password again.  One that differs, or esc, starts over.
ConfirmPassword(p) ==
  /\ pc[p] = "confirm"
  /\ \/ Goto(p, "init") /\ UNCHANGED secret
     \/ Goto(p, "create") /\ Hold(p, None)
  /\ UNCHANGED <<database, file, drawn, cmd, raced>>

\* deriveAndInitCmd: a key is derived with a fresh salt, which is stored.  An
\* error returns to the confirmation.
InitSalt(p) ==
  /\ pc[p] = "init"
  /\ \/ Goto(p, "confirm") /\ UNCHANGED <<salt, drawn, secret>>
     \/ /\ drawn < MaxSalts
        /\ drawn' = drawn + 1
        /\ salt' = drawn'
        /\ Hold(p, Key(secret[p], drawn'))
        /\ Goto(p, "sentinel")
  /\ UNCHANGED <<sentinel, rows, default, known, file, cmd, raced>>

\* Mutant of InitSentinel: its error does not stop the login.
InitSentinelAnyway(p) ==
  /\ pc[p] = "sentinel"
  /\ Goto(p, "main")
  /\ sentinel' \in {secret[p], sentinel}
  /\ UNCHANGED <<salt, rows, default, known, file, drawn, secret, cmd, raced>>

\* Then the sentinel is stored, encrypted under the key.
InitSentinel(p) ==
  /\ pc[p] = "sentinel"
  /\ \/ Goto(p, "confirm") /\ Hold(p, secret[p].password) /\ UNCHANGED sentinel
     \/ Goto(p, "main") /\ sentinel' = secret[p] /\ UNCHANGED secret
  /\ UNCHANGED <<salt, rows, default, known, file, drawn, cmd, raced>>

\* Unlock: the key of a password is right if it opens the sentinel.
Opens(pw) == salt # None /\ sentinel = Key(pw, salt)

\* Login with a password: deriveAndVerifyCmd.
Login(p) ==
  /\ pc[p] = "login"
  /\ \E pw \in Passwords : Opens(pw) /\ Hold(p, Key(pw, salt))
  /\ Goto(p, "main")
  /\ UNCHANGED <<database, file, drawn, cmd, raced>>

\* A logged-in process adds a wallet, encrypted under its key.
AddWallet(p) ==
  /\ pc[p] = "main"
  /\ \E a \in Addresses \ Stored :
       rows' = [rows EXCEPT ![a] = secret[p]] /\ known' = known \cup {a}
  /\ UNCHANGED <<locks, default, file, drawn, pc, secret, cmd, raced>>

\* It deletes a wallet, even the default one.
DeleteWallet(p) ==
  /\ pc[p] = "main"
  /\ \E a \in Stored : rows' = [rows EXCEPT ![a] = None]
  /\ UNCHANGED <<locks, default, known, file, drawn, pc, secret, cmd, raced>>

\* It selects a wallet of its list, which becomes the default, even if it has
\* gone from the store meanwhile.
SelectWallet(p) ==
  /\ pc[p] = "main"
  /\ \E a \in known : default' = a
  /\ UNCHANGED <<locks, rows, known, file, drawn, pc, secret, cmd, raced>>

Crash(p) ==
  /\ pc[p] # "off"
  /\ End(p)
  /\ UNCHANGED <<database, file, drawn, raced>>
----------------------------------------------------------------------------
\* A command loads the settings; --wallet or --address names a wallet.  Reveal
\* and export go on without a default when the settings cannot be loaded.
Command(p) ==
  /\ pc[p] = "off"
  /\ \E kind \in {"swap", "reveal", "export"}, told \in Addresses \cup {None},
        loaded \in {default, None} :
       /\ kind = "swap" => loaded = default
       /\ cmd' = [cmd EXCEPT ![p] = [kind |-> kind, told |-> told,
                                     loaded |-> loaded, wallet |-> None]]
  /\ Goto(p, "unlock")
  /\ UNCHANGED <<database, file, drawn, secret, raced>>

\* config set-wallet finds the wallet, then stores it as the default.
Configure(p) ==
  /\ pc[p] = "off"
  /\ \E a \in Stored : cmd' = [cmd EXCEPT ![p] = [kind |-> "config", told |-> a,
                                                  loaded |-> None, wallet |-> None]]
  /\ Goto(p, "config")
  /\ UNCHANGED <<database, file, drawn, secret, raced>>

SetWallet(p) ==
  /\ pc[p] = "config"
  /\ default' = cmd[p].told
  /\ End(p)
  /\ UNCHANGED <<locks, rows, known, file, drawn, raced>>

\* Mutant of Unlock: its error is not looked at.
UnlockUnchecked(p) ==
  /\ pc[p] = "unlock"
  /\ \E pw \in Passwords : IF Opens(pw) THEN Hold(p, Key(pw, salt)) ELSE UNCHANGED secret
  /\ Goto(p, "pick")
  /\ UNCHANGED <<database, file, drawn, cmd, raced>>

\* The password of the environment or the prompt unlocks the store.
Unlock(p) ==
  /\ pc[p] = "unlock"
  /\ \E pw \in Passwords : Opens(pw) /\ Hold(p, Key(pw, salt))
  /\ Goto(p, "pick")
  /\ UNCHANGED <<database, file, drawn, cmd, raced>>

\* Mutant of Picked: the only wallet serves, too, when the default is gone.
PickedAnyway(p) ==
  IF cmd[p].told # None THEN {cmd[p].told} \cap Stored
  ELSE IF cmd[p].loaded \in Stored THEN {cmd[p].loaded}
  ELSE {a \in Stored : Stored = {a}}

\* Pick: the wallet named, or the default loaded, or the only one.
Picked(p) ==
  IF cmd[p].told # None THEN {cmd[p].told} \cap Stored
  ELSE IF cmd[p].loaded # None THEN {cmd[p].loaded} \cap Stored
  ELSE {a \in Stored : Stored = {a}}

\* FetchAll and Pick.  Refused, the process ends: Crash.
PickWallet(p) ==
  /\ pc[p] = "pick"
  /\ Readable(secret[p])
  /\ \E a \in Picked(p) : cmd' = [cmd EXCEPT ![p].wallet = a]
  /\ Goto(p, CASE cmd[p].kind = "swap" -> "quote"
               [] cmd[p].kind = "reveal" -> "reveal"
               [] OTHER -> "export")
  /\ UNCHANGED <<database, file, drawn, secret, raced>>

\* The quote is printed and the token checked; with --safety-block a HIGH one
\* ends it, and with --quote-only the command is over.
QuoteSwap(p) ==
  /\ pc[p] = "quote"
  /\ \E risk \in {"unchecked", "low", "high"}, block, quoteOnly \in BOOLEAN :
       IF quoteOnly \/ (block /\ risk = "high") THEN End(p)
       ELSE Goto(p, "confirmSwap") /\ UNCHANGED <<secret, cmd>>
  /\ UNCHANGED <<database, file, drawn, raced>>

\* --yes, or y in a terminal; with neither nothing is executed.
ConfirmSwap(p) ==
  /\ pc[p] = "confirmSwap"
  /\ \E yes, tty, y \in BOOLEAN :
       IF yes \/ (tty /\ y) THEN Goto(p, "done") /\ UNCHANGED <<secret, cmd>>
                            ELSE End(p)
  /\ UNCHANGED <<database, file, drawn, raced>>

\* Reveal reads every row again, and the wallet must still be there.
Reveal(p) ==
  /\ pc[p] = "reveal"
  /\ Readable(secret[p]) /\ cmd[p].wallet \in Stored
  /\ Goto(p, "done")
  /\ UNCHANGED <<database, file, drawn, secret, cmd, raced>>

\* Mutant of CreateFile: a file that is there is written over.
CreateFileOver(p) ==
  /\ pc[p] = "export"
  /\ Readable(secret[p]) /\ cmd[p].wallet \in Stored
  /\ file' = [of |-> cmd[p].wallet, whole |-> FALSE]
  /\ Goto(p, "write")
  /\ UNCHANGED <<database, drawn, secret, cmd, raced>>

\* ExportKeystore: the wallet is read again, and the file created, which must
\* not exist.
CreateFile(p) ==
  /\ pc[p] = "export"
  /\ Readable(secret[p]) /\ cmd[p].wallet \in Stored
  /\ file = None
  /\ file' = [of |-> cmd[p].wallet, whole |-> FALSE]
  /\ Goto(p, "write")
  /\ UNCHANGED <<database, drawn, secret, cmd, raced>>

\* writeNew: the blob is written and the file closed, or on an error removed; an
\* error of Close leaves what was written.
WriteFile(p) ==
  /\ pc[p] = "write"
  /\ \/ file' = [file EXCEPT !.whole = TRUE] /\ Goto(p, "done") /\ UNCHANGED <<secret, cmd>>
     \/ file' \in {None, file} /\ End(p)
  /\ UNCHANGED <<database, drawn, raced>>
----------------------------------------------------------------------------
Init ==
  /\ salt = None /\ sentinel = None
  /\ rows = [a \in Addresses |-> None]
  /\ default = None /\ known = {}
  /\ file = None
  /\ drawn = 0
  /\ pc = [p \in Processes |-> "off"]
  /\ secret = [p \in Processes |-> None]
  /\ cmd = [p \in Processes |-> NoCommand]
  /\ raced = FALSE

Next == \E p \in Processes :
  \/ Start(p) \/ EnterPassword(p) \/ ConfirmPassword(p) \/ InitSalt(p)
  \/ InitSentinel(p) \/ Login(p) \/ AddWallet(p) \/ DeleteWallet(p)
  \/ SelectWallet(p) \/ Crash(p) \/ Command(p) \/ Configure(p) \/ SetWallet(p)
  \/ Unlock(p) \/ PickWallet(p) \/ QuoteSwap(p) \/ ConfirmSwap(p) \/ Reveal(p)
  \/ CreateFile(p) \/ WriteFile(p)

Spec == Init /\ [][Next]_vars
----------------------------------------------------------------------------
\* Types of every variable.
TypeOK ==
  /\ salt \in Salts \cup {None} /\ sentinel \in Keys \cup {None}
  /\ rows \in [Addresses -> Keys \cup {None}]
  /\ default \in Addresses \cup {None} /\ known \subseteq Addresses
  /\ file \in Keystores \cup {None}
  /\ drawn \in 0..MaxSalts
  /\ pc \in [Processes -> {"off", "login", "main", "config", "done"} \cup Creating \cup Steps]
  /\ secret \in [Processes -> Passwords \cup Keys \cup {None}]
  /\ \A p \in Processes :
       /\ pc[p] \in {"confirm", "init"} => secret[p] \in Passwords
       /\ pc[p] \in {"main", "sentinel", "done"} \cup (Steps \ {"unlock"}) => secret[p] \in Keys
  /\ cmd \in [Processes -> [kind : {"none", "swap", "reveal", "export", "config"},
                            told : Addresses \cup {None}, loaded : Addresses \cup {None},
                            wallet : Addresses \cup {None}]]
  /\ raced \in BOOLEAN

\* The password that unlocks the store decrypts every wallet in it, whatever
\* failed or was killed on the way, unless two processes set it at once.
RowsReadable ==
  ~raced => \A a \in Stored : sentinel = rows[a] /\ salt = rows[a].salt

\* A command that was told a wallet, or found a default, acts on that one and
\* never settles for another ("explicit address > configured default > the
\* only wallet"), whatever other processes did to the store since.  An export
\* that reports success left the whole keystore of that wallet.
ActsAsTold ==
  \A p \in Processes : pc[p] = "done" =>
    /\ cmd[p].told # None => cmd[p].wallet = cmd[p].told
    /\ cmd[p].told = None /\ cmd[p].loaded # None => cmd[p].wallet = cmd[p].loaded
    /\ cmd[p].kind = "export" => file = [of |-> cmd[p].wallet, whole |-> TRUE]

\* A keystore that was written stays as it is ("an existing file is never
\* overwritten"), and a file another export is writing is not taken over.
KeystoresKept ==
  [][file # None => \/ file' = file
                    \/ \E p \in Processes : /\ pc[p] = "write" /\ pc'[p] # "write"
                                            /\ ~file.whole
                                            /\ file' # None => file'.of = file.of]_file
=============================================================================
