---------------------------- MODULE WalletScreen ----------------------------
(***************************************************************************)
(* The wallet side of the TUI's main screen: the wallet list, the wallet   *)
(* that is current, and the modes that create, import, delete and reveal.  *)
(* A key acts at once.  What an overlay or a panel emits, and what a       *)
(* command returns, is a message in flight, delivered in any order to      *)
(* whatever the screen shows by then.  The balances that follow the        *)
(* current wallet are in ChainScreen, the swap dialog in SwapOverlay.      *)
(***************************************************************************)
EXTENDS Naturals, FiniteSets, Bags

CONSTANTS
  Phrases,     \* recovery phrases; a phrase stands for its address too
  MaxRows,     \* bound: rows ever inserted
  MaxPending,  \* bound: messages in flight when a key is pressed
  None         \* no wallet, no phrase

ASSUME ScreenAssumption ==
  /\ None \notin Phrases
  /\ MaxRows \in Nat /\ MaxPending \in Nat \ {0}

VARIABLES
  store,      \* rows of the wallets table
  inserted,   \* how many rows were ever inserted
  list,       \* m.wallets, the items of the panel
  cursor,     \* index of the highlighted item
  current,    \* m.current
  preferred,  \* m.defaultWallet, read once from the settings
  default,    \* the default wallet in the settings
  mode,       \* m.mode
  seed,       \* the seed overlay
  inflight,   \* bag of messages and commands on their way
  deletion,   \* the last delete: the wallet the prompt named, the wallet sent
  proof,      \* of the last phrase saved after a quiz, the words proved
  hasty,      \* a delete was asked for while the screen had news coming
  orphan,     \* a seed overlay went away while its password was checked
  stale       \* refreshes overlapped, or one failed, and none came since

screen == <<list, cursor, current>>
settings == <<preferred, default>>
ui == <<mode, seed, orphan>>
database == <<store, inserted>>
history == <<deletion, proof, hasty>>
vars == <<store, inserted, list, cursor, current, preferred, default, mode,
          seed, inflight, deletion, proof, hasty, orphan, stale>>

Rows == [id : 1..MaxRows, phrase : Phrases]

\* The i-th item of a list, newest first; None past its end.
Item(rows, i) ==
  LET at == {r \in rows : Cardinality({s \in rows : s.id > r.id}) = i}
  IN IF at = {} THEN None ELSE CHOOSE r \in at : TRUE

\* SelectByAddress: the cursor after looking for an address.
Find(rows, phrase, otherwise) ==
  LET hits == {i \in 0..Cardinality(rows) :
                 \E r \in rows : r = Item(rows, i) /\ r.phrase = phrase}
  IN IF hits = {} THEN otherwise ELSE CHOOSE i \in hits : TRUE

Message(type, phrase, row, rows, n) ==
  [type |-> type, phrase |-> phrase, row |-> row, rows |-> rows, n |-> n]

Plain(type) == Message(type, None, None, {}, 0)

One(m) == SetToBag({m})
Emit(m) == /\ BagCardinality(inflight) < MaxPending
           /\ inflight' = inflight (+) One(m)
Consume(m) == inflight' = inflight (-) One(m)
Answer(m, n) == inflight' = (inflight (-) One(m)) (+) One(n)

Pending(types) == \E m \in BagToSet(inflight) : m.type \in types

\* Everything that changes the store or the list, or leads to a refresh.
Changes == {"delete", "deleted", "save", "created", "import", "imported",
            "refresh", "refreshed", "select"}

NoOverlay == [backup |-> FALSE, address |-> None, phrase |-> None,
              step |-> "password", asked |-> 0, proved |-> 0, busy |-> FALSE]

\* The mode of the screen.  Nothing reads a seed overlay that is closed; one
\* that leaves a check behind is noted.
SetMode(next) ==
  /\ mode' = next
  /\ seed' = NoOverlay
  /\ orphan' = (orphan \/ (mode = "seed" /\ Pending({"revealed"})))

OpenOverlay(overlay) ==
  /\ mode' = "seed"
  /\ seed' = overlay
  /\ UNCHANGED orphan

\* Phrases that occur anywhere: a generated one is none of them.
Mentioned ==
  {r.phrase : r \in (store \cup list \cup {current}) \ {None}}
    \cup {preferred, default, seed.phrase, seed.address}
    \cup {m.phrase : m \in BagToSet(inflight)}
    \cup UNION {{r.phrase : r \in (m.rows \cup {m.row}) \ {None}} : m \in BagToSet(inflight)}

\* Issue a refresh in place of m, noting whether another is under way.
Refresh(m) ==
  /\ Answer(m, Plain("refresh"))
  /\ stale' = Pending({"refresh", "refreshed"})
----------------------------------------------------------------------------
\* The panel's list takes a key: another wallet is highlighted.
MoveCursor ==
  /\ mode = "normal"
  /\ cursor' \in 0..Cardinality(list)
  /\ cursor' # cursor
  /\ Item(list, cursor') # None
  /\ Emit(Message("select", None, Item(list, cursor'), {}, 0))
  /\ UNCHANGED <<database, list, current, settings, ui, history, stale>>

AskCreate ==
  /\ mode = "normal" /\ SetMode("create")
  /\ UNCHANGED <<database, screen, settings, inflight, history, stale>>

\* openBackupOverlay: a fresh phrase, or the random source fails.
ConfirmCreate ==
  /\ mode = "create"
  /\ \/ \E p \in Phrases \ Mentioned :
          OpenOverlay([NoOverlay EXCEPT !.backup = TRUE, !.phrase = p, !.step = "show"])
     \/ SetMode("normal")
  /\ UNCHANGED <<database, screen, settings, inflight, history, stale>>

AskDelete ==
  /\ mode = "normal"
  /\ current # None
  /\ SetMode("delete")
  /\ deletion' = [named |-> current, row |-> None]
  /\ hasty' = (hasty \/ Pending(Changes))
  /\ UNCHANGED <<database, screen, settings, inflight, proof, stale>>

\* Mutant of ConfirmDelete: the highlighted wallet goes, not the current one.
ConfirmDeleteHighlighted ==
  /\ mode = "delete"
  /\ current # None
  /\ Item(list, 0) # None
  /\ Emit(Message("delete", None, Item(list, 0), {}, 0))
  /\ deletion' = [deletion EXCEPT !.row = Item(list, 0)]
  /\ UNCHANGED <<database, screen, settings, ui, proof, hasty, stale>>

\* y on the prompt, which stays up until the delete has come back: y again
\* sends another.
ConfirmDelete ==
  /\ mode = "delete"
  /\ current # None
  /\ Emit(Message("delete", None, current, {}, 0))
  /\ deletion' = [deletion EXCEPT !.row = current]
  /\ UNCHANGED <<database, screen, settings, ui, proof, hasty, stale>>

\* Any other key on a prompt; y with no wallet left; esc on the address.
Dismiss ==
  /\ mode \in {"create", "delete", "qr"}
  /\ SetMode("normal")
  /\ UNCHANGED <<database, screen, settings, inflight, history, stale>>

OpenImport ==
  /\ mode = "normal" /\ SetMode("import")
  /\ UNCHANGED <<database, screen, settings, inflight, history, stale>>

\* Enter in the import overlay, as often as it is pressed.
SubmitImport ==
  /\ mode = "import"
  /\ \E p \in Phrases :
       Emit(Message("import", p, None, {}, 0))
  /\ UNCHANGED <<database, screen, settings, ui, history, stale>>

\* openRevealOverlay for the current wallet.
OpenReveal ==
  /\ mode = "normal"
  /\ current # None
  /\ OpenOverlay([NoOverlay EXCEPT !.address = current.phrase])
  /\ UNCHANGED <<database, screen, settings, inflight, history, stale>>

\* The password is checked, and the phrase decrypted, by a command.
SubmitPassword ==
  /\ mode = "seed"
  /\ seed.step = "password" /\ ~seed.busy
  /\ seed' = [seed EXCEPT !.busy = TRUE]
  /\ Emit(Message("revealed", seed.address, None, {}, 0))
  /\ UNCHANGED <<database, screen, settings, mode, history, orphan, stale>>

\* Enter on the words of a new wallet: the quiz.
StartQuiz ==
  /\ mode = "seed"
  /\ seed.step = "show" /\ seed.backup
  /\ seed' = [seed EXCEPT !.step = "quiz"]
  /\ UNCHANGED <<database, screen, settings, mode, inflight, history, orphan, stale>>

\* Mutant of AnswerQuiz: the first word is enough.
AnswerOneWord ==
  /\ mode = "seed"
  /\ seed.step = "quiz" /\ seed.asked < 2
  /\ seed' = [seed EXCEPT !.asked = 2, !.proved = @ + 1, !.step = "done"]
  /\ Emit(Message("save", seed.phrase, None, {}, seed'.proved))
  /\ UNCHANGED <<database, screen, settings, mode, history, orphan, stale>>

\* Mutant of AnswerQuiz: any number of words may be asked.
AnswerAnyNumber ==
  /\ mode = "seed"
  /\ seed.step = "quiz"
  /\ seed' = [seed EXCEPT !.asked = @ + 1, !.proved = @ + 1,
                          !.step = IF seed.asked = 1 THEN "done" ELSE "quiz"]
  /\ IF seed.asked = 1
       THEN Emit(Message("save", seed.phrase, None, {}, 2))
       ELSE UNCHANGED inflight
  /\ UNCHANGED <<database, screen, settings, mode, history, orphan, stale>>

\* A word of the quiz is right; after the second the phrase goes to be saved.
AnswerQuiz ==
  /\ mode = "seed"
  /\ seed.step = "quiz" /\ seed.asked < 2
  /\ seed' = [seed EXCEPT !.asked = @ + 1, !.proved = @ + 1,
                          !.step = IF seed.asked = 1 THEN "done" ELSE "quiz"]
  /\ IF seed.asked = 1
       THEN Emit(Message("save", seed.phrase, None, {}, seed'.proved))
       ELSE UNCHANGED inflight
  /\ UNCHANGED <<database, screen, settings, mode, history, orphan, stale>>

\* A word is asked for when both were answered: picks[2] is out of range and
\* the program ends.
AnswerPastEnd ==
  /\ mode = "seed"
  /\ seed.step = "quiz" /\ seed.asked = 2
  /\ SetMode("panic")
  /\ UNCHANGED <<database, screen, settings, inflight, history, stale>>

\* Esc in the import overlay, or in the seed overlay unless it is saving.
LeaveOverlay ==
  /\ \/ mode = "import"
     \/ mode = "seed" /\ seed.step # "done"
  /\ Emit(Plain("close"))
  /\ UNCHANGED <<database, screen, settings, ui, history, stale>>

\* Enter on the settings tab's wallet row.
ShowWallet ==
  /\ mode = "normal"
  /\ Emit(Plain("showWallet"))
  /\ UNCHANGED <<database, screen, settings, ui, history, stale>>
----------------------------------------------------------------------------
\* refreshWalletsCmd reads and decrypts every row, or fails.
RunRefresh(m) ==
  /\ m.type = "refresh"
  /\ \/ Answer(m, Message("refreshed", None, None, store, 0)) /\ UNCHANGED stale
     \/ Consume(m) /\ stale' = TRUE
  /\ UNCHANGED <<database, screen, settings, ui, history>>

\* onWalletsRefreshed: the cursor keeps its index, then looks for the default
\* the screen started with.
OnWalletsRefreshed(m) ==
  /\ m.type = "refreshed"
  /\ list' = m.rows
  /\ cursor' = Find(m.rows, preferred, cursor)
  /\ current' = IF Item(m.rows, cursor') # None THEN Item(m.rows, cursor')
                                                ELSE Item(m.rows, 0)
  /\ Consume(m)
  /\ UNCHANGED <<database, settings, ui, history, stale>>

\* Service.Delete runs: no row matches, or one goes, or the database fails.
RunDelete(m) ==
  /\ m.type = "delete"
  /\ \/ store' = store \ {m.row} /\ Answer(m, Message("deleted", None, None, {}, 1))
     \/ UNCHANGED store /\ Answer(m, Plain("deleted"))
  /\ UNCHANGED <<inserted, screen, settings, ui, history, stale>>

\* Service.Import: an address is in the table at most once.
Insert(m, done) ==
  \/ /\ \A r \in store : r.phrase # m.phrase
     /\ inserted < MaxRows
     /\ inserted' = inserted + 1
     /\ store' = store \cup {[id |-> inserted', phrase |-> m.phrase]}
     /\ Answer(m, Message(done, None, None, {}, 1))
  \/ UNCHANGED database /\ Answer(m, Plain(done))

RunImport(m) ==
  /\ m.type = "import"
  /\ Insert(m, "imported")
  /\ UNCHANGED <<screen, settings, ui, history, stale>>

\* Mutant of RunSave: a phrase that cannot be saved is dropped in silence.
RunSaveSilently(m) ==
  /\ m.type = "save"
  /\ \/ Insert(m, "created") /\ proof' = IF store' = store THEN proof ELSE m.n
     \/ Consume(m) /\ UNCHANGED <<database, proof>>
  /\ UNCHANGED <<screen, settings, ui, deletion, hasty, stale>>

\* saveConfirmedCmd, started by the overlay's ConfirmedMsg.
RunSave(m) ==
  /\ m.type = "save"
  /\ Insert(m, "created")
  /\ proof' = IF store' = store THEN proof ELSE m.n
  /\ UNCHANGED <<screen, settings, ui, deletion, hasty, stale>>

\* Mutant of OnFinished: a result that finds the screen closed is dropped.
OnFinishedDrops(m) ==
  /\ m.type \in {"created", "imported", "deleted"}
  /\ IF m.n = 1 /\ mode # "normal"
       THEN Refresh(m)
       ELSE Consume(m) /\ UNCHANGED stale
  /\ IF m.type = "imported" /\ m.n = 0 THEN UNCHANGED ui
                                       ELSE SetMode("normal")
  /\ UNCHANGED <<database, screen, settings, history>>

\* onCreated, onDeleted, onImported: the screen goes back to normal, whatever
\* is open, unless an import failed; after a success the list is read again.
OnFinished(m) ==
  /\ m.type \in {"created", "imported", "deleted"}
  /\ IF m.n = 1 THEN Refresh(m) ELSE Consume(m) /\ UNCHANGED stale
  /\ IF m.type = "imported" /\ m.n = 0 THEN UNCHANGED ui
                                       ELSE SetMode("normal")
  /\ UNCHANGED <<database, screen, settings, history>>

\* seedoverlay.CloseMsg, importoverlay.CancelMsg.
OnClose(m) ==
  /\ m.type = "close"
  /\ Consume(m)
  /\ SetMode("normal")
  /\ UNCHANGED <<database, screen, settings, history, stale>>

\* onWalletSelected persists the wallet as the default; m.defaultWallet stays.
OnWalletSelected(m) ==
  /\ m.type = "select"
  /\ Consume(m)
  /\ current' = m.row
  /\ default' = m.row.phrase
  /\ UNCHANGED <<database, list, cursor, preferred, ui, history, stale>>

\* settingspanel.ShowWalletMsg.
OnShowWallet(m) ==
  /\ m.type = "showWallet"
  /\ Consume(m)
  /\ IF current = None THEN UNCHANGED ui ELSE SetMode("qr")
  /\ UNCHANGED <<database, screen, settings, history, stale>>

\* Mutant of OnRevealed: the overlay shows the words after a failed check too.
OnRevealedAlways(m) ==
  /\ m.type = "revealed"
  /\ Consume(m)
  /\ \/ /\ mode = "seed"
        /\ \E p \in {m.phrase, None} :
             seed' = [seed EXCEPT !.busy = FALSE, !.phrase = p, !.step = "show",
                                  !.proved = 0]
     \/ mode # "seed" /\ UNCHANGED seed
  /\ UNCHANGED <<database, screen, settings, mode, history, orphan, stale>>

\* onRevealed: the overlay that is open takes the phrase, or the error; a
\* message that finds none is lost.
OnRevealed(m) ==
  /\ m.type = "revealed"
  /\ Consume(m)
  /\ \/ /\ mode = "seed"
        /\ seed' = [seed EXCEPT !.busy = FALSE, !.phrase = m.phrase,
                                !.step = "show", !.proved = 0]
     \/ mode = "seed" /\ seed' = [seed EXCEPT !.busy = FALSE]
     \/ mode # "seed" /\ UNCHANGED seed
  /\ UNCHANGED <<database, screen, settings, mode, history, orphan, stale>>
----------------------------------------------------------------------------
\* What New finds: a few wallets, a default that may be none of them.
Init ==
  /\ inserted \in 0..(MaxRows - 1)
  /\ store \in SUBSET Rows
  /\ {r.id : r \in store} = 1..inserted
  /\ \A r, s \in store : r.id = s.id \/ r.phrase = s.phrase => r = s
  /\ preferred \in {r.phrase : r \in store} \cup {None}
  /\ default = preferred
  /\ list = {} /\ cursor = 0 /\ current = None
  /\ mode = "normal"
  /\ seed = NoOverlay
  /\ inflight = One(Plain("refresh"))
  /\ deletion = [named |-> None, row |-> None]
  /\ proof = 0
  /\ hasty = FALSE /\ orphan = FALSE /\ stale = FALSE

Key ==
  \/ MoveCursor \/ AskCreate \/ ConfirmCreate \/ AskDelete \/ ConfirmDelete
  \/ Dismiss \/ OpenImport \/ SubmitImport \/ OpenReveal \/ SubmitPassword
  \/ StartQuiz \/ AnswerQuiz \/ AnswerPastEnd \/ LeaveOverlay \/ ShowWallet

Run(m) == RunRefresh(m) \/ RunDelete(m) \/ RunImport(m) \/ RunSave(m)

Handle(m) ==
  \/ OnWalletsRefreshed(m) \/ OnFinished(m) \/ OnClose(m)
  \/ OnWalletSelected(m) \/ OnShowWallet(m) \/ OnRevealed(m)

Next == mode # "panic" /\ (Key \/ \E m \in BagToSet(inflight) : Run(m) \/ Handle(m))

Spec == Init /\ [][Next]_vars
----------------------------------------------------------------------------
Messages ==
  [type : Changes \cup {"close", "showWallet", "revealed"},
   phrase : Phrases \cup {None}, row : Rows \cup {None},
   rows : SUBSET Rows, n : 0..2]

\* Types of every variable.
TypeOK ==
  /\ store \subseteq Rows
  /\ inserted \in 0..MaxRows
  /\ list \subseteq Rows
  /\ cursor \in 0..MaxRows
  /\ current \in Rows \cup {None}
  /\ {preferred, default} \subseteq Phrases \cup {None}
  /\ mode \in {"normal", "create", "delete", "import", "seed", "qr", "panic"}
  /\ seed \in [backup : BOOLEAN, address : Phrases \cup {None},
               phrase : Phrases \cup {None},
               step : {"password", "show", "quiz", "done"},
               asked : 0..2, proved : 0..2, busy : BOOLEAN]
  /\ \A m \in BagToSet(inflight) : m \in Messages
  /\ deletion \in [named : Rows \cup {None}, row : Rows \cup {None}]
  /\ proof \in 0..2
  /\ {hasty, orphan, stale} \subseteq BOOLEAN

\* The delete that is sent is of the wallet the prompt named, unless the prompt
\* was opened while the list was about to change under it.
DeletedWasNamed == ~hasty => deletion.row \in {None, deletion.named}

\* A reveal shows the words of the wallet it was opened for ("Enter your
\* password to show the phrase for <address>"), unless an earlier overlay went
\* away with its check under way.
RevealIsOwn ==
  ~orphan /\ ~seed.backup /\ seed.step = "show" => seed.phrase = seed.address

\* "The user must type back two randomly chosen words": both are words of the
\* phrase that is saved, and none is asked past the second, under the same
\* condition.
SavedWasProven ==
  ~orphan => /\ proof \in {0, 2}
             /\ mode # "panic"

\* An overlay that is saving takes no key, so a save or its result must be on
\* the way to close it.
SavingIsUnderway ==
  mode = "seed" /\ seed.step = "done" => Pending({"save", "created"})

\* When no change is on its way, the list shows the store, unless refreshes
\* overlapped or the last one failed.
ListIsStore == ~stale /\ ~Pending(Changes) => list = store
=============================================================================
