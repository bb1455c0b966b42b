------------------------- MODULE WalletScreenProofs -------------------------
(***************************************************************************)
(* Theorems about WalletScreen, for any recovery phrases and any bounds on *)
(* the rows and on the messages in flight.                                 *)
(*                                                                         *)
(* The invariant has six parts besides the types.  Numbered: rows have ids *)
(* of their own, so a list is never longer than the bound.  Worded: an     *)
(* overlay that shows a phrase has one, and so has every message about     *)
(* one.  Prompted: a prompt that was opened in a quiet screen still names  *)
(* the current wallet.  Checked: the one password check under way belongs  *)
(* to the overlay that is open.  Quizzed: how many words are proved at     *)
(* each step of the quiz, and in each phrase on its way to the store.      *)
(* Listed: what is known of the list while changes of the store are on     *)
(* their way.                                                              *)
(***************************************************************************)
EXTENDS WalletScreen, CollectionFacts

\* No two rows have the same id.
Distinct(rows) == \A r, s \in rows : r.id = s.id => r = s

\* The messages that read the store, and the checks of a password.
Reads == {m \in BagToSet(inflight) : m.type \in {"refresh", "refreshed"}}
Checks == {m \in BagToSet(inflight) : m.type = "revealed"}

Numbered ==
  /\ Distinct(store) /\ Distinct(list)
  /\ \A r \in store : r.id <= inserted
  /\ \A m \in BagToSet(inflight) : Distinct(m.rows)
  /\ \A m \in BagToSet(inflight) : m.type = "select" => m.row \in Rows

Worded ==
  /\ mode = "seed" => IF seed.step = "password" THEN seed.address \in Phrases
                                                ELSE seed.phrase \in Phrases
  /\ \A m \in BagToSet(inflight) :
       m.type \in {"import", "save", "revealed"} => m.phrase \in Phrases

Prompted ==
  ~hasty =>
    /\ deletion.row \in {None, deletion.named}
    /\ mode = "delete" => /\ current = deletion.named
                          /\ ~Pending(Changes \ {"delete", "deleted"})

Checked ==
  /\ seed.backup => seed.step # "password"
  /\ ~orphan =>
       /\ \A m \in Checks : inflight[m] = 1
       /\ \A m, n \in Checks : m = n
       /\ \A m \in Checks : /\ mode = "seed" /\ seed.busy /\ seed.step = "password"
                            /\ m.phrase = seed.address
       /\ RevealIsOwn

Quizzed ==
  /\ seed.proved <= seed.asked
  /\ ~orphan =>
       /\ seed.step = "quiz" => seed.asked < 2 /\ seed.proved = seed.asked
       /\ seed.step = "show" /\ seed.backup => seed.asked = 0 /\ seed.proved = 0
       /\ \A m \in BagToSet(inflight) : m.type = "save" => m.n = 2
       /\ proof \in {0, 2} /\ mode # "panic"

Listed ==
  ~stale =>
    /\ \A m \in Reads : inflight[m] = 1
    /\ \A m, n \in Reads : m = n
    /\ \/ \E m \in BagToSet(inflight) : m.type \in {"created", "imported", "deleted"} /\ m.n = 1
       \/ Pending({"refresh"})
       \/ /\ \A m \in Reads : m.rows = store
          /\ Reads # {} \/ list = store

IInv ==
  /\ TypeOK
  /\ IsABag(inflight)
  /\ Numbered
  /\ Worded
  /\ Prompted
  /\ Checked
  /\ Quizzed
  /\ Listed
  /\ SavingIsUnderway
----------------------------------------------------------------------------
\* The highlighted item is a row of the list, or there is none.
LEMMA ItemOfList ==
  ASSUME NEW rows, NEW i
  PROVE  Item(rows, i) \in rows \cup {None}
<1> DEFINE at == {r \in rows : Cardinality({s \in rows : s.id > r.id}) = i}
<1>1. CASE at = {}
  BY <1>1 DEF Item
<1>2. CASE at # {}
  <2>1. (CHOOSE r \in at : TRUE) \in at
    BY <1>2
  <2>2. QED
    BY <1>2, <2>1 DEF Item
<1>3. QED
  BY <1>1, <1>2

\* Rows with ids of their own are at most as many as were ever inserted.
LEMMA ListSize ==
  ASSUME NEW rows, rows \subseteq Rows, Distinct(rows)
  PROVE  IsFiniteSet(rows) /\ Cardinality(rows) \in 0..MaxRows
<1> DEFINE f == [r \in rows |-> r.id]
<1>1. f \in Injection(rows, 1..MaxRows)
  BY DEF Rows, Distinct, Injection, IsInjective
<1>2. IsFiniteSet(1..MaxRows) /\ Cardinality(1..MaxRows) = MaxRows
  BY ScreenAssumption, FS_Interval
<1> HIDE DEF f
<1>3. IsFiniteSet(rows) /\ Cardinality(rows) <= Cardinality(1..MaxRows)
  BY <1>1, <1>2, FS_Injection
<1>4. QED
  BY <1>2, <1>3, FS_CardinalityType, ScreenAssumption

\* SelectByAddress leaves the cursor in range.
LEMMA FindInRange ==
  ASSUME NEW rows, rows \subseteq Rows, Distinct(rows), NEW phrase, NEW c \in 0..MaxRows
  PROVE  Find(rows, phrase, c) \in 0..MaxRows
<1> DEFINE hits == {i \in 0..Cardinality(rows) :
                      \E r \in rows : r = Item(rows, i) /\ r.phrase = phrase}
<1>1. \A i \in hits : i \in 0..MaxRows
  BY ListSize, ScreenAssumption
<1>2. CASE hits = {}
  BY <1>2 DEF Find
<1>3. CASE hits # {}
  <2>1. (CHOOSE i \in hits : TRUE) \in hits
    BY <1>3
  <2>2. Find(rows, phrase, c) = CHOOSE i \in hits : TRUE
    BY <1>3 DEF Find
  <2>3. QED
    BY <1>1, <2>1, <2>2
<1>4. QED
  BY <1>2, <1>3
----------------------------------------------------------------------------
\* A message is put on its way, and the others stay.
LEMMA PutOne ==
  ASSUME IsABag(inflight), NEW n, inflight' = inflight (+) One(n)
  PROVE  /\ IsABag(inflight')
         /\ BagToSet(inflight') = BagToSet(inflight) \cup {n}
         /\ \A e \in BagToSet(inflight) \ {n} : inflight'[e] = inflight[e]
         /\ n \notin BagToSet(inflight) => inflight'[n] = 1
BY BagAdd DEF One

\* A message is taken, and the others stay.
LEMMA TakeOne ==
  ASSUME IsABag(inflight), NEW m \in BagToSet(inflight), Consume(m)
  PROVE  /\ IsABag(inflight')
         /\ BagToSet(inflight) \ {m} \subseteq BagToSet(inflight')
         /\ BagToSet(inflight') \subseteq BagToSet(inflight)
         /\ inflight[m] = 1 => m \notin BagToSet(inflight')
         /\ \A e \in BagToSet(inflight) \ {m} : inflight'[e] = inflight[e]
BY BagRemove DEF Consume, One

\* A message is taken and another put on its way.
LEMMA AnswerOne ==
  ASSUME IsABag(inflight), NEW m \in BagToSet(inflight), NEW n, n # m, Answer(m, n)
  PROVE  /\ IsABag(inflight') /\ n \in BagToSet(inflight')
         /\ BagToSet(inflight) \ {m} \subseteq BagToSet(inflight')
         /\ BagToSet(inflight') \subseteq BagToSet(inflight) \cup {n}
         /\ inflight[m] = 1 => m \notin BagToSet(inflight')
         /\ \A e \in BagToSet(inflight) \ {m, n} : inflight'[e] = inflight[e]
         /\ n \notin BagToSet(inflight) => inflight'[n] = 1
<1> DEFINE W == inflight (-) SetToBag({m})
<1>1. /\ IsABag(W) /\ BagToSet(W) \subseteq BagToSet(inflight)
      /\ BagToSet(inflight) \ {m} \subseteq BagToSet(W)
      /\ inflight[m] = 1 => m \notin BagToSet(W)
      /\ \A e \in BagToSet(inflight) \ {m} : W[e] = inflight[e]
  BY BagRemove
<1>2. inflight' = W (+) SetToBag({n})
  BY DEF Answer, One
<1> HIDE DEF W
<1>3. /\ IsABag(W (+) SetToBag({n})) /\ BagToSet(W (+) SetToBag({n})) = BagToSet(W) \cup {n}
      /\ \A e \in BagToSet(W) \ {n} : (W (+) SetToBag({n}))[e] = W[e]
      /\ n \notin BagToSet(W) => (W (+) SetToBag({n}))[n] = 1
  BY <1>1, BagAdd
<1>4. QED
  BY <1>1, <1>2, <1>3
----------------------------------------------------------------------------
Modes == {"normal", "create", "delete", "import", "seed", "qr", "panic"}

Seeds == [backup : BOOLEAN, address : Phrases \cup {None}, phrase : Phrases \cup {None},
          step : {"password", "show", "quiz", "done"},
          asked : 0..2, proved : 0..2, busy : BOOLEAN]

\* What is left of a closed overlay.
LEMMA NoOverlayType ==
  /\ NoOverlay \in Seeds /\ NoOverlay.step = "password" /\ ~NoOverlay.backup
  /\ NoOverlay.asked = 0 /\ NoOverlay.proved = 0 /\ NoOverlay.phrase = None
BY DEF NoOverlay, Seeds

\* A message without a payload.
LEMMA PlainType ==
  ASSUME NEW type \in Changes \cup {"close", "showWallet", "revealed"}
  PROVE  /\ Plain(type) \in Messages /\ Plain(type).type = type /\ Plain(type).n = 0
         /\ Plain(type).rows = {} /\ Plain(type).row = None
BY DEF Plain, Message, Messages

\* The initial states satisfy the invariant.
LEMMA Initially == Init => IInv
<1> SUFFICES ASSUME Init PROVE IInv
  OBVIOUS
<1> DEFINE n == Plain("refresh")
<1>1. /\ n \in Messages /\ n.type = "refresh" /\ n.rows = {}
  BY PlainType DEF Changes
<1> HIDE DEF n
<1>2. IsABag(inflight) /\ BagToSet(inflight) = {n} /\ inflight[n] = 1
  <2>1. inflight = SetToBag({n})
    BY DEF Init, One, n
  <2>2. QED
    BY <2>1 DEF SetToBag, IsABag, BagToSet
<1>3. Reads = {n} /\ Checks = {}
  BY <1>1, <1>2 DEF Reads, Checks
<1>4. seed \in Seeds /\ seed.step = "password" /\ ~seed.backup /\ seed.asked = 0 /\ seed.proved = 0
  BY NoOverlayType DEF Init
<1>5. TypeOK
  <2>1. deletion \in [named : Rows \cup {None}, row : Rows \cup {None}]
    BY DEF Init
  <2>2. {preferred, default} \subseteq Phrases \cup {None}
    BY DEF Init, Rows
  <2>3. inserted \in 0..MaxRows /\ cursor \in 0..MaxRows
    BY ScreenAssumption DEF Init
  <2>4. proof \in 0..2
    BY DEF Init
  <2>5. QED
    BY <1>1, <1>2, <1>4, <2>1, <2>2, <2>3, <2>4 DEF Init, TypeOK, Seeds
<1>6. Numbered
  <2>1. \A r \in store : r.id <= inserted
    <3>1. \A r \in store : r.id \in 1..inserted
      BY DEF Init
    <3>2. QED
      BY <3>1, ScreenAssumption DEF Init
  <2>2. QED
    BY <1>1, <1>2, <2>1 DEF Init, Numbered, Distinct
<1>7. Worded /\ Prompted /\ Checked /\ Quizzed
  BY <1>1, <1>2, <1>3, <1>4 DEF Init, Worded, Prompted, Checked, Quizzed, RevealIsOwn
<1>8. Listed /\ SavingIsUnderway
  BY <1>1, <1>2, <1>3 DEF Init, Listed, SavingIsUnderway, Pending
<1>9. QED
  BY <1>2, <1>5, <1>6, <1>7, <1>8 DEF IInv
----------------------------------------------------------------------------
\* Ids stay apart when no row comes, in the store or in a message.
LEMMA NumberedKept ==
  ASSUME Numbered, UNCHANGED <<store, inserted, list>>,
         \A m \in BagToSet(inflight') :
           \/ m \in BagToSet(inflight)
           \/ Distinct(m.rows) /\ (m.type = "select" => m.row \in Rows)
  PROVE  Numbered'
BY DEF Numbered, Distinct

\* A phrase is where one is needed when no overlay opens, and no message comes
\* that has none.
LEMMA WordedKept ==
  ASSUME Worded, mode' = "seed" => UNCHANGED <<mode, seed>>,
         \A m \in BagToSet(inflight') :
           \/ m \in BagToSet(inflight)
           \/ m.type \in {"import", "save", "revealed"} => m.phrase \in Phrases
  PROVE  Worded'
BY DEF Worded

\* A prompt that is up is kept when nothing comes that changes the list.
LEMMA PromptedKept ==
  ASSUME Prompted, UNCHANGED <<hasty, deletion>>,
         mode' = "delete" =>
           /\ mode = "delete" /\ UNCHANGED current
           /\ \A m \in BagToSet(inflight') :
                m \in BagToSet(inflight) \/ m.type \notin Changes \ {"delete", "deleted"}
  PROVE  Prompted'
BY DEF Prompted, Pending

\* What an open overlay has shown and asked is kept with the overlay, if its
\* check is, and what it saves.
LEMMA OverlayKept ==
  ASSUME Checked, Quizzed, SavingIsUnderway, UNCHANGED <<mode, seed, orphan, proof>>,
         Checks' = Checks, \A m \in Checks : inflight'[m] = inflight[m],
         \A m \in BagToSet(inflight') : m.type = "save" => m \in BagToSet(inflight),
         Pending({"save", "created"}) => Pending({"save", "created"})'
  PROVE  Checked' /\ Quizzed' /\ SavingIsUnderway'
<1>1. Checked'
  BY DEF Checked, RevealIsOwn
<1>2. Quizzed'
  BY DEF Quizzed
<1>3. SavingIsUnderway'
  BY DEF SavingIsUnderway
<1>4. QED
  BY <1>1, <1>2, <1>3

\* An overlay that is closed leaves nothing behind, unless that is noted.
LEMMA OverlayClosed ==
  ASSUME TypeOK, Checked, Quizzed, NEW next \in Modes \ {"seed", "panic"}, SetMode(next),
         proof' = proof, Worded,
         \A m \in BagToSet(inflight') :
           m \in BagToSet(inflight) \/ m.type \notin {"revealed", "save", "import"}
  PROVE  /\ Checked' /\ Quizzed' /\ SavingIsUnderway' /\ Worded'
         /\ seed' \in Seeds /\ mode' = next /\ orphan' \in BOOLEAN
<1>1. /\ mode' = next /\ seed' = NoOverlay
      /\ orphan' = (orphan \/ (mode = "seed" /\ Checks # {}))
  BY DEF SetMode, Pending, Checks
<1>2. /\ seed' \in Seeds /\ seed'.step = "password" /\ ~seed'.backup
      /\ seed'.asked = 0 /\ seed'.proved = 0
  BY <1>1, NoOverlayType
<1>3. ~orphan' => ~orphan /\ Checks = {}
  BY <1>1 DEF Checked
<1>4. Checks' \subseteq Checks
  BY DEF Checks
<1>5. Checked'
  BY <1>2, <1>3, <1>4 DEF Checked, RevealIsOwn
<1>6. Quizzed'
  BY <1>1, <1>2, <1>3 DEF Quizzed, Modes
<1>7. SavingIsUnderway'
  BY <1>1, <1>2 DEF SavingIsUnderway
<1>8. orphan' \in BOOLEAN
  BY <1>1 DEF TypeOK
<1>9. Worded'
  BY <1>1, WordedKept
<1>10. QED
  BY <1>1, <1>2, <1>5, <1>6, <1>7, <1>8, <1>9

\* What is known of the list is kept when no read of the store is touched.
LEMMA ListedKept ==
  ASSUME Listed, UNCHANGED <<store, list, stale>>,
         Reads' = Reads, \A m \in Reads : inflight'[m] = inflight[m],
         \A m \in BagToSet(inflight) :
           m.type \in {"created", "imported", "deleted"} /\ m.n = 1
             => m \in BagToSet(inflight')
  PROVE  Listed'
<1>1. Pending({"refresh"})' <=> Pending({"refresh"})
  BY DEF Pending, Reads
<1>2. QED
  BY <1>1 DEF Listed

\* The types are kept when each variable has its own.
LEMMA TypesKept ==
  ASSUME TypeOK, UNCHANGED <<preferred, proof>> \/ (preferred' = preferred /\ proof' \in 0..2),
         store' \subseteq Rows, inserted' \in 0..MaxRows, list' \subseteq Rows,
         cursor' \in 0..MaxRows, current' \in Rows \cup {None},
         default' \in Phrases \cup {None}, mode' \in Modes, seed' \in Seeds,
         \A m \in BagToSet(inflight') : m \in BagToSet(inflight) \/ m \in Messages,
         deletion' \in [named : Rows \cup {None}, row : Rows \cup {None}],
         hasty' \in BOOLEAN, orphan' \in BOOLEAN, stale' \in BOOLEAN
  PROVE  TypeOK'
BY DEF TypeOK, Modes, Seeds

\* The variables by their types.
LEMMA Typed ==
  ASSUME TypeOK
  PROVE  /\ store \subseteq Rows /\ inserted \in 0..MaxRows /\ list \subseteq Rows
         /\ cursor \in 0..MaxRows /\ current \in Rows \cup {None}
         /\ default \in Phrases \cup {None} /\ mode \in Modes /\ seed \in Seeds
         /\ \A m \in BagToSet(inflight) : m \in Messages
         /\ deletion \in [named : Rows \cup {None}, row : Rows \cup {None}]
         /\ hasty \in BOOLEAN /\ orphan \in BOOLEAN /\ stale \in BOOLEAN /\ proof \in 0..2
BY DEF TypeOK, Modes, Seeds
----------------------------------------------------------------------------
\* Keys that put the screen in another mode, with no overlay open.
LEMMA ModeStep == ASSUME IInv, AskCreate \/ AskDelete \/ Dismiss \/ OpenImport PROVE IInv'
<1>1. /\ UNCHANGED <<store, inserted, list, cursor, current, preferred, default, inflight,
                     proof, stale>>
      /\ \E next \in Modes \ {"seed", "panic"} : SetMode(next)
  BY DEF AskCreate, AskDelete, Dismiss, OpenImport, database, screen, settings, history, Modes
<1>2. PICK next \in Modes \ {"seed", "panic"} : SetMode(next)
  BY <1>1
<1>3. /\ Checked' /\ Quizzed' /\ SavingIsUnderway' /\ Worded'
      /\ seed' \in Seeds /\ mode' = next /\ orphan' \in BOOLEAN
  BY <1>1, <1>2, OverlayClosed DEF IInv
<1>4. Numbered' /\ Listed'
  BY <1>1, NumberedKept, ListedKept DEF IInv, Reads
<1>5. /\ Prompted' /\ hasty' \in BOOLEAN
      /\ deletion' \in [named : Rows \cup {None}, row : Rows \cup {None}]
  <2>1. CASE AskDelete
    <3>1. /\ deletion' = [named |-> current, row |-> None] /\ current' = current
          /\ hasty' = (hasty \/ Pending(Changes)) /\ inflight' = inflight
      BY <1>1, <2>1 DEF AskDelete
    <3>2. ~hasty' => ~Pending(Changes \ {"delete", "deleted"})'
      BY <3>1 DEF Pending
    <3>3. deletion'.named = current /\ deletion'.row = None
      BY <3>1
    <3>4. deletion' \in [named : Rows \cup {None}, row : Rows \cup {None}] /\ hasty' \in BOOLEAN
      BY <3>1 DEF IInv, TypeOK, Pending
    <3>5. QED
      BY <3>1, <3>2, <3>3, <3>4 DEF Prompted
  <2>2. CASE AskCreate \/ Dismiss \/ OpenImport
    <3>1. mode' # "delete" /\ UNCHANGED <<deletion, hasty>>
      BY <2>2 DEF AskCreate, Dismiss, OpenImport, SetMode, history
    <3>2. QED
      BY <3>1, PromptedKept DEF IInv, TypeOK
  <2>3. QED
    BY <2>1, <2>2
<1>6. TypeOK'
  BY <1>1, <1>3, <1>5, Typed, TypesKept DEF IInv
<1>7. QED
  BY <1>1, <1>3, <1>4, <1>5, <1>6 DEF IInv

\* Outside the seed overlay there is no check under way, unless it is noted.
LEMMA UncheckedOutside == ASSUME Checked, mode # "seed" PROVE ~orphan => Checks = {}
BY DEF Checked

\* A new wallet's words are shown, or the reveal of the current one is opened.
LEMMA OpenStep == ASSUME IInv, ConfirmCreate \/ OpenReveal PROVE IInv'
<1>1. /\ UNCHANGED <<store, inserted, list, cursor, current, preferred, default, inflight,
                     deletion, proof, hasty, stale>>
      /\ mode # "seed"
  BY DEF ConfirmCreate, OpenReveal, database, screen, settings, history
<1>2. Numbered' /\ Listed'
  BY <1>1, NumberedKept, ListedKept DEF IInv, Reads
<1>3. CASE SetMode("normal")
  <2>1. /\ Checked' /\ Quizzed' /\ SavingIsUnderway' /\ Worded'
        /\ seed' \in Seeds /\ mode' = "normal" /\ orphan' \in BOOLEAN
    BY <1>1, <1>3, OverlayClosed DEF IInv, Modes
  <2>2. Prompted'
    BY <1>1, <2>1, PromptedKept DEF IInv
  <2>3. TypeOK'
    BY <1>1, <2>1, Typed, TypesKept DEF IInv, Modes
  <2>4. QED
    BY <1>1, <1>2, <2>1, <2>2, <2>3 DEF IInv
<1>4. ASSUME NEW overlay, OpenOverlay(overlay), overlay \in Seeds,
             overlay.asked = 0, overlay.proved = 0,
             overlay.backup => overlay.step = "show" /\ overlay.phrase \in Phrases,
             ~overlay.backup => overlay.step = "password" /\ overlay.address \in Phrases
      PROVE  IInv'
  <2>1. mode' = "seed" /\ seed' = overlay /\ orphan' = orphan
    BY <1>4 DEF OpenOverlay
  <2>2. Checks' = Checks /\ (~orphan => Checks = {})
    BY <1>1, UncheckedOutside DEF IInv, Checks
  <2>3. Checked'
    BY <1>4, <2>1, <2>2 DEF Checked, RevealIsOwn
  <2>4. Quizzed'
    BY <1>1, <1>4, <2>1 DEF IInv, Quizzed
  <2>5. SavingIsUnderway' /\ Prompted' /\ Worded'
    BY <1>1, <1>4, <2>1, PromptedKept DEF IInv, SavingIsUnderway, Worded
  <2>6. TypeOK'
    BY <1>1, <1>4, <2>1, Typed, TypesKept DEF IInv, Modes
  <2>7. QED
    BY <1>1, <1>2, <2>3, <2>4, <2>5, <2>6 DEF IInv
<1>5. ASSUME NEW p \in Phrases,
             OpenOverlay([NoOverlay EXCEPT !.backup = TRUE, !.phrase = p, !.step = "show"])
      PROVE  IInv'
  <2>1. PICK o : o = NoOverlay
    OBVIOUS
  <2>2. o \in Seeds /\ o.asked = 0 /\ o.proved = 0
    BY <2>1, NoOverlayType
  <2> DEFINE overlay == [o EXCEPT !.backup = TRUE, !.phrase = p, !.step = "show"]
  <2>3. /\ overlay \in Seeds /\ overlay.asked = 0 /\ overlay.proved = 0
        /\ overlay.backup /\ overlay.step = "show" /\ overlay.phrase = p
    BY <2>2 DEF Seeds
  <2>4. OpenOverlay(overlay)
    BY <1>5, <2>1
  <2> HIDE DEF overlay
  <2>5. QED
    BY <1>4, <2>3, <2>4
<1>6. ASSUME current # None, OpenOverlay([NoOverlay EXCEPT !.address = current.phrase])
      PROVE  IInv'
  <2>1. current.phrase \in Phrases
    BY <1>6 DEF IInv, TypeOK, Rows
  <2>2. PICK o : o = NoOverlay
    OBVIOUS
  <2>3. o \in Seeds /\ o.asked = 0 /\ o.proved = 0 /\ o.step = "password" /\ ~o.backup
    BY <2>2, NoOverlayType
  <2> DEFINE overlay == [o EXCEPT !.address = current.phrase]
  <2>4. /\ overlay \in Seeds /\ overlay.asked = 0 /\ overlay.proved = 0
        /\ ~overlay.backup /\ overlay.step = "password"
        /\ overlay.address = current.phrase
    BY <2>1, <2>3 DEF Seeds
  <2>5. OpenOverlay(overlay)
    BY <1>6, <2>2
  <2> HIDE DEF overlay
  <2>6. QED
    BY <1>4, <2>1, <2>4, <2>5
<1>7. QED
  BY <1>3, <1>5, <1>6 DEF ConfirmCreate, OpenReveal

\* The quiz begins, or is asked for a word it does not have.
LEMMA QuizStep == ASSUME IInv, StartQuiz \/ AnswerPastEnd PROVE IInv'
<1>1. /\ UNCHANGED <<store, inserted, list, cursor, current, preferred, default, inflight,
                     deletion, proof, hasty, stale>>
      /\ mode = "seed"
  BY DEF StartQuiz, AnswerPastEnd, database, screen, settings, history
<1>2. Numbered' /\ Listed' /\ Checks' = Checks
  BY <1>1, NumberedKept, ListedKept DEF IInv, Reads, Checks
<1>3. CASE StartQuiz
  <2>1. /\ UNCHANGED <<mode, orphan>> /\ seed \in Seeds
        /\ seed.step = "show" /\ seed.backup /\ seed' = [seed EXCEPT !.step = "quiz"]
    BY <1>3 DEF StartQuiz, IInv, TypeOK, Seeds
  <2>2. /\ seed' \in Seeds /\ seed'.step = "quiz" /\ seed'.asked = seed.asked
        /\ seed'.proved = seed.proved /\ seed'.backup = seed.backup
        /\ seed'.phrase = seed.phrase
    BY <2>1 DEF Seeds
  <2>3. Checked'
    BY <1>1, <1>2, <2>1, <2>2 DEF IInv, Checked, RevealIsOwn
  <2>4. Quizzed'
    BY <1>1, <2>1, <2>2 DEF IInv, Quizzed
  <2>5. SavingIsUnderway' /\ Prompted' /\ Worded'
    BY <1>1, <2>1, <2>2, PromptedKept DEF IInv, SavingIsUnderway, Worded
  <2>6. TypeOK'
    BY <1>1, <2>1, <2>2, Typed, TypesKept DEF IInv
  <2>7. QED
    BY <1>1, <1>2, <2>3, <2>4, <2>5, <2>6 DEF IInv
<1>4. CASE AnswerPastEnd
  <2>1. mode' = "panic" /\ seed' = NoOverlay /\ orphan
    BY <1>4 DEF AnswerPastEnd, SetMode, IInv, Quizzed
  <2>2. orphan' = TRUE
    BY <1>4, <2>1 DEF AnswerPastEnd, SetMode, IInv, TypeOK
  <2>3. seed' \in Seeds /\ seed'.step = "password" /\ ~seed'.backup /\ seed'.asked = 0 /\ seed'.proved = 0
    BY <2>1, NoOverlayType
  <2>4. Checked' /\ Quizzed' /\ SavingIsUnderway' /\ Prompted' /\ Worded'
    BY <1>1, <2>1, <2>2, <2>3, PromptedKept, WordedKept DEF IInv, Checked, Quizzed, SavingIsUnderway
  <2>5. TypeOK'
    BY <1>1, <2>1, <2>2, <2>3, Typed, TypesKept DEF IInv, Modes
  <2>6. QED
    BY <1>1, <1>2, <2>4, <2>5 DEF IInv
<1>5. QED
  BY <1>3, <1>4

\* Messages put on their way that concern neither the overlay nor the reads of
\* the store.
LEMMA EmitKeeps ==
  ASSUME IInv, NEW n \in Messages, Emit(n),
         n.type \in {"select", "delete", "import", "close", "showWallet"}, n.rows = {},
         n.type = "select" => n.row \in Rows, n.type = "import" => n.phrase \in Phrases,
         UNCHANGED <<store, inserted, list, mode, seed, orphan, proof, stale>>
  PROVE  /\ Numbered' /\ Worded' /\ Checked' /\ Quizzed' /\ SavingIsUnderway' /\ Listed'
         /\ IsABag(inflight') /\ BagToSet(inflight') = BagToSet(inflight) \cup {n}
<1>1. inflight' = inflight (+) One(n)
  BY DEF Emit
<1>2. /\ IsABag(inflight') /\ BagToSet(inflight') = BagToSet(inflight) \cup {n}
      /\ \A e \in BagToSet(inflight) \ {n} : inflight'[e] = inflight[e]
  BY <1>1, PutOne DEF IInv
<1>3. Numbered' /\ Worded'
  BY <1>2, NumberedKept, WordedKept DEF IInv, Distinct
<1>4. /\ Checks' = Checks /\ \A m \in Checks : inflight'[m] = inflight[m]
      /\ Reads' = Reads /\ \A m \in Reads : inflight'[m] = inflight[m]
  BY <1>2 DEF Checks, Reads
<1>5. Pending({"save", "created"}) => Pending({"save", "created"})'
  BY <1>2 DEF Pending
<1>6. Checked' /\ Quizzed' /\ SavingIsUnderway'
  BY <1>2, <1>4, <1>5, OverlayKept DEF IInv
<1>7. Listed'
  BY <1>2, <1>4, ListedKept DEF IInv
<1>8. QED
  BY <1>2, <1>3, <1>6, <1>7

\* The cursor moves; the wallet under it is selected by a message.
LEMMA MoveStep == ASSUME IInv, MoveCursor PROVE IInv'
<1> DEFINE row == Item(list, cursor')
           n == Message("select", None, row, {}, 0)
<1>1. /\ UNCHANGED <<store, inserted, list, current, preferred, default, mode, seed, orphan,
                     deletion, proof, hasty, stale>>
      /\ mode = "normal" /\ Emit(n)
  BY DEF MoveCursor, database, settings, ui, history
<1>2. row \in Rows
  BY ItemOfList DEF MoveCursor, IInv, TypeOK
<1>3. cursor' \in 0..MaxRows
  <2>1. Cardinality(list) \in 0..MaxRows
    BY ListSize DEF IInv, TypeOK, Numbered
  <2>2. cursor' \in 0..Cardinality(list)
    BY DEF MoveCursor
  <2>3. QED
    BY <2>1, <2>2, ScreenAssumption
<1> HIDE DEF row
<1>4. n \in Messages /\ n.type = "select" /\ n.row \in Rows /\ n.rows = {}
  BY <1>2 DEF Message, Messages, Changes
<1> HIDE DEF n
<1>5. /\ Numbered' /\ Worded' /\ Checked' /\ Quizzed' /\ SavingIsUnderway' /\ Listed'
      /\ IsABag(inflight') /\ BagToSet(inflight') = BagToSet(inflight) \cup {n}
  BY <1>1, <1>4, EmitKeeps
<1>6. Prompted'
  BY <1>1, PromptedKept DEF IInv
<1>7. TypeOK'
  BY <1>1, <1>3, <1>4, <1>5, Typed, TypesKept DEF IInv
<1>8. QED
  BY <1>5, <1>6, <1>7 DEF IInv

\* y on the prompt sends the current wallet to be deleted.
LEMMA DeleteStep == ASSUME IInv, ConfirmDelete PROVE IInv'
<1> DEFINE n == Message("delete", None, current, {}, 0)
<1>1. /\ UNCHANGED <<store, inserted, list, cursor, current, preferred, default, mode, seed,
                     orphan, proof, hasty, stale>>
      /\ mode = "delete" /\ Emit(n) /\ deletion' = [deletion EXCEPT !.row = current]
  BY DEF ConfirmDelete, database, screen, settings, ui
<1>2. n \in Messages /\ n.type = "delete" /\ n.rows = {}
  BY DEF Message, Messages, Changes, IInv, TypeOK
<1> HIDE DEF n
<1>3. /\ Numbered' /\ Worded' /\ Checked' /\ Quizzed' /\ SavingIsUnderway' /\ Listed'
      /\ IsABag(inflight') /\ BagToSet(inflight') = BagToSet(inflight) \cup {n}
  BY <1>1, <1>2, EmitKeeps
<1>4. /\ deletion' \in [named : Rows \cup {None}, row : Rows \cup {None}]
      /\ deletion'.row = current /\ deletion'.named = deletion.named
  BY <1>1 DEF IInv, TypeOK
<1>5. Prompted'
  BY <1>1, <1>2, <1>3, <1>4 DEF IInv, Prompted, Pending
<1>6. TypeOK'
  BY <1>1, <1>2, <1>3, <1>4, Typed, TypesKept DEF IInv
<1>7. QED
  BY <1>3, <1>5, <1>6 DEF IInv

\* A phrase to import, the end of an overlay, and the settings tab's key.
LEMMA AskStep == ASSUME IInv, SubmitImport \/ LeaveOverlay \/ ShowWallet PROVE IInv'
<1>1. /\ UNCHANGED <<store, inserted, list, cursor, current, preferred, default, mode, seed,
                     orphan, deletion, proof, hasty, stale>>
      /\ mode \in {"import", "seed", "normal"}
  BY DEF SubmitImport, LeaveOverlay, ShowWallet, database, screen, settings, ui, history
<1>2. PICK n \in Messages : /\ Emit(n) /\ n.rows = {}
                            /\ n.type = "import" => n.phrase \in Phrases
                            /\ n.type \in {"import", "close", "showWallet"}
  <2>1. CASE SubmitImport
    <3>1. PICK p \in Phrases : Emit(Message("import", p, None, {}, 0))
      BY <2>1 DEF SubmitImport
    <3>2. /\ Message("import", p, None, {}, 0) \in Messages
          /\ Message("import", p, None, {}, 0).type = "import"
          /\ Message("import", p, None, {}, 0).rows = {}
          /\ Message("import", p, None, {}, 0).phrase = p
      BY DEF Message, Messages, Changes
    <3>3. QED
      BY <3>1, <3>2
  <2>2. CASE LeaveOverlay
    BY <2>2, PlainType DEF LeaveOverlay
  <2>3. CASE ShowWallet
    BY <2>3, PlainType DEF ShowWallet
  <2>4. QED
    BY <2>1, <2>2, <2>3
<1>3. /\ Numbered' /\ Worded' /\ Checked' /\ Quizzed' /\ SavingIsUnderway' /\ Listed'
      /\ IsABag(inflight') /\ BagToSet(inflight') = BagToSet(inflight) \cup {n}
  BY <1>1, <1>2, EmitKeeps
<1>4. Prompted'
  BY <1>1, PromptedKept DEF IInv
<1>5. TypeOK'
  BY <1>1, <1>2, <1>3, Typed, TypesKept DEF IInv
<1>6. QED
  BY <1>3, <1>4, <1>5 DEF IInv

\* The password of the overlay is checked, once at a time.
LEMMA PasswordStep == ASSUME IInv, SubmitPassword PROVE IInv'
<1> DEFINE n == Message("revealed", seed.address, None, {}, 0)
<1>1. /\ UNCHANGED <<store, inserted, list, cursor, current, preferred, default, mode,
                     orphan, deletion, proof, hasty, stale>>
      /\ mode = "seed" /\ seed.step = "password" /\ ~seed.busy /\ seed \in Seeds
      /\ seed' = [seed EXCEPT !.busy = TRUE] /\ Emit(n)
  BY DEF SubmitPassword, database, screen, settings, history, IInv, TypeOK, Seeds
<1>2. /\ n \in Messages /\ n.type = "revealed" /\ n.rows = {} /\ n.phrase = seed.address
  <2>1. seed.address \in Phrases \cup {None}
    BY <1>1 DEF Seeds
  <2>2. QED
    BY <2>1 DEF Message, Messages
<1>3. inflight' = inflight (+) One(n)
  BY <1>1 DEF Emit
<1> HIDE DEF n
<1>4. /\ IsABag(inflight') /\ BagToSet(inflight') = BagToSet(inflight) \cup {n}
      /\ \A e \in BagToSet(inflight) \ {n} : inflight'[e] = inflight[e]
      /\ n \notin BagToSet(inflight) => inflight'[n] = 1
  BY <1>3, PutOne DEF IInv
<1>5. /\ seed' \in Seeds /\ seed'.busy /\ seed'.step = "password" /\ seed'.address = seed.address
      /\ seed'.backup = seed.backup /\ seed'.asked = seed.asked /\ seed'.proved = seed.proved
  BY <1>1 DEF Seeds
<1>6. ~orphan => Checks = {}
  BY <1>1 DEF IInv, Checked
<1>7. ~orphan => Checks' = {n} /\ inflight'[n] = 1
  BY <1>2, <1>4, <1>6 DEF Checks
<1>8. Checked'
  BY <1>1, <1>2, <1>5, <1>7 DEF IInv, Checked, RevealIsOwn
<1>9. Quizzed'
  BY <1>1, <1>2, <1>4, <1>5 DEF IInv, Quizzed
<1>10. SavingIsUnderway' /\ Prompted' /\ Worded'
  BY <1>1, <1>2, <1>4, <1>5, PromptedKept DEF IInv, SavingIsUnderway, Worded
<1>11. Numbered'
  BY <1>1, <1>2, <1>4, NumberedKept DEF IInv, Distinct
<1>12. Listed'
  <2>1. Reads' = Reads /\ \A m \in Reads : inflight'[m] = inflight[m]
    BY <1>2, <1>4 DEF Reads
  <2>2. QED
    BY <1>1, <1>4, <2>1, ListedKept DEF IInv
<1>13. TypeOK'
  BY <1>1, <1>2, <1>4, <1>5, Typed, TypesKept DEF IInv
<1>14. QED
  BY <1>4, <1>8, <1>9, <1>10, <1>11, <1>12, <1>13 DEF IInv

\* A word is right; after the second the phrase goes to be saved.
LEMMA WordStep == ASSUME IInv, AnswerQuiz PROVE IInv'
<1> DEFINE n == Message("save", seed.phrase, None, {}, seed'.proved)
<1>1. /\ UNCHANGED <<store, inserted, list, cursor, current, preferred, default, mode,
                     orphan, deletion, proof, hasty, stale>>
      /\ mode = "seed" /\ seed.step = "quiz" /\ seed.asked < 2 /\ seed \in Seeds
      /\ seed' = [seed EXCEPT !.asked = seed.asked + 1, !.proved = seed.proved + 1,
                              !.step = IF seed.asked = 1 THEN "done" ELSE "quiz"]
  BY DEF AnswerQuiz, database, screen, settings, history, IInv, TypeOK, Seeds
<1>2. /\ seed.asked \in {0, 1} /\ seed.proved \in 0..seed.asked
      /\ ~orphan => seed.proved = seed.asked
  BY <1>1 DEF IInv, Quizzed, Seeds
<1>3. /\ seed' \in Seeds /\ seed'.step = IF seed.asked = 1 THEN "done" ELSE "quiz"
      /\ seed'.asked = seed.asked + 1 /\ seed'.proved = seed.proved + 1
      /\ seed'.backup = seed.backup /\ seed'.phrase = seed.phrase
  <2>1. /\ seed.asked + 1 \in 0..2 /\ seed.proved + 1 \in 0..2
        /\ (IF seed.asked = 1 THEN "done" ELSE "quiz") \in {"password", "show", "quiz", "done"}
    BY <1>2
  <2>2. QED
    BY <1>1, <2>1 DEF Seeds
<1>4. n \in Messages /\ n.type = "save" /\ n.rows = {} /\ n.n = seed.proved + 1
      /\ n.phrase = seed.phrase
  <2>1. seed.phrase \in Phrases \cup {None} /\ seed'.proved \in 0..2
    BY <1>1, <1>3 DEF Seeds
  <2>2. QED
    BY <1>3, <2>1 DEF Message, Messages, Changes
<1>5. IF seed.asked = 1 THEN inflight' = inflight (+) One(n) ELSE inflight' = inflight
  BY DEF AnswerQuiz, Emit
<1> HIDE DEF n
<1>6. /\ IsABag(inflight') /\ BagToSet(inflight) \subseteq BagToSet(inflight')
      /\ BagToSet(inflight') \subseteq BagToSet(inflight) \cup {n}
      /\ \A e \in BagToSet(inflight) \ {n} : inflight'[e] = inflight[e]
      /\ seed.asked = 1 => n \in BagToSet(inflight')
      /\ seed.asked = 0 => inflight' = inflight
  BY <1>2, <1>5, PutOne DEF IInv
<1>7. /\ Checks' = Checks /\ Reads' = Reads
      /\ \A m \in Reads : inflight'[m] = inflight[m]
  BY <1>4, <1>6 DEF Checks, Reads
<1>8. Checked'
  BY <1>1, <1>3, <1>7 DEF IInv, Checked, RevealIsOwn
<1>9. Quizzed'
  BY <1>1, <1>2, <1>3, <1>4, <1>6 DEF IInv, Quizzed
<1>10. SavingIsUnderway'
  BY <1>2, <1>3, <1>4, <1>6 DEF SavingIsUnderway, Pending
<1>11. Worded'
  BY <1>1, <1>3, <1>4, <1>6 DEF IInv, Worded
<1>12. Numbered' /\ Prompted' /\ Listed'
  BY <1>1, <1>4, <1>6, <1>7, NumberedKept, PromptedKept, ListedKept DEF IInv, Distinct
<1>13. TypeOK'
  BY <1>1, <1>3, <1>4, <1>6, Typed, TypesKept DEF IInv
<1>14. QED
  BY <1>6, <1>8, <1>9, <1>10, <1>11, <1>12, <1>13 DEF IInv
----------------------------------------------------------------------------
\* A command that runs answers with its own result, and touches neither the
\* overlay nor the prompt.
LEMMA RunKeeps ==
  ASSUME IInv, NEW m \in BagToSet(inflight), NEW n \in Messages, Answer(m, n),
         \/ m.type = "refresh" /\ n.type = "refreshed"
         \/ m.type = "delete" /\ n.type = "deleted"
         \/ m.type = "import" /\ n.type = "imported"
         \/ m.type = "save" /\ n.type = "created",
         UNCHANGED <<current, mode, seed, orphan, deletion, hasty>>,
         proof' = proof \/ (m.type = "save" /\ proof' = m.n)
  PROVE  /\ Worded' /\ Prompted' /\ Checked' /\ Quizzed' /\ SavingIsUnderway'
         /\ IsABag(inflight') /\ n \in BagToSet(inflight')
         /\ BagToSet(inflight) \ {m} \subseteq BagToSet(inflight')
         /\ BagToSet(inflight') \subseteq BagToSet(inflight) \cup {n}
         /\ inflight[m] = 1 => m \notin BagToSet(inflight')
         /\ \A e \in BagToSet(inflight) \ {m, n} : inflight'[e] = inflight[e]
         /\ n \notin BagToSet(inflight) => inflight'[n] = 1
<1>1. /\ IsABag(inflight') /\ n \in BagToSet(inflight')
      /\ BagToSet(inflight) \ {m} \subseteq BagToSet(inflight')
      /\ BagToSet(inflight') \subseteq BagToSet(inflight) \cup {n}
      /\ inflight[m] = 1 => m \notin BagToSet(inflight')
      /\ \A e \in BagToSet(inflight) \ {m, n} : inflight'[e] = inflight[e]
      /\ n \notin BagToSet(inflight) => inflight'[n] = 1
  BY AnswerOne DEF IInv
<1>2. Checks' = Checks /\ \A e \in Checks : inflight'[e] = inflight[e]
  BY <1>1 DEF Checks
<1>3. Checked'
  BY <1>2 DEF IInv, Checked, RevealIsOwn
<1>4. Quizzed'
  BY <1>1 DEF IInv, Quizzed
<1>5. SavingIsUnderway'
  BY <1>1 DEF IInv, SavingIsUnderway, Pending
<1>6. Prompted'
  <2>1. ~hasty /\ mode = "delete" => m.type = "delete"
    BY DEF IInv, Prompted, Pending, Changes
  <2>2. ~hasty /\ mode = "delete" => ~Pending(Changes \ {"delete", "deleted"})'
    BY <1>1, <2>1 DEF IInv, Prompted, Pending
  <2>3. QED
    BY <2>2 DEF IInv, Prompted
<1>7. Worded'
  BY <1>1, WordedKept DEF IInv
<1>8. QED
  BY <1>1, <1>3, <1>4, <1>5, <1>6, <1>7

\* The store is read, or cannot be.
LEMMA RefreshStep ==
  ASSUME IInv, NEW m \in BagToSet(inflight), RunRefresh(m)
  PROVE  IInv'
<1> DEFINE n == Message("refreshed", None, None, store, 0)
<1>1. /\ UNCHANGED <<store, inserted, list, cursor, current, preferred, default, mode, seed,
                     orphan, deletion, proof, hasty>>
      /\ m.type = "refresh" /\ stale' \in BOOLEAN
  BY DEF RunRefresh, database, screen, settings, ui, history, IInv, TypeOK
<1>2. n \in Messages /\ n.type = "refreshed" /\ n.rows = store
  BY DEF Message, Messages, Changes, IInv, TypeOK
<1>3. (Answer(m, n) /\ stale' = stale) \/ (Consume(m) /\ stale' = TRUE)
  BY DEF RunRefresh
<1> HIDE DEF n
<1>4. CASE Answer(m, n) /\ stale' = stale
  <2>1. /\ Worded' /\ Prompted' /\ Checked' /\ Quizzed' /\ SavingIsUnderway'
        /\ IsABag(inflight') /\ n \in BagToSet(inflight')
        /\ BagToSet(inflight) \ {m} \subseteq BagToSet(inflight')
        /\ BagToSet(inflight') \subseteq BagToSet(inflight) \cup {n}
        /\ inflight[m] = 1 => m \notin BagToSet(inflight')
        /\ n \notin BagToSet(inflight) => inflight'[n] = 1
    BY <1>1, <1>2, <1>4, RunKeeps
  <2>2. Numbered'
    BY <1>1, <1>2, <2>1, NumberedKept DEF IInv, Numbered
  <2>3. Listed'
    <3>1. CASE stale
      BY <1>4, <3>1 DEF Listed
    <3>2. CASE ~stale
      <4>1. m \in Reads /\ Reads = {m} /\ inflight[m] = 1
        BY <1>1, <3>2 DEF Reads, IInv, Listed
      <4>2. Reads' = {n} /\ inflight'[n] = 1
        BY <1>1, <1>2, <2>1, <4>1 DEF Reads
      <4>3. QED
        BY <1>1, <1>2, <4>2 DEF Listed
    <3>3. QED
      BY <3>1, <3>2
  <2>4. TypeOK'
    BY <1>1, <1>2, <2>1, Typed, TypesKept DEF IInv
  <2>5. QED
    BY <2>1, <2>2, <2>3, <2>4 DEF IInv
<1>5. CASE Consume(m) /\ stale' = TRUE
  <2>1. /\ IsABag(inflight') /\ BagToSet(inflight') \subseteq BagToSet(inflight)
        /\ BagToSet(inflight) \ {m} \subseteq BagToSet(inflight')
        /\ \A e \in BagToSet(inflight) \ {m} : inflight'[e] = inflight[e]
    BY <1>5, TakeOne DEF IInv
  <2>2. Checks' = Checks /\ \A e \in Checks : inflight'[e] = inflight[e]
    BY <1>1, <2>1 DEF Checks
  <2>3. Pending({"save", "created"}) => Pending({"save", "created"})'
    BY <1>1, <2>1 DEF Pending
  <2>4. Checked' /\ Quizzed' /\ SavingIsUnderway'
    BY <1>1, <2>1, <2>2, <2>3, OverlayKept DEF IInv
  <2>5. Numbered' /\ Worded' /\ Prompted' /\ Listed'
    BY <1>1, <1>5, <2>1, NumberedKept, WordedKept, PromptedKept DEF IInv, Listed
  <2>6. TypeOK'
    BY <1>1, <2>1, Typed, TypesKept DEF IInv
  <2>7. QED
    BY <2>1, <2>4, <2>5, <2>6 DEF IInv
<1>6. QED
  BY <1>3, <1>4, <1>5

\* The store changes, and a result that says so is on its way; or it does not.
LEMMA StoreStep ==
  ASSUME IInv, NEW m \in BagToSet(inflight), RunDelete(m) \/ RunImport(m) \/ RunSave(m)
  PROVE  IInv'
<1>1. /\ UNCHANGED <<list, cursor, current, preferred, default, mode, seed, orphan, deletion,
                     hasty, stale>>
      /\ m.type \in {"delete", "import", "save"} /\ m \in Messages
      /\ proof' = proof \/ (m.type = "save" /\ proof' = m.n)
  BY DEF RunDelete, RunImport, RunSave, screen, settings, ui, history, IInv, TypeOK
<1> DEFINE done == IF m.type = "delete" THEN "deleted"
                   ELSE IF m.type = "import" THEN "imported" ELSE "created"
<1>2. PICK n \in Messages :
        /\ Answer(m, n) /\ n.type = done /\ n.rows = {}
        /\ n.n = 1 \/ (n.n = 0 /\ UNCHANGED <<store, inserted>>)
  <2>1. /\ Plain(done) \in Messages /\ Plain(done).type = done /\ Plain(done).rows = {}
        /\ Plain(done).n = 0
    BY <1>1, PlainType DEF Changes
  <2>2. /\ Message(done, None, None, {}, 1) \in Messages
        /\ Message(done, None, None, {}, 1).type = done
        /\ Message(done, None, None, {}, 1).rows = {}
        /\ Message(done, None, None, {}, 1).n = 1
    BY <1>1 DEF Message, Messages, Changes
  <2>3. Answer(m, Message(done, None, None, {}, 1))
          \/ (Answer(m, Plain(done)) /\ UNCHANGED <<store, inserted>>)
    BY <1>1 DEF RunDelete, RunImport, RunSave, Insert, database
  <2> HIDE DEF done
  <2>4. QED
    BY <2>1, <2>2, <2>3
<1>3. n.type \in {"deleted", "imported", "created"}
  BY <1>2
<1>4. /\ Worded' /\ Prompted' /\ Checked' /\ Quizzed' /\ SavingIsUnderway'
      /\ IsABag(inflight') /\ n \in BagToSet(inflight')
      /\ BagToSet(inflight) \ {m} \subseteq BagToSet(inflight')
      /\ BagToSet(inflight') \subseteq BagToSet(inflight) \cup {n}
      /\ \A e \in BagToSet(inflight) \ {m, n} : inflight'[e] = inflight[e]
  BY <1>1, <1>2, RunKeeps
<1>5. /\ store' \subseteq Rows /\ inserted' \in 0..MaxRows
      /\ Distinct(store)' /\ \A r \in store' : r.id <= inserted'
  <2>1. CASE UNCHANGED <<store, inserted>>
    BY <2>1 DEF IInv, TypeOK, Numbered, Distinct
  <2>2. CASE RunDelete(m)
    BY <2>2 DEF RunDelete, IInv, TypeOK, Numbered, Distinct
  <2>3. CASE /\ m.type \in {"import", "save"} /\ inserted < MaxRows
             /\ inserted' = inserted + 1
             /\ store' = store \cup {[id |-> inserted', phrase |-> m.phrase]}
             /\ m.phrase \in Phrases
    <3>1. inserted' \in 1..MaxRows /\ inserted \in 0..MaxRows
      BY <2>3, ScreenAssumption DEF IInv, TypeOK
    <3> DEFINE new == [id |-> inserted', phrase |-> m.phrase]
    <3>2. new \in Rows /\ new.id = inserted'
      BY <2>3, <3>1 DEF Rows
    <3> HIDE DEF new
    <3>3. store' = store \cup {new}
      BY <2>3 DEF new
    <3>4. \A r \in store : r.id \in 1..MaxRows /\ r.id < inserted'
      BY <2>3, <3>1, ScreenAssumption DEF IInv, TypeOK, Rows, Numbered
    <3>5. \A r \in store' : r.id <= inserted'
      BY <3>1, <3>2, <3>3, <3>4, ScreenAssumption
    <3>6. Distinct(store)'
      BY <3>1, <3>2, <3>3, <3>4, ScreenAssumption DEF IInv, Numbered, Distinct
    <3>7. QED
      BY <3>1, <3>2, <3>3, <3>5, <3>6, ScreenAssumption DEF IInv, TypeOK
  <2>4. QED
    BY <1>1, <2>1, <2>2, <2>3 DEF RunImport, RunSave, Insert, database, IInv, Worded
<1>6. Numbered'
  BY <1>1, <1>2, <1>3, <1>4, <1>5 DEF IInv, Numbered, Distinct
<1>7. Listed'
  <2>1. Reads' = Reads /\ \A e \in Reads : inflight'[e] = inflight[e]
    BY <1>1, <1>3, <1>4 DEF Reads
  <2>2. CASE n.n = 1
    BY <1>1, <1>3, <1>4, <2>1, <2>2 DEF IInv, Listed
  <2>3. CASE UNCHANGED <<store, inserted>>
    BY <1>1, <1>3, <1>4, <2>1, <2>3, ListedKept DEF IInv
  <2>4. QED
    BY <1>2, <2>2, <2>3
<1>8. TypeOK'
  <2>1. proof' \in 0..2
    BY <1>1, Typed DEF IInv, Messages
  <2>2. QED
    BY <1>1, <1>4, <1>5, <2>1, Typed, TypesKept DEF IInv
<1>9. QED
  BY <1>4, <1>6, <1>7, <1>8 DEF IInv
----------------------------------------------------------------------------
\* A result or a message is taken, and is neither a read of the store nor a
\* result that a read follows.
LEMMA ConsumeKeeps ==
  ASSUME IInv, NEW m \in BagToSet(inflight), Consume(m), m \notin Reads,
         ~(m.type \in {"created", "imported", "deleted"} /\ m.n = 1),
         UNCHANGED <<store, inserted, list, stale>>
  PROVE  /\ Numbered' /\ Listed' /\ IsABag(inflight')
         /\ BagToSet(inflight') \subseteq BagToSet(inflight)
         /\ BagToSet(inflight) \ {m} \subseteq BagToSet(inflight')
         /\ inflight[m] = 1 => m \notin BagToSet(inflight')
         /\ \A e \in BagToSet(inflight) \ {m} : inflight'[e] = inflight[e]
<1>1. /\ IsABag(inflight') /\ BagToSet(inflight') \subseteq BagToSet(inflight)
      /\ BagToSet(inflight) \ {m} \subseteq BagToSet(inflight')
      /\ inflight[m] = 1 => m \notin BagToSet(inflight')
      /\ \A e \in BagToSet(inflight) \ {m} : inflight'[e] = inflight[e]
  BY TakeOne DEF IInv
<1>2. Reads' = Reads /\ \A e \in Reads : inflight'[e] = inflight[e]
  BY <1>1 DEF Reads
<1>3. Numbered' /\ Listed'
  BY <1>1, <1>2, NumberedKept, ListedKept DEF IInv
<1>4. QED
  BY <1>1, <1>3

\* The list becomes what was read.
LEMMA RefreshedStep ==
  ASSUME IInv, NEW m \in BagToSet(inflight), OnWalletsRefreshed(m)
  PROVE  IInv'
<1>1. /\ UNCHANGED <<store, inserted, preferred, default, mode, seed, orphan, deletion, proof,
                     hasty, stale>>
      /\ m.type = "refreshed" /\ m \in Messages /\ list' = m.rows /\ Consume(m)
      /\ cursor' = Find(m.rows, preferred, cursor)
      /\ current' \in {Item(m.rows, cursor'), Item(m.rows, 0)}
  BY DEF OnWalletsRefreshed, database, settings, ui, history, IInv, TypeOK
<1>2. /\ m.rows \subseteq Rows /\ Distinct(m.rows)
  BY <1>1 DEF Messages, IInv, Numbered
<1>3. cursor' \in 0..MaxRows
  BY <1>1, <1>2, FindInRange DEF IInv, TypeOK
<1>4. current' \in Rows \cup {None}
  BY <1>1, <1>2, ItemOfList
<1>5. /\ IsABag(inflight') /\ BagToSet(inflight') \subseteq BagToSet(inflight)
      /\ BagToSet(inflight) \ {m} \subseteq BagToSet(inflight')
      /\ inflight[m] = 1 => m \notin BagToSet(inflight')
      /\ \A e \in BagToSet(inflight) \ {m} : inflight'[e] = inflight[e]
  BY <1>1, TakeOne DEF IInv
<1>6. Checked' /\ Quizzed' /\ SavingIsUnderway'
  <2>1. Checks' = Checks /\ \A e \in Checks : inflight'[e] = inflight[e]
    BY <1>1, <1>5 DEF Checks
  <2>2. Pending({"save", "created"}) => Pending({"save", "created"})'
    BY <1>1, <1>5 DEF Pending
  <2>3. QED
    BY <1>1, <1>5, <2>1, <2>2, OverlayKept DEF IInv
<1>7. Worded'
  BY <1>1, <1>5, WordedKept DEF IInv
<1>8. Numbered'
  BY <1>1, <1>2, <1>5 DEF IInv, Numbered, Distinct
<1>9. Prompted'
  <2>1. ~hasty => mode # "delete"
    BY <1>1 DEF IInv, Prompted, Pending, Changes
  <2>2. QED
    BY <1>1, <2>1 DEF IInv, Prompted
<1>10. Listed'
  <2>1. CASE stale
    BY <1>1, <2>1 DEF Listed
  <2>2. CASE ~stale
    <3>1. Reads = {m} /\ inflight[m] = 1 /\ ~Pending({"refresh"})
      BY <1>1, <2>2 DEF IInv, Listed, Reads, Pending
    <3>2. Reads' = {}
      BY <1>5, <3>1 DEF Reads
    <3>3. CASE \E e \in BagToSet(inflight) :
                 e.type \in {"created", "imported", "deleted"} /\ e.n = 1
      BY <1>1, <1>5, <3>2, <3>3 DEF Listed
    <3>4. CASE \A e \in Reads : e.rows = store
      BY <1>1, <3>1, <3>2, <3>4 DEF Listed
    <3>5. QED
      BY <2>2, <3>1, <3>3, <3>4 DEF IInv, Listed
  <2>3. QED
    BY <2>1, <2>2
<1>11. TypeOK'
  BY <1>1, <1>2, <1>3, <1>4, <1>5, Typed, TypesKept DEF IInv
<1>12. QED
  BY <1>5, <1>6, <1>7, <1>8, <1>9, <1>10, <1>11 DEF IInv

\* A result puts the screen back to normal; after a success the store is read.
LEMMA FinishedStep ==
  ASSUME IInv, NEW m \in BagToSet(inflight), OnFinished(m)
  PROVE  IInv'
<1>1. /\ UNCHANGED <<store, inserted, list, cursor, current, preferred, default, deletion,
                     proof, hasty>>
      /\ m.type \in {"created", "imported", "deleted"}
      /\ \/ m.n = 0 /\ m.type = "imported" /\ UNCHANGED <<mode, seed, orphan>>
         \/ SetMode("normal")
      /\ \/ m.n = 1 /\ Refresh(m)
         \/ m.n # 1 /\ Consume(m) /\ UNCHANGED stale
  BY DEF OnFinished, database, screen, settings, history, ui
<1>2. /\ IsABag(inflight')
      /\ \A e \in BagToSet(inflight') : e \in BagToSet(inflight) \/ e = Plain("refresh")
      /\ BagToSet(inflight) \ {m} \subseteq BagToSet(inflight')
      /\ \A e \in BagToSet(inflight) \ {m, Plain("refresh")} : inflight'[e] = inflight[e]
      /\ m.n # 1 => BagToSet(inflight') \subseteq BagToSet(inflight)
      /\ Numbered' /\ Listed' /\ stale' \in BOOLEAN
  <2> DEFINE n == Plain("refresh")
  <2>1. n \in Messages /\ n.type = "refresh" /\ n.rows = {}
    BY PlainType DEF Changes
  <2> HIDE DEF n
  <2>2. CASE m.n # 1 /\ Consume(m) /\ UNCHANGED stale
    <3>1. m \notin Reads
      BY <1>1 DEF Reads
    <3>2. QED
      BY <1>1, <2>2, <3>1, ConsumeKeeps, Typed DEF IInv
  <2>3. CASE m.n = 1 /\ Refresh(m)
    <3>1. Answer(m, n) /\ stale' = Pending({"refresh", "refreshed"})
      BY <2>3 DEF Refresh, n
    <3>2. n # m
      BY <1>1, <2>1
    <3>3. /\ IsABag(inflight') /\ n \in BagToSet(inflight')
          /\ BagToSet(inflight) \ {m} \subseteq BagToSet(inflight')
          /\ BagToSet(inflight') \subseteq BagToSet(inflight) \cup {n}
          /\ \A e \in BagToSet(inflight) \ {m, n} : inflight'[e] = inflight[e]
          /\ n \notin BagToSet(inflight) => inflight'[n] = 1
      BY <3>1, <3>2, AnswerOne DEF IInv
    <3>4. Numbered'
      BY <1>1, <2>1, <3>3, NumberedKept DEF IInv, Distinct
    <3>5. ~stale' => Reads = {}
      BY <3>1 DEF Reads, Pending
    <3>6. ~stale' => Reads' = {n} /\ inflight'[n] = 1
      BY <2>1, <3>3, <3>5 DEF Reads
    <3>7. Pending({"refresh"})'
      BY <2>1, <3>3 DEF Pending
    <3>8. Listed'
      BY <3>6, <3>7 DEF Listed
    <3>9. stale' \in BOOLEAN
      BY <3>1 DEF Pending
    <3>10. QED
      BY <2>3, <3>3, <3>4, <3>8, <3>9 DEF n
  <2>4. QED
    BY <1>1, <2>2, <2>3
<1>3. /\ Plain("refresh") \in Messages /\ Plain("refresh").type = "refresh"
  BY PlainType DEF Changes
<1>4. /\ Checked' /\ Quizzed' /\ SavingIsUnderway' /\ Worded' /\ Prompted'
      /\ seed' \in Seeds /\ mode' \in Modes /\ orphan' \in BOOLEAN
  <2>1. CASE m.n = 0 /\ m.type = "imported" /\ UNCHANGED <<mode, seed, orphan>>
    <3>1. BagToSet(inflight') \subseteq BagToSet(inflight)
      BY <1>2, <2>1
    <3>2. Checks' = Checks /\ \A e \in Checks : inflight'[e] = inflight[e]
      BY <1>2, <1>3, <2>1, <3>1 DEF Checks
    <3>3. Pending({"save", "created"}) => Pending({"save", "created"})'
      BY <1>2, <2>1 DEF Pending
    <3>4. Checked' /\ Quizzed' /\ SavingIsUnderway'
      BY <1>1, <2>1, <3>1, <3>2, <3>3, OverlayKept DEF IInv
    <3>5. Worded' /\ Prompted'
      BY <1>1, <2>1, <3>1, WordedKept, PromptedKept DEF IInv
    <3>6. QED
      BY <2>1, <3>4, <3>5, Typed DEF IInv
  <2>2. CASE SetMode("normal")
    <3>1. \A e \in BagToSet(inflight') :
            e \in BagToSet(inflight) \/ e.type \notin {"revealed", "save", "import"}
      BY <1>2, <1>3
    <3>2. /\ Checked' /\ Quizzed' /\ SavingIsUnderway' /\ Worded'
          /\ seed' \in Seeds /\ mode' = "normal" /\ orphan' \in BOOLEAN
      BY <1>1, <2>2, <3>1, OverlayClosed DEF IInv, Modes
    <3>3. Prompted'
      BY <1>1, <3>2, PromptedKept DEF IInv
    <3>4. QED
      BY <3>2, <3>3 DEF Modes
  <2>3. QED
    BY <1>1, <2>1, <2>2
<1>5. TypeOK'
  BY <1>1, <1>2, <1>3, <1>4, Typed, TypesKept DEF IInv
<1>6. QED
  BY <1>2, <1>4, <1>5 DEF IInv

\* An overlay closes, or the settings tab shows the wallet.
LEMMA CloseStep ==
  ASSUME IInv, NEW m \in BagToSet(inflight), OnClose(m) \/ OnShowWallet(m)
  PROVE  IInv'
<1>1. /\ UNCHANGED <<store, inserted, list, cursor, current, preferred, default, deletion,
                     proof, hasty, stale>>
      /\ m.type \in {"close", "showWallet"} /\ Consume(m)
      /\ \/ UNCHANGED <<mode, seed, orphan>>
         \/ \E next \in {"normal", "qr"} : SetMode(next)
  BY DEF OnClose, OnShowWallet, database, screen, settings, history, ui
<1>2. /\ Numbered' /\ Listed' /\ IsABag(inflight')
      /\ BagToSet(inflight') \subseteq BagToSet(inflight)
      /\ BagToSet(inflight) \ {m} \subseteq BagToSet(inflight')
      /\ \A e \in BagToSet(inflight) \ {m} : inflight'[e] = inflight[e]
  <2>1. m \notin Reads
    BY <1>1 DEF Reads
  <2>2. QED
    BY <1>1, <2>1, ConsumeKeeps
<1>3. /\ Checked' /\ Quizzed' /\ SavingIsUnderway' /\ Worded' /\ Prompted'
      /\ seed' \in Seeds /\ mode' \in Modes /\ orphan' \in BOOLEAN
  <2>1. CASE UNCHANGED <<mode, seed, orphan>>
    <3>1. Checks' = Checks /\ \A e \in Checks : inflight'[e] = inflight[e]
      BY <1>1, <1>2 DEF Checks
    <3>2. Pending({"save", "created"}) => Pending({"save", "created"})'
      BY <1>1, <1>2 DEF Pending
    <3>3. Checked' /\ Quizzed' /\ SavingIsUnderway'
      BY <1>1, <1>2, <2>1, <3>1, <3>2, OverlayKept DEF IInv
    <3>4. Worded' /\ Prompted'
      BY <1>1, <1>2, <2>1, WordedKept, PromptedKept DEF IInv
    <3>5. QED
      BY <2>1, <3>3, <3>4, Typed DEF IInv
  <2>2. ASSUME NEW next \in {"normal", "qr"}, SetMode(next)
        PROVE  /\ Checked' /\ Quizzed' /\ SavingIsUnderway' /\ Worded' /\ Prompted'
               /\ seed' \in Seeds /\ mode' \in Modes /\ orphan' \in BOOLEAN
    <3>1. /\ Checked' /\ Quizzed' /\ SavingIsUnderway' /\ Worded'
          /\ seed' \in Seeds /\ mode' = next /\ orphan' \in BOOLEAN
      BY <1>1, <1>2, <2>2, OverlayClosed DEF IInv, Modes
    <3>2. Prompted'
      BY <1>1, <3>1, PromptedKept DEF IInv
    <3>3. QED
      BY <3>1, <3>2 DEF Modes
  <2>3. QED
    BY <1>1, <2>1, <2>2
<1>4. TypeOK'
  BY <1>1, <1>2, <1>3, Typed, TypesKept DEF IInv
<1>5. QED
  BY <1>2, <1>3, <1>4 DEF IInv

\* The highlighted wallet becomes current, and the default.
LEMMA SelectedStep ==
  ASSUME IInv, NEW m \in BagToSet(inflight), OnWalletSelected(m)
  PROVE  IInv'
<1>1. /\ UNCHANGED <<store, inserted, list, cursor, preferred, mode, seed, orphan, deletion,
                     proof, hasty, stale>>
      /\ m.type = "select" /\ Consume(m) /\ current' = m.row /\ default' = m.row.phrase
  BY DEF OnWalletSelected, database, history, ui
<1>2. m.row \in Rows /\ m.row.phrase \in Phrases
  BY <1>1 DEF IInv, Numbered, Rows
<1>3. /\ Numbered' /\ Listed' /\ IsABag(inflight')
      /\ BagToSet(inflight') \subseteq BagToSet(inflight)
      /\ BagToSet(inflight) \ {m} \subseteq BagToSet(inflight')
      /\ \A e \in BagToSet(inflight) \ {m} : inflight'[e] = inflight[e]
  <2>1. m \notin Reads
    BY <1>1 DEF Reads
  <2>2. QED
    BY <1>1, <2>1, ConsumeKeeps
<1>4. Checked' /\ Quizzed' /\ SavingIsUnderway'
  <2>1. Checks' = Checks /\ \A e \in Checks : inflight'[e] = inflight[e]
    BY <1>1, <1>3 DEF Checks
  <2>2. Pending({"save", "created"}) => Pending({"save", "created"})'
    BY <1>1, <1>3 DEF Pending
  <2>3. QED
    BY <1>1, <1>3, <2>1, <2>2, OverlayKept DEF IInv
<1>5. Prompted'
  <2>1. ~hasty => mode # "delete"
    BY <1>1 DEF IInv, Prompted, Pending, Changes
  <2>2. QED
    BY <1>1, <2>1 DEF IInv, Prompted
<1>6. Worded'
  BY <1>1, <1>3, WordedKept DEF IInv
<1>7. TypeOK'
  BY <1>1, <1>2, <1>3, Typed, TypesKept DEF IInv
<1>8. QED
  BY <1>3, <1>4, <1>5, <1>6, <1>7 DEF IInv

\* A check is over: the overlay that is open shows the phrase, or the error.
LEMMA RevealedStep ==
  ASSUME IInv, NEW m \in BagToSet(inflight), OnRevealed(m)
  PROVE  IInv'
<1>1. /\ UNCHANGED <<store, inserted, list, cursor, current, preferred, default, mode, orphan,
                     deletion, proof, hasty, stale>>
      /\ m.type = "revealed" /\ Consume(m) /\ seed \in Seeds
  BY DEF OnRevealed, database, screen, settings, history, IInv, TypeOK, Seeds
<1>2. /\ Numbered' /\ Listed' /\ IsABag(inflight')
      /\ BagToSet(inflight') \subseteq BagToSet(inflight)
      /\ BagToSet(inflight) \ {m} \subseteq BagToSet(inflight')
      /\ inflight[m] = 1 => m \notin BagToSet(inflight')
      /\ \A e \in BagToSet(inflight) \ {m} : inflight'[e] = inflight[e]
  <2>1. m \notin Reads
    BY <1>1 DEF Reads
  <2>2. QED
    BY <1>1, <2>1, ConsumeKeeps
<1>3. m.phrase \in Phrases
  BY <1>1 DEF IInv, Worded
<1>4. ~orphan => /\ Checks' = {} /\ mode = "seed" /\ seed.busy /\ seed.step = "password"
                 /\ ~seed.backup /\ m.phrase = seed.address
  <2>1. m \in Checks
    BY <1>1 DEF Checks
  <2>2. ~orphan => Checks = {m} /\ inflight[m] = 1
    BY <2>1 DEF IInv, Checked
  <2>3. QED
    BY <1>2, <2>1, <2>2 DEF IInv, Checked, Checks
<1>5. /\ seed' \in Seeds /\ seed'.backup = seed.backup /\ seed'.address = seed.address
      /\ seed'.asked = seed.asked /\ seed'.proved \in {0, seed.proved}
      /\ \/ seed'.step = "show" /\ seed'.phrase = m.phrase
         \/ seed'.step = seed.step /\ seed'.phrase = seed.phrase /\ seed'.proved = seed.proved
  <2>1. CASE seed' = [seed EXCEPT !.busy = FALSE, !.phrase = m.phrase,
                                  !.step = "show", !.proved = 0]
    <3>1. /\ seed'.backup = seed.backup /\ seed'.address = seed.address
          /\ seed'.asked = seed.asked /\ seed'.proved = 0
          /\ seed'.step = "show" /\ seed'.phrase = m.phrase
      BY <1>1, <2>1 DEF Seeds
    <3>2. seed' \in Seeds
      <4>1. PICK zero \in 0..2 : zero = 0
        OBVIOUS
      <4>2. seed' = [seed EXCEPT !.busy = FALSE, !.phrase = m.phrase,
                                 !.step = "show", !.proved = zero]
        BY <2>1, <4>1
      <4>3. QED
        BY <1>1, <1>3, <4>2 DEF Seeds
    <3>3. QED
      BY <3>1, <3>2
  <2>2. CASE seed' = [seed EXCEPT !.busy = FALSE]
    BY <1>1, <2>2 DEF Seeds
  <2>3. CASE UNCHANGED seed
    BY <1>1, <2>3
  <2>4. QED
    BY <2>1, <2>2, <2>3 DEF OnRevealed
<1>6. Checked'
  BY <1>1, <1>4, <1>5 DEF IInv, Checked, RevealIsOwn
<1>7. Quizzed'
  BY <1>1, <1>2, <1>4, <1>5 DEF IInv, Quizzed, Seeds
<1>8. SavingIsUnderway'
  <2>1. Pending({"save", "created"}) => Pending({"save", "created"})'
    BY <1>1, <1>2 DEF Pending
  <2>2. QED
    BY <1>1, <1>5, <2>1 DEF IInv, SavingIsUnderway
<1>9. Worded' /\ Prompted'
  BY <1>1, <1>2, <1>3, <1>5, PromptedKept DEF IInv, Worded
<1>10. TypeOK'
  BY <1>1, <1>2, <1>5, Typed, TypesKept DEF IInv
<1>11. QED
  BY <1>2, <1>6, <1>7, <1>8, <1>9, <1>10 DEF IInv
----------------------------------------------------------------------------
\* Every step keeps the invariant.
LEMMA NextStep == ASSUME IInv, [Next]_vars PROVE IInv'
<1>1. CASE Key
  BY <1>1, MoveStep, ModeStep, OpenStep, DeleteStep, AskStep, PasswordStep, QuizStep, WordStep
  DEF Key
<1>2. ASSUME NEW m \in BagToSet(inflight), Run(m) \/ Handle(m) PROVE IInv'
  BY <1>2, RefreshStep, StoreStep, RefreshedStep, FinishedStep, CloseStep, SelectedStep,
     RevealedStep
  DEF Run, Handle
<1>3. CASE UNCHANGED vars
  <2>1. Reads' = Reads /\ Checks' = Checks
    BY <1>3 DEF vars, Reads, Checks
  <2>2. Checked' /\ Quizzed' /\ SavingIsUnderway'
    BY <1>3, <2>1, OverlayKept DEF vars, IInv, Pending
  <2>3. Numbered' /\ Worded' /\ Prompted' /\ Listed'
    BY <1>3, <2>1, NumberedKept, WordedKept, PromptedKept, ListedKept DEF vars, IInv
  <2>4. TypeOK'
    BY <1>3, Typed, TypesKept DEF vars, IInv
  <2>5. QED
    BY <1>3, <2>2, <2>3, <2>4 DEF vars, IInv
<1>4. QED
  BY <1>1, <1>2, <1>3 DEF Next

\* The rows, the prompt, the open overlay and the list agree with the messages
\* on their way.
THEOREM Invariance == Spec => []IInv
<1>1. Init => IInv
  BY Initially
<1>2. IInv /\ [Next]_vars => IInv'
  BY NextStep
<1>3. QED
  BY <1>1, <1>2, PTL DEF Spec

\* Every variable keeps its type: no wallet is stored without a phrase, and the
\* cursor stays in range.
THEOREM TypesHold == Spec => []TypeOK
<1>1. IInv => TypeOK
  BY DEF IInv
<1>2. QED
  BY <1>1, Invariance, PTL

\* The wallet that is deleted is the one the prompt named, unless the prompt was
\* opened while the list was about to change.
THEOREM DeletedWasNamedHolds == Spec => []DeletedWasNamed
<1>1. IInv => DeletedWasNamed
  BY DEF IInv, Prompted, DeletedWasNamed
<1>2. QED
  BY <1>1, Invariance, PTL

\* A reveal shows the words of the wallet it was opened for, unless an earlier
\* overlay left its check behind.
THEOREM RevealIsOwnHolds == Spec => []RevealIsOwn
<1>1. IInv => RevealIsOwn
  BY DEF IInv, Checked, RevealIsOwn
<1>2. QED
  BY <1>1, Invariance, PTL

\* A phrase saved after a quiz had both its words proved, and no third word is
\* asked for, under the same condition.
THEOREM SavedWasProvenHolds == Spec => []SavedWasProven
<1>1. IInv => SavedWasProven
  BY DEF IInv, Quizzed, SavedWasProven
<1>2. QED
  BY <1>1, Invariance, PTL

\* An overlay that takes no key because it saves has its save, or the result of
\* it, on the way.
THEOREM SavingIsUnderwayHolds == Spec => []SavingIsUnderway
<1>1. IInv => SavingIsUnderway
  BY DEF IInv
<1>2. QED
  BY <1>1, Invariance, PTL

\* With no change on its way the list shows the store, unless reads overlapped
\* or the last one failed.
THEOREM ListIsStoreHolds == Spec => []ListIsStore
<1>1. IInv => ListIsStore
  BY DEF IInv, Listed, ListIsStore, Pending, Changes, Reads
<1>2. QED
  BY <1>1, Invariance, PTL
=============================================================================
