------------------------------ MODULE Keyboard ------------------------------
(***************************************************************************)
(* What a key does to the page of candidates and to punctuation            *)
(* (wetype.cpp 413-630, 742-834, 873-1115): the selection, the window, the *)
(* panel drawn, the width of symbols and the pairing of quotes, while      *)
(* pinyin is composed, a Space is pending and the keys behind it are       *)
(* replayed.  What WeTypeEngine follows, the letters and the engine, is    *)
(* here a length, a number of candidates, and replies that may come        *)
(* whenever there is pinyin.                                               *)
(*                                                                         *)
(* A text is the kinds of its characters: "word" for a letter or a Chinese *)
(* character, a digit, a space, or a form of a symbol.  What a context has *)
(* before its cursor is a ghost, known as far as the addon wrote it.       *)
(***************************************************************************)
EXTENDS Paging, Punctuation

CONSTANTS
  IC,             \* input contexts
  Settings,       \* what the global page size may be set to
  QueueLimit,     \* keys behind a pending Space: 256
  MaxBuf,         \* bound: pinyin
  MaxCandidates   \* bound: candidates found

ASSUME KeyboardAssumption ==
  /\ Settings \subseteq Nat /\ Settings # {} /\ IC # {}
  /\ QueueLimit \in Nat \ {0} /\ MaxBuf \in Nat /\ MaxCandidates \in Nat

VARIABLES
  setting,      \* Fcitx's page size
  focus,        \* icRef_, the context with the keyboard
  structured,   \* whether it is a password, e-mail, ... field
  buf,          \* how long buf_ is
  current,      \* candidatesCurrent_
  count,        \* how many cands_ there are
  windowStart, selected, renderedPageSize,
  panel,        \* the candidates shown
  pending, queue,
  punct,        \* PunctuationState of each context
  last,         \* ghost: what stands before its cursor
  paired        \* ghost: the Chinese quote of each kind it was given last

envVars   == <<setting, focus, structured>>
pageVars  == <<count, windowStart, selected, renderedPageSize, panel>>
textVars  == <<punct, last, paired>>
vars      == <<envVars, buf, current, pageVars, pending, queue, textVars>>

Keys ==
  [k: {"digit"}, d: 0..(MaxPageSize - 1)] \cup
  [k: Symbol \cup {"letter", "capital", "numpad", "space", "grave", "left", "right", "up", "down",
       "pageup", "pagedown", "return", "back", "esc", "other", "shortcut"}, d: {0}]
Printable == Symbol \cup {"letter", "capital", "digit", "numpad", "space", "grave"}

Page    == PageSize(setting)
NoPanel == [start |-> 0, shown |-> 0, cursor |-> 0]

Init ==
  /\ setting \in Settings /\ focus \in IC /\ structured = FALSE
  /\ buf = 0 /\ current = FALSE /\ count = 0 /\ windowStart = 0 /\ selected = 0
  /\ renderedPageSize = 0 /\ panel = NoPanel
  /\ pending = FALSE /\ queue = <<>>
  /\ punct = [ic \in IC |-> NewPunctuation]
  /\ last = [ic \in IC |-> "word"] /\ paired = [ic \in IC |-> [q \in Quote |-> "closing"]]

----------------------------------------------------------------------------
(* The page.                                                               *)

PanelWhole(n, start, cursor) ==   \* mutant: the window is not applied
  [start |-> start, shown |-> n, cursor |-> cursor]
Panel(n, start, cursor) ==
  [start |-> start, shown |-> Least(Page, n - start), cursor |-> cursor]

\* normalizePage, then updateUI, of n candidates.
Redraw(n, start, chosen) ==
  LET s == PageStart(start, n, Page)
      c == OnPage(chosen, s, n, Page)
  IN /\ count' = n /\ windowStart' = s /\ selected' = c
     /\ renderedPageSize' = Page
     /\ panel' = IF n = 0 THEN NoPanel ELSE Panel(n, s, c - s)

\* The window and the selection a key finds.
Window == PageStart(windowStart, count, Page)
Chosen == OnPage(selected, Window, count, Page)

NormalizesIndices == windowStart # Window \/ selected # Chosen   \* mutant: the size is not compared
Normalizes ==
  \/ windowStart # Window \/ selected # Chosen
  \/ count # 0 /\ renderedPageSize # Page
\* A key press first has the page redrawn, if the setting has changed.
Refresh ==
  IF Normalizes THEN Redraw(count, windowStart, selected) ELSE UNCHANGED pageVars

\* The page that a key is met with.
Met == IF Normalizes THEN Panel(count, Window, Chosen - Window) ELSE panel

----------------------------------------------------------------------------
(* What is delivered.                                                      *)

Known(text) ==
  IF EndsWithDigit(text) THEN "digit"
  ELSE IF \A i \in DOMAIN text : text[i] = "space" THEN "unknown" ELSE "word"

\* rememberTrailing and commitString, with the sides of quotes that come next.
Deliver(text, sides) ==
  /\ punct' = [punct EXCEPT ![focus] = [afterDigit |-> EndsWithDigit(text), open |-> sides]]
  /\ last' = [last EXCEPT ![focus] = Known(text)]

SameSides == punct[focus].open
CandidateTexts == {<<"word">>, <<"word", "digit">>}

DeliverUnremembered(text) ==   \* mutant: rememberTrailing is not called
  /\ last' = [last EXCEPT ![focus] = Known(text)]
  /\ UNCHANGED <<punct, paired>>
DeliverWord(text) == Deliver(text, SameSides) /\ UNCHANGED paired

\* The composition becomes `rest' letters with no candidates.
Compose(rest) == buf' = rest /\ current' = FALSE /\ Redraw(0, 0, 0)

\* commitCandidate, of one that covers all the pinyin or a prefix.
CommitCandidate ==
  /\ \E text \in CandidateTexts : DeliverWord(text)
  /\ \E rest \in 0..(buf - 1) : Compose(rest)

\* pendingRaw, with a Space pending and q behind it.
Kind(key) == IF key.k \in DigitKey \cup {"space"} THEN key.k ELSE "word"
PendingRaw(length, q) ==
  (IF length = 0 THEN <<>> ELSE <<"word">>) \o <<"space">> \o [i \in DOMAIN q |-> Kind(q[i])]

\* fallbackPending: the pinyin, a Space and the keys behind it are committed raw.
Fallback(length, q) ==
  /\ DeliverWord(PendingRaw(length, q))
  /\ Compose(0) /\ pending' = FALSE /\ queue' = <<>>

\* The application is given a key that the addon does not take.
Pass(key) ==
  /\ last' = [last EXCEPT ![focus] =
       IF buf # 0 \/ key.k \notin Printable THEN "unknown"
       ELSE IF key.k \in DigitKey THEN "digit"
       ELSE IF key.k = "space" THEN @ ELSE "unknown"]
  /\ UNCHANGED <<buf, current, paired>>

----------------------------------------------------------------------------
(* processKey with no Space pending; q is left of the keys being replayed. *)

HasPage == buf # 0 /\ current /\ count # 0

LetterKey(key) ==
  /\ key.k = "letter" \/ (key.k = "capital" /\ buf # 0)
  /\ buf' = buf + 1 /\ current' = FALSE
  /\ Redraw(count, windowStart, selected)
  /\ UNCHANGED textVars

\* Shift and a letter, with nothing composed.
CapitalKey(key) ==
  /\ key.k = "capital" /\ buf = 0
  /\ DeliverWord(<<"word">>)
  /\ Refresh /\ UNCHANGED <<buf, current>>

\* Left and Right move on the page, Up and Down turn it.
ArrowKey(key) ==
  /\ HasPage
  /\ \/ /\ key.k = "left"
        /\ Redraw(count, Window, IF Chosen > Window THEN Chosen - 1 ELSE Chosen)
     \/ /\ key.k = "right"
        /\ Redraw(count, Window, IF Chosen + 1 < Least(Window + Page, count)
                                 THEN Chosen + 1 ELSE Chosen)
     \/ /\ key.k = "up"
        /\ IF Window > 0 THEN Redraw(count, Minus(Window, Page), Minus(Window, Page))
           ELSE Redraw(count, Window, Chosen)
     \/ /\ key.k = "down"
        /\ IF Window + Page < count THEN Redraw(count, Window + Page, Window + Page)
           ELSE Redraw(count, Window, Chosen)
  /\ UNCHANGED <<buf, current, textVars>>

\* '-', '=', Page Up and Page Down turn the page and are taken at its ends too;
\* '-' and Page Up, also of candidates that are no longer current.
PageKey(key) ==
  /\ buf # 0
  /\ \/ /\ key.k \in {"minus", "pageup"}
        /\ IF Window > 0 THEN Redraw(count, Minus(Window, Page), Minus(Window, Page))
           ELSE Refresh
     \/ /\ key.k \in {"plus", "pagedown"}
        /\ IF current /\ Window + Page < count THEN Redraw(count, Window + Page, Window + Page)
           ELSE Refresh
  /\ UNCHANGED <<buf, current, textVars>>

\* A quote, if it is a Chinese one, is the last of its kind.
Pair(key, form) ==
  paired' = IF form \in {"opening", "closing"}
            THEN [paired EXCEPT ![focus][key] = form] ELSE paired

\* A symbol after pinyin commits the candidate selected, or the pinyin, with it.
SymbolAfter(key, text) ==
  LET wide == Fullwidth(punct[focus], structured, key.k, text)
      form == PunctFor(punct[focus], key.k, wide)
  IN /\ form # ""
     /\ Deliver(Append(text, form), Sides(punct[focus], key.k, wide))
     /\ Pair(key.k, form)
     /\ Compose(0)

SymbolKey(key) ==
  \/ /\ buf # 0 /\ key.k \in Symbol \ {"minus", "plus"}
     /\ \E text \in IF HasPage THEN CandidateTexts ELSE {<<"word">>} : SymbolAfter(key, text)
  \/ /\ buf = 0 /\ key.k \in Symbol
     /\ Fullwidth(punct[focus], structured, key.k, <<>>)
     /\ LET form == PunctFor(punct[focus], key.k, TRUE)
        IN Deliver(<<form>>, Sides(punct[focus], key.k, TRUE)) /\ Pair(key.k, form)
     /\ Refresh /\ UNCHANGED <<buf, current>>

\* The label d picks the candidate d of the page, and nothing beyond it; the
\* tenth label needs a page of ten.
Labelled(d) == (d = MaxPageSize - 1 => Page >= MaxPageSize) /\ d < Page /\ Window + d < count

DigitPick(key) ==
  /\ key.k = "digit" /\ HasPage /\ Labelled(key.d)
  /\ CommitCandidate

\* armPending, when nothing can be selected; it falls back at once if nothing
\* was found, or the engine is given up.
SpaceKey(key, q) ==
  /\ key.k = "space" /\ buf # 0
  /\ \/ HasPage /\ CommitCandidate /\ pending' = FALSE /\ queue' = q
     \/ ~HasPage /\ Fallback(buf, q)
     \/ /\ ~HasPage /\ ~current
        /\ pending' = TRUE /\ queue' = q
        /\ Redraw(count, windowStart, selected)
        /\ UNCHANGED <<buf, current, textVars>>

ReturnKey(key) ==
  /\ key.k = "return" /\ buf # 0
  /\ DeliverWord(<<"word">>) /\ Compose(0)

BackKey(key) ==
  /\ key.k = "back" /\ buf # 0
  /\ buf' = buf - 1 /\ current' = FALSE
  /\ IF buf = 1 THEN Redraw(0, 0, 0) ELSE Redraw(count, windowStart, selected)
  /\ UNCHANGED textVars

EscKey(key) ==
  /\ key.k = "esc" /\ buf # 0
  /\ Compose(0) /\ UNCHANGED textVars

Handled(key) == LetterKey(key) \/ CapitalKey(key) \/ ArrowKey(key) \/ PageKey(key)
                \/ SymbolKey(key) \/ DigitPick(key) \/ ReturnKey(key) \/ BackKey(key)

Taken(key) ==
  \/ key.k \in {"letter", "capital"}
  \/ HasPage /\ key.k \in {"left", "right", "up", "down"}
  \/ buf # 0 /\ key.k \in {"minus", "plus", "pageup", "pagedown", "space", "return", "back", "esc"}
  \/ /\ key.k \in Symbol
     /\ IF buf # 0 THEN key.k = "backslash" => ~structured
        ELSE Fullwidth(punct[focus], structured, key.k, <<>>)
  \/ key.k = "digit" /\ HasPage /\ Labelled(key.d)

\* Any other key goes to the application; a digit is remembered.
NotTaken(key) ==
  /\ ~Taken(key) /\ Pass(key)
  /\ IF key.k = "shortcut" THEN UNCHANGED pageVars ELSE Refresh
  /\ punct' = [punct EXCEPT ![focus].afterDigit = @ \/ (buf = 0 /\ key.k \in DigitKey)]

Process(key, q) ==
  \/ Handled(key) /\ pending' = FALSE /\ queue' = q
  \/ SpaceKey(key, q)
  \/ EscKey(key) /\ pending' = FALSE /\ queue' = <<>>
  \/ NotTaken(key) /\ pending' = FALSE /\ queue' = q

----------------------------------------------------------------------------
(* processKey with a Space pending.                                        *)

PendingBack ==
  \/ /\ queue # <<>>
     /\ queue' = SubSeq(queue, 1, Len(queue) - 1)
     /\ Redraw(count, windowStart, selected)
     /\ UNCHANGED <<buf, current, pending, textVars>>
  \/ /\ queue = <<>> /\ buf = 1
     /\ Fallback(0, <<>>)
  \/ /\ queue = <<>> /\ buf > 1
     /\ buf' = buf - 1 /\ current' = FALSE
     /\ Redraw(0, windowStart, selected)
     /\ UNCHANGED <<pending, queue, textVars>>

PendingQueueLate(key) ==   \* mutant: the limit is compared before the key is put
  IF Len(queue) >= QueueLimit
  THEN Fallback(buf, Append(queue, key))
  ELSE /\ queue' = Append(queue, key)
       /\ Redraw(count, windowStart, selected)
       /\ UNCHANGED <<buf, current, pending, textVars>>
PendingQueue(key) ==
  IF Len(queue) + 1 >= QueueLimit
  THEN Fallback(buf, Append(queue, key))
  ELSE /\ queue' = Append(queue, key)
       /\ Redraw(count, windowStart, selected)
       /\ UNCHANGED <<buf, current, pending, textVars>>

\* A key that cannot wait comes after what waits; all but Return go on to the
\* application.
PendingOvertaken(key) ==
  /\ Compose(0) /\ pending' = FALSE /\ queue' = <<>>
  /\ LET raw == PendingRaw(buf, queue)
     IN /\ punct' = [punct EXCEPT ![focus].afterDigit = EndsWithDigit(raw)]
        /\ last' = [last EXCEPT ![focus] = IF key.k = "return" THEN Known(raw) ELSE "unknown"]
  /\ UNCHANGED paired

PendingKey(key) ==
  \/ /\ key.k = "esc"
     /\ Compose(0) /\ pending' = FALSE /\ queue' = <<>> /\ UNCHANGED textVars
  \/ key.k = "back" /\ PendingBack
  \/ key.k \in Printable /\ PendingQueue(key)
  \/ key.k \notin Printable \cup {"esc", "back"} /\ PendingOvertaken(key)

----------------------------------------------------------------------------
(* Events of Fcitx's loop.                                                 *)

Draining == ~pending /\ queue # <<>>

KeyEvent ==
  /\ ~Draining
  /\ \E key \in Keys :
       /\ key.k \in {"letter", "capital"} => buf + Len(queue) < MaxBuf
       /\ IF pending THEN PendingKey(key) ELSE Process(key, <<>>)
  /\ UNCHANGED envVars

\* drainQueued replays a key, before anything else happens.
Drain ==
  /\ Draining
  /\ Process(Head(queue), Tail(queue))
  /\ UNCHANGED envVars

\* The answer to the pinyin as it is: what waits for it goes on.
Reply ==
  /\ ~Draining /\ buf # 0 /\ ~current
  /\ \E n \in 0..MaxCandidates :
       \/ /\ ~pending /\ current' = TRUE /\ Redraw(n, 0, 0)
          /\ UNCHANGED <<buf, pending, queue, textVars>>
       \/ pending /\ n = 0 /\ Fallback(buf, queue)
       \/ pending /\ n # 0 /\ CommitCandidate /\ pending' = FALSE /\ UNCHANGED queue
  /\ UNCHANGED envVars

\* The answer to an earlier prefix of it is shown meanwhile; a lost one is not.
Preview ==
  /\ ~Draining /\ buf > 1 /\ ~current
  /\ \/ \E n \in 1..MaxCandidates : Redraw(n, 0, 0)
     \/ Redraw(count, windowStart, selected)
  /\ UNCHANGED <<envVars, buf, current, pending, queue, textVars>>

\* A click on a candidate shown.
Click ==
  /\ ~Draining /\ ~pending /\ current
  /\ \E i \in 0..MaxCandidates :
       /\ panel.start <= i /\ i < panel.start + panel.shown /\ i < count
       /\ CommitCandidate
  /\ UNCHANGED <<envVars, pending, queue>>

PendingTimeout ==
  /\ ~Draining /\ pending
  /\ Fallback(buf, queue)
  /\ UNCHANGED envVars

SetPageSize ==
  /\ ~Draining
  /\ setting' \in Settings
  /\ UNCHANGED <<focus, structured, buf, current, pageVars, pending, queue, textVars>>

ClearAll ==
  /\ pending' = FALSE /\ queue' = <<>> /\ buf' = 0 /\ current' = FALSE
  /\ IF buf # 0 \/ count # 0 THEN Redraw(0, 0, 0)
     ELSE /\ windowStart' = 0 /\ selected' = 0
          /\ UNCHANGED <<count, renderedPageSize, panel>>

\* reset; or deactivate, as the focus moves to another context or field.
Focus ==
  /\ ~Draining
  /\ focus' \in IC /\ structured' \in BOOLEAN
  /\ ClearAll
  /\ UNCHANGED <<setting, textVars>>

\* deactivate, as another input method takes over: unfinished pinyin is kept
\* as text, and what that method writes is not known.
SwitchInputMethod ==
  /\ ~Draining
  /\ punct' = [punct EXCEPT ![focus].afterDigit =
       buf # 0 /\ pending /\ EndsWithDigit(PendingRaw(buf, queue))]
  /\ last' = [last EXCEPT ![focus] = "unknown"]
  /\ ClearAll
  /\ UNCHANGED <<envVars, paired>>

\* The application tells what is before the cursor.
SurroundingText ==
  /\ ~Draining
  /\ \E ic \in IC, digit \in BOOLEAN :
       /\ punct' = [punct EXCEPT ![ic].afterDigit = digit]
       /\ last' = [last EXCEPT ![ic] = IF digit THEN "digit" ELSE "word"]
  /\ UNCHANGED <<envVars, buf, current, pageVars, pending, queue, paired>>

Next ==
  \/ KeyEvent \/ Drain \/ Reply \/ Preview \/ Click \/ PendingTimeout
  \/ SetPageSize \/ Focus \/ SwitchInputMethod \/ SurroundingText
Spec == Init /\ [][Next]_vars

----------------------------------------------------------------------------
(* Properties.                                                             *)

TypeOK ==
  /\ setting \in Settings /\ focus \in IC /\ structured \in BOOLEAN
  /\ buf \in Nat /\ current \in BOOLEAN /\ count \in Nat
  /\ windowStart \in Nat /\ selected \in Nat /\ renderedPageSize \in Nat
  /\ panel \in [start: Nat, shown: Nat, cursor: Nat]
  /\ pending \in BOOLEAN /\ queue \in Seq(Keys) /\ Len(queue) < QueueLimit
  /\ punct \in [IC -> [afterDigit: BOOLEAN, open: [Quote -> BOOLEAN]]]
  /\ last \in [IC -> {"digit", "word", "unknown"}]
  /\ paired \in [IC -> [Quote -> {"opening", "closing"}]]

\* The panel shows the page that the next key works on: the window of the list,
\* never beyond its end, with the selection on it, whatever path changed them
\* (normalizePage, updateUI); CommonCandidateList throws when it is not.
PanelSound ==
  IF count = 0 THEN panel = NoPanel
  ELSE /\ panel.start = windowStart /\ panel.start + panel.cursor = selected
       /\ panel.cursor < panel.shown
       /\ panel.start + panel.shown <= count /\ panel.shown <= renderedPageSize
       /\ panel.start + panel.shown = count \/ panel.shown = renderedPageSize

\* "Every visible candidate can be selected" (wetype.cpp:500-501): with the page
\* as the key finds it, a label picks the candidate beside it, and a key beyond
\* the page none; the cursor is what Space and punctuation commit.
LabelsPick ==
  count # 0 =>
    /\ \A d \in 0..(MaxPageSize - 1) : Labelled(d) <=> d < Met.shown
    /\ Met.start = Window /\ Met.start + Met.cursor = Chosen /\ Chosen < count
    /\ Met.shown <= MaxPageSize

\* Chinese quotes pair up in each context: after an opening one comes a closing
\* one, whatever ASCII quotes, raw text, contexts and input methods come between.
QuotesPair == \A ic \in IC, q \in Quote : punct[ic].open[q] <=> paired[ic][q] = "closing"

\* What a context remembers of the digit before the cursor is what the addon, or
\* a digit that it passed on, put there (rememberTrailing on every commit).
DigitKnown ==
  \A ic \in IC : /\ last[ic] = "digit" => punct[ic].afterDigit
                 /\ last[ic] = "word" => ~punct[ic].afterDigit
=============================================================================
