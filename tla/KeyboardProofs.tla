--------------------------- MODULE KeyboardProofs ---------------------------
(***************************************************************************)
(* Keyboard's properties, for any contexts, page sizes, queue limit and    *)
(* bounds.  A step is first reduced to what it does to the page, to the    *)
(* text and to the queue (PageMoves, TextMoves, Core'); each property is   *)
(* then proved of these few forms.                                         *)
(***************************************************************************)
EXTENDS Keyboard, TLAPS

----------------------------------------------------------------------------
(* Paging.                                                                 *)

\* pageSize() is a number of candidates that the digit keys can label.
LEMMA PageSizeFits ==
  ASSUME NEW n \in Nat
  PROVE  PageSize(n) \in Nat /\ PageSize(n) >= 1 /\ PageSize(n) <= MaxPageSize
BY PagingAssumption DEF PageSize

\* Rounding down to a multiple does not go up.
LEMMA RoundsDown ==
  ASSUME NEW m \in Nat, NEW page \in Nat, page >= 1
  PROVE  (m \div page) * page \in Nat /\ (m \div page) * page <= m
<1>1. m \div page \in Nat /\ m = page * (m \div page) + (m % page) /\ m % page \in Nat
  BY Z3
<1> QED
  BY <1>1, Z3

\* normalizePage leaves the selection on a page that begins within the list.
LEMMA PageLies ==
  ASSUME NEW start \in Nat, NEW n \in Nat, NEW chosen \in Nat, NEW page \in Nat, page >= 1
  PROVE  LET s == PageStart(start, n, page)
             c == OnPage(chosen, s, n, page)
         IN /\ s \in Nat /\ c \in Nat
            /\ n # 0 => s < n /\ s <= c /\ c < s + page /\ c < n
            /\ n = 0 => s = 0 /\ c = 0
<1> DEFINE s == PageStart(start, n, page)
<1> DEFINE c == OnPage(chosen, s, n, page)
<1>1. CASE n = 0
  BY <1>1 DEF PageStart, OnPage
<1>2. CASE n # 0
  <2>1. Least(start, n - 1) \in Nat /\ Least(start, n - 1) <= n - 1
    BY <1>2 DEF Least
  <2>2. s \in Nat /\ s <= n - 1
    BY <1>2, <2>1, RoundsDown DEF PageStart
  <2> HIDE DEF s
  <2>3. c \in Nat /\ s <= c /\ c < s + page /\ c < n
    BY <1>2, <2>2 DEF OnPage, Least, Greatest
  <2> QED
    BY <1>2, <2>2, <2>3 DEF s
<1> QED
  BY <1>1, <1>2

----------------------------------------------------------------------------
(* The page.                                                               *)

CoreType ==
  /\ setting \in Settings /\ focus \in IC /\ structured \in BOOLEAN
  /\ buf \in Nat /\ current \in BOOLEAN
  /\ pending \in BOOLEAN /\ queue \in Seq(Keys) /\ Len(queue) < QueueLimit
PageType ==
  /\ count \in Nat /\ windowStart \in Nat /\ selected \in Nat /\ renderedPageSize \in Nat
  /\ panel \in [start: Nat, shown: Nat, cursor: Nat]
TextType ==
  /\ punct \in [IC -> [afterDigit: BOOLEAN, open: [Quote -> BOOLEAN]]]
  /\ last \in [IC -> {"digit", "word", "unknown"}]
  /\ paired \in [IC -> [Quote -> {"opening", "closing"}]]

LEMMA TypeParts == TypeOK <=> CoreType /\ PageType /\ TextType
BY DEF TypeOK, CoreType, PageType, TextType

\* What a step does to the page: it is drawn again, or nothing, or nothing is
\* there to draw.
PageMoves ==
  \/ \E n, start, chosen \in Nat : Redraw(n, start, chosen)
  \/ UNCHANGED pageVars
  \/ /\ count = 0 /\ windowStart' = 0 /\ selected' = 0
     /\ UNCHANGED <<count, renderedPageSize, panel>>

LEMMA PageIsSize ==
  ASSUME CoreType
  PROVE  Page \in Nat /\ Page >= 1 /\ Page <= MaxPageSize
BY PageSizeFits, KeyboardAssumption DEF Page, CoreType

\* The page that a key finds.
LEMMA PageMet ==
  ASSUME CoreType, PageType
  PROVE  /\ Window \in Nat /\ Chosen \in Nat
         /\ count # 0 => Window < count /\ Window <= Chosen /\ Chosen < Window + Page /\ Chosen < count
         /\ count = 0 => Window = 0 /\ Chosen = 0
<1>1. Page \in Nat /\ Page >= 1 /\ count \in Nat /\ windowStart \in Nat /\ selected \in Nat
  BY PageIsSize DEF PageType
<1>2. LET s == PageStart(windowStart, count, Page)
          c == OnPage(selected, s, count, Page)
      IN /\ s \in Nat /\ c \in Nat
         /\ count # 0 => s < count /\ s <= c /\ c < s + Page /\ c < count
         /\ count = 0 => s = 0 /\ c = 0
  BY <1>1, PageLies
<1> QED
  BY <1>2 DEF Window, Chosen

\* Whatever is drawn is sound.
LEMMA DrawnSound ==
  ASSUME CoreType, NEW n \in Nat, NEW start \in Nat, NEW chosen \in Nat, Redraw(n, start, chosen)
  PROVE  PageType' /\ PanelSound'
<1> DEFINE s == PageStart(start, n, Page)
<1> DEFINE c == OnPage(chosen, s, n, Page)
<1>1. Page \in Nat /\ Page >= 1
  BY PageIsSize
<1>2. /\ s \in Nat /\ c \in Nat
      /\ n # 0 => s < n /\ s <= c /\ c < s + Page /\ c < n
      /\ n = 0 => s = 0 /\ c = 0
  BY <1>1, PageLies
<1>3. /\ count' = n /\ windowStart' = s /\ selected' = c /\ renderedPageSize' = Page
      /\ panel' = IF n = 0 THEN NoPanel ELSE Panel(n, s, c - s)
  BY DEF Redraw
<1> HIDE DEF s, c
<1>4. CASE n = 0
  BY <1>1, <1>2, <1>3, <1>4 DEF PageType, PanelSound, NoPanel
<1>5. CASE n # 0
  <2>1. /\ panel' = [start |-> s, shown |-> Least(Page, n - s), cursor |-> c - s]
        /\ c - s \in Nat /\ Least(Page, n - s) \in Nat
    BY <1>1, <1>2, <1>3, <1>5 DEF Panel, Least
  <2>2. /\ c - s < Least(Page, n - s) /\ s + Least(Page, n - s) <= n /\ Least(Page, n - s) <= Page
        /\ s + Least(Page, n - s) = n \/ Least(Page, n - s) = Page
    BY <1>1, <1>2, <1>5 DEF Least
  <2> QED
    BY <1>1, <1>2, <1>3, <1>5, <2>1, <2>2 DEF PageType, PanelSound
<1> QED
  BY <1>4, <1>5

LEMMA MovesSound ==
  ASSUME CoreType, PageType, PanelSound, PageMoves
  PROVE  PageType' /\ PanelSound'
<1>1. CASE \E n, start, chosen \in Nat : Redraw(n, start, chosen)
  BY <1>1, DrawnSound
<1>2. CASE UNCHANGED pageVars
  BY <1>2 DEF pageVars, PageType, PanelSound, NoPanel
<1>3. CASE /\ count = 0 /\ windowStart' = 0 /\ selected' = 0
           /\ UNCHANGED <<count, renderedPageSize, panel>>
  BY <1>3 DEF PageType, PanelSound, NoPanel
<1> QED
  BY <1>1, <1>2, <1>3 DEF PageMoves

\* Each kind of key redraws the page, or leaves it.
LEMMA RefreshMoves ==
  ASSUME PageType, Refresh
  PROVE  PageMoves
BY DEF Refresh, PageMoves, PageType

LEMMA ComposeMoves ==
  ASSUME NEW rest, Compose(rest)
  PROVE  PageMoves
BY DEF Compose, PageMoves

LEMMA ArrowMoves ==
  ASSUME CoreType, PageType, NEW key \in Keys, ArrowKey(key)
  PROVE  PageMoves
<1>1. Page \in Nat /\ Window \in Nat /\ Chosen \in Nat /\ count \in Nat
  BY PageIsSize, PageMet DEF PageType
<1>2. /\ (IF Chosen > Window THEN Chosen - 1 ELSE Chosen) \in Nat
      /\ (IF Chosen + 1 < Least(Window + Page, count) THEN Chosen + 1 ELSE Chosen) \in Nat
      /\ Minus(Window, Page) \in Nat /\ Window + Page \in Nat
  BY <1>1 DEF Minus
<1> QED
  BY <1>1, <1>2 DEF ArrowKey, PageMoves

LEMMA TurnMoves ==
  ASSUME CoreType, PageType, NEW key \in Keys, PageKey(key)
  PROVE  PageMoves
<1>1. Page \in Nat /\ Window \in Nat /\ count \in Nat
  BY PageIsSize, PageMet DEF PageType
<1>2. Minus(Window, Page) \in Nat /\ Window + Page \in Nat
  BY <1>1 DEF Minus
<1> QED
  BY <1>1, <1>2, RefreshMoves DEF PageKey, PageMoves

LEMMA ProcessMoves ==
  ASSUME CoreType, PageType, NEW key \in Keys, NEW q, Process(key, q)
  PROVE  PageMoves
<1> USE DEF PageType
<1>1. CASE LetterKey(key)
  BY <1>1 DEF LetterKey, PageMoves
<1>2. CASE CapitalKey(key)
  BY <1>2, RefreshMoves DEF CapitalKey
<1>3. CASE ArrowKey(key)
  BY <1>3, ArrowMoves
<1>4. CASE PageKey(key)
  BY <1>4, TurnMoves
<1>5. CASE SymbolKey(key)
  BY <1>5, RefreshMoves, ComposeMoves DEF SymbolKey, SymbolAfter
<1>6. CASE DigitPick(key)
  BY <1>6, ComposeMoves DEF DigitPick, CommitCandidate
<1>7. CASE ReturnKey(key)
  BY <1>7, ComposeMoves DEF ReturnKey
<1>8. CASE BackKey(key)
  BY <1>8 DEF BackKey, PageMoves
<1>9. CASE SpaceKey(key, q)
  <2>1. CASE CommitCandidate
    BY <2>1, ComposeMoves DEF CommitCandidate
  <2>2. CASE Fallback(buf, q)
    BY <2>2, ComposeMoves DEF Fallback
  <2>3. CASE Redraw(count, windowStart, selected)
    BY <2>3 DEF PageMoves
  <2> QED
    BY <1>9, <2>1, <2>2, <2>3 DEF SpaceKey
<1>10. CASE EscKey(key)
  BY <1>10, ComposeMoves DEF EscKey
<1>11. CASE NotTaken(key)
  BY <1>11, RefreshMoves DEF NotTaken, PageMoves
<1> QED
  BY <1>1, <1>2, <1>3, <1>4, <1>5, <1>6, <1>7, <1>8, <1>9, <1>10, <1>11 DEF Process, Handled

LEMMA PendingMoves ==
  ASSUME PageType, NEW key \in Keys, PendingKey(key)
  PROVE  PageMoves
<1> USE DEF PageType
<1>1. CASE PendingBack
  BY <1>1, ComposeMoves DEF PendingBack, Fallback, PageMoves
<1>2. CASE PendingQueue(key)
  BY <1>2, ComposeMoves DEF PendingQueue, Fallback, PageMoves
<1>3. CASE PendingOvertaken(key)
  BY <1>3, ComposeMoves DEF PendingOvertaken
<1>4. CASE Compose(0)
  BY <1>4, ComposeMoves
<1> QED
  BY <1>1, <1>2, <1>3, <1>4 DEF PendingKey

LEMMA ClearMoves ==
  ASSUME PageType, ClearAll
  PROVE  PageMoves
BY DEF ClearAll, PageMoves, PageType, pageVars

LEMMA StepMoves ==
  ASSUME CoreType, PageType, Next
  PROVE  PageMoves
<1> USE DEF PageType
<1>1. CASE KeyEvent
  BY <1>1, ProcessMoves, PendingMoves DEF KeyEvent
<1>2. CASE Drain
  <2>1. Head(queue) \in Keys
    BY <1>2 DEF Drain, Draining, CoreType
  <2> QED
    BY <1>2, <2>1, ProcessMoves DEF Drain
<1>3. CASE Reply
  <2>1. PICK n \in 0..MaxCandidates :
          \/ Redraw(n, 0, 0)
          \/ Fallback(buf, queue)
          \/ CommitCandidate
    BY <1>3 DEF Reply
  <2>2. n \in Nat
    BY KeyboardAssumption
  <2> QED
    BY <2>1, <2>2, ComposeMoves DEF Fallback, CommitCandidate, PageMoves
<1>4. CASE Preview
  <2>1. PICK n, s, c \in Nat : Redraw(n, s, c)
    BY <1>4, KeyboardAssumption DEF Preview
  <2> QED
    BY <2>1 DEF PageMoves
<1>5. CASE Click
  BY <1>5, ComposeMoves DEF Click, CommitCandidate
<1>6. CASE PendingTimeout
  BY <1>6, ComposeMoves DEF PendingTimeout, Fallback
<1>7. CASE SetPageSize \/ SurroundingText
  BY <1>7 DEF SetPageSize, SurroundingText, PageMoves, pageVars
<1>8. CASE Focus \/ SwitchInputMethod
  BY <1>8, ClearMoves DEF Focus, SwitchInputMethod
<1> QED
  BY <1>1, <1>2, <1>3, <1>4, <1>5, <1>6, <1>7, <1>8 DEF Next

----------------------------------------------------------------------------
(* The labels.                                                             *)

\* What is drawn is what the labels pick from, once the page is as a key finds it.
LEMMA SoundPicks ==
  ASSUME CoreType, PageType, PanelSound
  PROVE  LabelsPick
<1>1. Page \in Nat /\ Page >= 1 /\ Page <= MaxPageSize /\ MaxPageSize \in Nat \ {0}
  BY PageIsSize, PagingAssumption
<1> SUFFICES ASSUME count # 0
             PROVE  /\ \A d \in 0..(MaxPageSize - 1) : Labelled(d) <=> d < Met.shown
                    /\ Met.start = Window /\ Met.start + Met.cursor = Chosen /\ Chosen < count
                    /\ Met.shown <= MaxPageSize
  BY DEF LabelsPick
<1>2. /\ Window \in Nat /\ Chosen \in Nat /\ count \in Nat
      /\ Window < count /\ Window <= Chosen /\ Chosen < count
  BY PageMet DEF PageType
<1>3. Met.start = Window /\ Met.start + Met.cursor = Chosen /\ Met.shown = Least(Page, count - Window)
  <2>1. CASE Normalizes
    BY <1>1, <1>2, <2>1 DEF Met, Panel
  <2>2. CASE ~Normalizes
    <3>1. Met = panel /\ windowStart = Window /\ selected = Chosen /\ renderedPageSize = Page
      BY <2>2 DEF Met, Normalizes
    <3>2. /\ panel.start \in Nat /\ panel.shown \in Nat /\ panel.cursor \in Nat
          /\ panel.start = windowStart /\ panel.start + panel.cursor = selected
          /\ panel.start + panel.shown <= count /\ panel.shown <= renderedPageSize
          /\ panel.start + panel.shown = count \/ panel.shown = renderedPageSize
      BY DEF PanelSound, PageType
    <3> QED
      BY <1>1, <1>2, <3>1, <3>2 DEF Least
  <2> QED
    BY <2>1, <2>2
<1>4. ASSUME NEW d \in 0..(MaxPageSize - 1)
      PROVE  Labelled(d) <=> d < Least(Page, count - Window)
  BY <1>1, <1>2 DEF Labelled, Least
<1> QED
  BY <1>1, <1>2, <1>3, <1>4 DEF Least

----------------------------------------------------------------------------
(* The text.                                                               *)

\* What a step does to the text of a context: nothing, a text is committed, a
\* symbol is produced, or only the memory of a digit is corrected.
Corrects ==
  \E ic \in IC, digit \in BOOLEAN, known \in {"digit", "word", "unknown"} :
    /\ punct' = [punct EXCEPT ![ic].afterDigit = digit]
    /\ last' = [last EXCEPT ![ic] = known]
    /\ paired' = paired
    /\ known = "digit" => digit
    /\ known = "word" => ~digit
Produces ==
  \E key \in Symbol, wide \in BOOLEAN, text \in {<<>>, <<"word">>, <<"word", "digit">>} :
    LET form == PunctFor(punct[focus], key, wide)
    IN /\ Deliver(Append(text, form), Sides(punct[focus], key, wide))
       /\ Pair(key, form)
TextMoves ==
  \/ UNCHANGED textVars
  \/ \E text : Deliver(text, SameSides) /\ UNCHANGED paired
  \/ Produces
  \/ Corrects

\* The kinds of text that matter are told apart by its last character.
LEMMA KnownFits ==
  ASSUME NEW text
  PROVE  /\ EndsWithDigit(text) \in BOOLEAN /\ Known(text) \in {"digit", "word", "unknown"}
         /\ Known(text) = "digit" => EndsWithDigit(text)
         /\ Known(text) = "word" => ~EndsWithDigit(text)
BY DEF EndsWithDigit, Known

LEMMA SidesFit ==
  ASSUME NEW state \in [afterDigit: BOOLEAN, open: [Quote -> BOOLEAN]], NEW key, NEW wide
  PROVE  Sides(state, key, wide) \in [Quote -> BOOLEAN]
BY DEF Sides

\* A text committed leaves the type and the digit right, whatever sides come next.
LEMMA DeliverFits ==
  ASSUME CoreType, TextType, DigitKnown,
         NEW text, NEW sides \in [Quote -> BOOLEAN], Deliver(text, sides)
  PROVE  /\ punct' \in [IC -> [afterDigit: BOOLEAN, open: [Quote -> BOOLEAN]]]
         /\ last' \in [IC -> {"digit", "word", "unknown"}]
         /\ DigitKnown'
         /\ \A ic \in IC : punct'[ic].open = IF ic = focus THEN sides ELSE punct[ic].open
<1>1. focus \in IC
  BY DEF CoreType
<1>2. /\ punct' = [punct EXCEPT ![focus] = [afterDigit |-> EndsWithDigit(text), open |-> sides]]
      /\ last' = [last EXCEPT ![focus] = Known(text)]
  BY DEF Deliver
<1>3. /\ EndsWithDigit(text) \in BOOLEAN /\ Known(text) \in {"digit", "word", "unknown"}
      /\ Known(text) = "digit" => EndsWithDigit(text)
      /\ Known(text) = "word" => ~EndsWithDigit(text)
  BY KnownFits
<1>4. /\ punct' \in [IC -> [afterDigit: BOOLEAN, open: [Quote -> BOOLEAN]]]
      /\ last' \in [IC -> {"digit", "word", "unknown"}]
  BY <1>1, <1>2, <1>3 DEF TextType
<1>5. \A ic \in IC : punct'[ic].open = IF ic = focus THEN sides ELSE punct[ic].open
  BY <1>1, <1>2 DEF TextType
<1>6. DigitKnown'
  BY <1>1, <1>2, <1>3 DEF TextType, DigitKnown
<1> QED
  BY <1>4, <1>5, <1>6

\* Chinese quotes stay paired when a symbol is produced.
LEMMA ProduceFits ==
  ASSUME CoreType, TextType, DigitKnown, QuotesPair, Produces
  PROVE  TextType' /\ DigitKnown' /\ QuotesPair'
<1>1. PICK key \in Symbol, wide \in BOOLEAN, text \in {<<>>, <<"word">>, <<"word", "digit">>} :
        /\ Deliver(Append(text, PunctFor(punct[focus], key, wide)), Sides(punct[focus], key, wide))
        /\ Pair(key, PunctFor(punct[focus], key, wide))
  BY DEF Produces
<1> DEFINE form  == PunctFor(punct[focus], key, wide)
<1> DEFINE sides == Sides(punct[focus], key, wide)
<1>2. focus \in IC /\ punct[focus] \in [afterDigit: BOOLEAN, open: [Quote -> BOOLEAN]]
  BY DEF CoreType, TextType
<1>3. sides \in [Quote -> BOOLEAN]
  BY <1>2, SidesFit
<1>4. /\ punct' \in [IC -> [afterDigit: BOOLEAN, open: [Quote -> BOOLEAN]]]
      /\ last' \in [IC -> {"digit", "word", "unknown"}]
      /\ DigitKnown'
      /\ \A ic \in IC : punct'[ic].open = IF ic = focus THEN sides ELSE punct[ic].open
  BY <1>1, <1>3, DeliverFits
<1>5. CASE key \in Quote /\ wide
  <2>1. form = IF punct[focus].open[key] THEN "opening" ELSE "closing"
    BY <1>5, PunctuationAssumption DEF PunctFor, Converted
  <2>2. sides = [punct[focus].open EXCEPT ![key] = ~@]
    BY <1>5 DEF Sides
  <2>3. paired' = [paired EXCEPT ![focus][key] = form]
    BY <1>1, <2>1 DEF Pair
  <2>4. form \in {"opening", "closing"}
    BY <2>1
  <2> HIDE DEF form, sides
  <2>5. paired' \in [IC -> [Quote -> {"opening", "closing"}]]
    BY <1>2, <1>5, <2>3, <2>4 DEF TextType
  <2>6. ASSUME NEW ic \in IC, NEW q \in Quote
        PROVE  punct'[ic].open[q] <=> paired'[ic][q] = "closing"
    <3>1. CASE ic = focus /\ q = key
      BY <1>2, <1>4, <1>5, <2>1, <2>2, <2>3, <3>1 DEF TextType
    <3>2. CASE ~(ic = focus /\ q = key)
      BY <1>2, <1>4, <1>5, <2>2, <2>3, <3>2 DEF TextType, QuotesPair
    <3> QED
      BY <3>1, <3>2
  <2> QED
    BY <1>4, <2>5, <2>6 DEF TextType, QuotesPair
<1>6. CASE ~(key \in Quote /\ wide)
  <2>1. form \notin {"opening", "closing"}
    BY <1>6 DEF PunctFor, Converted
  <2>2. sides = punct[focus].open
    BY <1>6 DEF Sides
  <2>3. paired' = paired
    BY <1>1, <2>1 DEF Pair
  <2> QED
    BY <1>4, <2>2, <2>3 DEF TextType, QuotesPair
<1> QED
  BY <1>5, <1>6

LEMMA CorrectFits ==
  ASSUME TextType, DigitKnown, QuotesPair, Corrects
  PROVE  TextType' /\ DigitKnown' /\ QuotesPair'
<1>1. PICK ic \in IC, digit \in BOOLEAN, known \in {"digit", "word", "unknown"} :
        /\ punct' = [punct EXCEPT ![ic].afterDigit = digit]
        /\ last' = [last EXCEPT ![ic] = known]
        /\ paired' = paired
        /\ known = "digit" => digit
        /\ known = "word" => ~digit
  BY DEF Corrects
<1>2. TextType'
  BY <1>1 DEF TextType
<1>3. \A j \in IC : /\ punct'[j].open = punct[j].open
                    /\ j # ic => punct'[j] = punct[j] /\ last'[j] = last[j]
                    /\ j = ic => punct'[j].afterDigit = digit /\ last'[j] = known
  BY <1>1 DEF TextType
<1> QED
  BY <1>1, <1>2, <1>3 DEF DigitKnown, QuotesPair

LEMMA TextFits ==
  ASSUME CoreType, TextType, DigitKnown, QuotesPair, TextMoves
  PROVE  TextType' /\ DigitKnown' /\ QuotesPair'
<1>1. CASE UNCHANGED textVars
  BY <1>1 DEF textVars, TextType, DigitKnown, QuotesPair
<1>2. CASE \E text : Deliver(text, SameSides) /\ UNCHANGED paired
  <2>1. PICK text : Deliver(text, SameSides) /\ UNCHANGED paired
    BY <1>2
  <2>2. SameSides \in [Quote -> BOOLEAN] /\ SameSides = punct[focus].open
    BY DEF SameSides, CoreType, TextType
  <2>3. /\ punct' \in [IC -> [afterDigit: BOOLEAN, open: [Quote -> BOOLEAN]]]
        /\ last' \in [IC -> {"digit", "word", "unknown"}]
        /\ DigitKnown'
        /\ \A ic \in IC : punct'[ic].open = IF ic = focus THEN SameSides ELSE punct[ic].open
    BY <2>1, <2>2, DeliverFits
  <2> QED
    BY <2>1, <2>2, <2>3 DEF TextType, QuotesPair
<1> QED
  BY <1>1, <1>2, ProduceFits, CorrectFits DEF TextMoves

\* Each kind of key does one of these to the text.
LEMMA CommitMoves ==
  ASSUME CommitCandidate
  PROVE  TextMoves
BY DEF CommitCandidate, DeliverWord, TextMoves

LEMMA FallbackMoves ==
  ASSUME NEW length, NEW q, Fallback(length, q)
  PROVE  TextMoves
BY DEF Fallback, DeliverWord, TextMoves

LEMMA FullwidthIs ==
  ASSUME CoreType, TextType, NEW key, NEW text
  PROVE  Fullwidth(punct[focus], structured, key, text) \in BOOLEAN
BY DEF Fullwidth

LEMMA SymbolMoves ==
  ASSUME CoreType, TextType, NEW key \in Keys, SymbolKey(key)
  PROVE  TextMoves
<1>1. CASE buf # 0
  <2>1. key.k \in Symbol
    BY <1>1 DEF SymbolKey
  <2>2. PICK text \in {<<"word">>, <<"word", "digit">>} : SymbolAfter(key, text)
    BY <1>1 DEF SymbolKey, CandidateTexts
  <2> DEFINE wide == Fullwidth(punct[focus], structured, key.k, text)
  <2>3. wide \in BOOLEAN
    BY FullwidthIs
  <2>4. /\ Deliver(Append(text, PunctFor(punct[focus], key.k, wide)), Sides(punct[focus], key.k, wide))
        /\ Pair(key.k, PunctFor(punct[focus], key.k, wide))
    BY <2>2 DEF SymbolAfter
  <2> QED
    BY <2>1, <2>3, <2>4 DEF Produces, TextMoves
<1>2. CASE buf = 0
  <2>1. key.k \in Symbol
    BY <1>2 DEF SymbolKey
  <2> DEFINE form == PunctFor(punct[focus], key.k, TRUE)
  <2>2. Deliver(<<form>>, Sides(punct[focus], key.k, TRUE)) /\ Pair(key.k, form)
    BY <1>2 DEF SymbolKey
  <2>3. Append(<<>>, form) = <<form>>
    OBVIOUS
  <2> QED
    BY <2>1, <2>2, <2>3 DEF Produces, TextMoves
<1> QED
  BY <1>1, <1>2

LEMMA PassMoves ==
  ASSUME CoreType, TextType, DigitKnown, NEW key \in Keys, NotTaken(key)
  PROVE  TextMoves
<1> DEFINE digit == punct[focus].afterDigit \/ (buf = 0 /\ key.k \in DigitKey)
<1> DEFINE known == IF buf # 0 \/ key.k \notin Printable THEN "unknown"
                    ELSE IF key.k \in DigitKey THEN "digit"
                    ELSE IF key.k = "space" THEN last[focus] ELSE "unknown"
<1>1. focus \in IC /\ last[focus] \in {"digit", "word", "unknown"}
  BY DEF CoreType, TextType
<1>2. digit \in BOOLEAN /\ known \in {"digit", "word", "unknown"}
  BY <1>1 DEF TextType
<1>3. known = "digit" => digit
  BY <1>1 DEF DigitKnown, DigitKey
<1>4. known = "word" => ~digit
  BY <1>1 DEF DigitKnown, DigitKey
<1>5. punct' = [punct EXCEPT ![focus].afterDigit = digit]
  BY DEF NotTaken
<1>6. last' = [last EXCEPT ![focus] = known] /\ paired' = paired
  BY DEF NotTaken, Pass
<1> QED
  BY <1>1, <1>2, <1>3, <1>4, <1>5, <1>6 DEF Corrects, TextMoves

LEMMA ProcessText ==
  ASSUME CoreType, TextType, DigitKnown, NEW key \in Keys, NEW q, Process(key, q)
  PROVE  TextMoves
<1>1. CASE LetterKey(key) \/ ArrowKey(key) \/ PageKey(key) \/ BackKey(key) \/ EscKey(key)
  BY <1>1 DEF LetterKey, ArrowKey, PageKey, BackKey, EscKey, TextMoves
<1>2. CASE CapitalKey(key) \/ ReturnKey(key)
  BY <1>2 DEF CapitalKey, ReturnKey, DeliverWord, TextMoves
<1>3. CASE SymbolKey(key)
  BY <1>3, SymbolMoves
<1>4. CASE DigitPick(key)
  BY <1>4, CommitMoves DEF DigitPick
<1>5. CASE SpaceKey(key, q)
  BY <1>5, CommitMoves, FallbackMoves DEF SpaceKey, TextMoves
<1>6. CASE NotTaken(key)
  BY <1>6, PassMoves
<1> QED
  BY <1>1, <1>2, <1>3, <1>4, <1>5, <1>6 DEF Process, Handled

LEMMA PendingText ==
  ASSUME CoreType, TextType, NEW key \in Keys, PendingKey(key)
  PROVE  TextMoves
<1>1. CASE PendingBack \/ PendingQueue(key)
  BY <1>1, FallbackMoves DEF PendingBack, PendingQueue, TextMoves
<1>2. CASE PendingOvertaken(key)
  <2> DEFINE raw   == PendingRaw(buf, queue)
  <2> DEFINE known == IF key.k = "return" THEN Known(raw) ELSE "unknown"
  <2>1. /\ EndsWithDigit(raw) \in BOOLEAN /\ Known(raw) \in {"digit", "word", "unknown"}
        /\ Known(raw) = "digit" => EndsWithDigit(raw)
        /\ Known(raw) = "word" => ~EndsWithDigit(raw)
    BY KnownFits
  <2>2. /\ punct' = [punct EXCEPT ![focus].afterDigit = EndsWithDigit(raw)]
        /\ last' = [last EXCEPT ![focus] = known]
        /\ paired' = paired /\ focus \in IC
    BY <1>2 DEF PendingOvertaken, CoreType
  <2> HIDE DEF raw
  <2> QED
    BY <2>1, <2>2 DEF Corrects, TextMoves
<1>3. CASE UNCHANGED textVars
  BY <1>3 DEF TextMoves
<1> QED
  BY <1>1, <1>2, <1>3 DEF PendingKey

LEMMA StepText ==
  ASSUME CoreType, TextType, DigitKnown, Next
  PROVE  TextMoves
<1>1. CASE KeyEvent
  BY <1>1, ProcessText, PendingText DEF KeyEvent
<1>2. CASE Drain
  <2>1. Head(queue) \in Keys
    BY <1>2 DEF Drain, Draining, CoreType
  <2> QED
    BY <1>2, <2>1, ProcessText DEF Drain
<1>3. CASE Reply
  BY <1>3, FallbackMoves, CommitMoves DEF Reply, TextMoves
<1>4. CASE Preview \/ SetPageSize \/ Focus
  BY <1>4 DEF Preview, SetPageSize, Focus, TextMoves
<1>5. CASE Click \/ PendingTimeout
  BY <1>5, CommitMoves, FallbackMoves DEF Click, PendingTimeout
<1>6. CASE SwitchInputMethod
  <2>1. (buf # 0 /\ pending /\ EndsWithDigit(PendingRaw(buf, queue))) \in BOOLEAN
    OBVIOUS
  <2>2. focus \in IC
    BY DEF CoreType
  <2> QED
    BY <1>6, <2>1, <2>2 DEF SwitchInputMethod, Corrects, TextMoves
<1>7. CASE SurroundingText
  <2>1. PICK ic \in IC, digit \in BOOLEAN :
          /\ punct' = [punct EXCEPT ![ic].afterDigit = digit]
          /\ last' = [last EXCEPT ![ic] = IF digit THEN "digit" ELSE "word"]
          /\ paired' = paired
    BY <1>7 DEF SurroundingText
  <2>2. (IF digit THEN "digit" ELSE "word") \in {"digit", "word", "unknown"}
    OBVIOUS
  <2> QED
    BY <2>1, <2>2 DEF Corrects, TextMoves
<1> QED
  BY <1>1, <1>2, <1>3, <1>4, <1>5, <1>6, <1>7 DEF Next

----------------------------------------------------------------------------
(* The queue, and what is composed.                                        *)

Parts ==
  /\ buf' \in Nat /\ current' \in BOOLEAN
  /\ pending' \in BOOLEAN /\ queue' \in Seq(Keys) /\ Len(queue') < QueueLimit

\* No keys is few enough.
LEMMA EmptyQueue == <<>> \in Seq(Keys) /\ Len(<<>>) < QueueLimit
<1>1. Len(<<>>) = 0 /\ <<>> \in Seq(Keys)
  OBVIOUS
<1> QED
  BY <1>1, KeyboardAssumption

LEMMA ComposeParts ==
  ASSUME NEW rest \in Nat, Compose(rest)
  PROVE  buf' \in Nat /\ current' \in BOOLEAN
BY DEF Compose

LEMMA CommitParts ==
  ASSUME CoreType, CommitCandidate
  PROVE  buf' \in Nat /\ current' \in BOOLEAN
BY ComposeParts DEF CommitCandidate, CoreType

LEMMA FallbackParts ==
  ASSUME NEW length, NEW q, Fallback(length, q)
  PROVE  Parts
BY ComposeParts, EmptyQueue DEF Fallback, Parts

LEMMA ProcessParts ==
  ASSUME CoreType, NEW key \in Keys, NEW q \in Seq(Keys), Len(q) < QueueLimit, Process(key, q)
  PROVE  Parts
<1>1. CASE Handled(key) /\ pending' = FALSE /\ queue' = q
  <2>1. CASE LetterKey(key) \/ CapitalKey(key) \/ ArrowKey(key) \/ PageKey(key) \/ BackKey(key)
    <3>1. buf' \in Nat
      BY <2>1 DEF LetterKey, CapitalKey, ArrowKey, PageKey, BackKey, CoreType
    <3>2. current' \in BOOLEAN
      BY <2>1 DEF LetterKey, CapitalKey, ArrowKey, PageKey, BackKey, CoreType
    <3> QED
      BY <1>1, <3>1, <3>2 DEF Parts
  <2>2. CASE SymbolKey(key) \/ ReturnKey(key)
    BY <1>1, <2>2, ComposeParts DEF SymbolKey, SymbolAfter, ReturnKey, CoreType, Parts
  <2>3. CASE DigitPick(key)
    BY <1>1, <2>3, CommitParts DEF DigitPick, Parts
  <2> QED
    BY <1>1, <2>1, <2>2, <2>3 DEF Handled
<1>2. CASE SpaceKey(key, q)
  BY <1>2, CommitParts, FallbackParts DEF SpaceKey, CoreType, Parts
<1>3. CASE EscKey(key) /\ pending' = FALSE /\ queue' = <<>>
  BY <1>3, ComposeParts, EmptyQueue DEF EscKey, Parts
<1>4. CASE NotTaken(key) /\ pending' = FALSE /\ queue' = q
  BY <1>4 DEF NotTaken, Pass, CoreType, Parts
<1> QED
  BY <1>1, <1>2, <1>3, <1>4 DEF Process

LEMMA PendingParts ==
  ASSUME CoreType, NEW key \in Keys, PendingKey(key)
  PROVE  Parts
<1>1. CASE PendingBack
  <2>1. CASE queue # <<>> /\ queue' = SubSeq(queue, 1, Len(queue) - 1)
              /\ UNCHANGED <<buf, current, pending, textVars>>
    <3>1. queue \in Seq(Keys) /\ Len(queue) < QueueLimit /\ QueueLimit \in Nat
      BY KeyboardAssumption DEF CoreType
    <3>2. queue' \in Seq(Keys) /\ Len(queue') < QueueLimit
      BY <2>1, <3>1
    <3> QED
      BY <2>1, <3>2 DEF CoreType, Parts
  <2>2. CASE Fallback(0, <<>>)
    BY <2>2, FallbackParts
  <2>3. CASE buf > 1 /\ buf' = buf - 1 /\ current' = FALSE /\ UNCHANGED <<pending, queue>>
    <3>1. buf' \in Nat
      BY <2>3 DEF CoreType
    <3> QED
      BY <2>3, <3>1 DEF CoreType, Parts
  <2> QED
    BY <1>1, <2>1, <2>2, <2>3 DEF PendingBack
<1>2. CASE PendingQueue(key)
  BY <1>2, FallbackParts, KeyboardAssumption DEF PendingQueue, CoreType, Parts
<1>3. CASE PendingOvertaken(key)
  BY <1>3, ComposeParts, EmptyQueue DEF PendingOvertaken, Parts
<1>4. CASE Compose(0) /\ pending' = FALSE /\ queue' = <<>>
  BY <1>4, ComposeParts, EmptyQueue DEF Parts
<1> QED
  BY <1>1, <1>2, <1>3, <1>4 DEF PendingKey

LEMMA ClearParts ==
  ASSUME ClearAll
  PROVE  Parts
BY EmptyQueue DEF ClearAll, Parts

LEMMA StepCore ==
  ASSUME CoreType, Next
  PROVE  CoreType'
<1>1. CASE KeyEvent
  <2>1. Parts
    BY <1>1, ProcessParts, PendingParts, EmptyQueue DEF KeyEvent
  <2> QED
    BY <1>1, <2>1 DEF KeyEvent, envVars, CoreType, Parts
<1>2. CASE Drain
  <2>1. Head(queue) \in Keys /\ Tail(queue) \in Seq(Keys) /\ Len(Tail(queue)) < QueueLimit
    BY <1>2, KeyboardAssumption DEF Drain, Draining, CoreType
  <2>2. Parts
    BY <1>2, <2>1, ProcessParts DEF Drain
  <2> QED
    BY <1>2, <2>2 DEF Drain, envVars, CoreType, Parts
<1>3. CASE Reply
  <2>1. Parts
    BY <1>3, FallbackParts, CommitParts DEF Reply, CoreType, Parts
  <2> QED
    BY <1>3, <2>1 DEF Reply, envVars, CoreType, Parts
<1>4. CASE Preview
  BY <1>4 DEF Preview, envVars, CoreType
<1>5. CASE Click
  BY <1>5, CommitParts DEF Click, envVars, CoreType
<1>6. CASE PendingTimeout
  BY <1>6, FallbackParts DEF PendingTimeout, envVars, CoreType, Parts
<1>7. CASE SetPageSize
  BY <1>7 DEF SetPageSize, CoreType
<1>8. CASE Focus
  BY <1>8, ClearParts DEF Focus, CoreType, Parts
<1>9. CASE SwitchInputMethod
  BY <1>9, ClearParts DEF SwitchInputMethod, envVars, CoreType, Parts
<1>10. CASE SurroundingText
  BY <1>10 DEF SurroundingText, envVars, CoreType
<1> QED
  BY <1>1, <1>2, <1>3, <1>4, <1>5, <1>6, <1>7, <1>8, <1>9, <1>10 DEF Next

----------------------------------------------------------------------------
(* The theorems.                                                           *)

\* The invariant: types, a sound panel, the pairs of quotes, the digit before
\* the cursor.  It is inductive.
IInv == TypeOK /\ PanelSound /\ QuotesPair /\ DigitKnown

LEMMA InitInv == Init => IInv
<1> SUFFICES ASSUME Init PROVE IInv
  OBVIOUS
<1>1. CoreType
  BY EmptyQueue DEF Init, CoreType
<1>2. PageType /\ PanelSound
  BY DEF Init, PageType, PanelSound, NoPanel
<1>3. TextType
  BY DEF Init, TextType, NewPunctuation
<1>4. QuotesPair /\ DigitKnown
  BY DEF Init, QuotesPair, DigitKnown, NewPunctuation
<1> QED
  BY <1>1, <1>2, <1>3, <1>4, TypeParts DEF IInv

LEMMA NextInv == IInv /\ [Next]_vars => IInv'
<1> SUFFICES ASSUME IInv, [Next]_vars PROVE IInv'
  OBVIOUS
<1>1. CoreType /\ PageType /\ TextType /\ PanelSound /\ QuotesPair /\ DigitKnown
  BY TypeParts DEF IInv
<1>2. CASE Next
  <2>1. CoreType'
    BY <1>1, <1>2, StepCore
  <2>2. PageType' /\ PanelSound'
    BY <1>1, <1>2, StepMoves, MovesSound
  <2>3. TextType' /\ DigitKnown' /\ QuotesPair'
    BY <1>1, <1>2, StepText, TextFits
  <2> QED
    BY <2>1, <2>2, <2>3 DEF IInv, TypeOK, CoreType, PageType, TextType
<1>3. CASE UNCHANGED vars
  BY <1>1, <1>3 DEF vars, envVars, pageVars, textVars, IInv, TypeOK, CoreType, PageType,
     TextType, PanelSound, NoPanel, QuotesPair, DigitKnown
<1> QED
  BY <1>2, <1>3

\* Every reachable state of the keyboard satisfies the invariant.
THEOREM InvHolds == Spec => []IInv
BY InitInv, NextInv, PTL DEF Spec

\* The types of what the keyboard keeps, and that fewer keys than the limit wait
\* behind a pending Space (wetype.cpp:930).
THEOREM KeyboardTypeCorrect == Spec => []TypeOK
<1>1. IInv => TypeOK
  BY DEF IInv
<1> QED
  BY <1>1, InvHolds, PTL

\* The panel is always a page of the candidates with the selection on it, for
\* any page sizes, changed at any time (normalizePage, updateUI).
THEOREM PanelSoundHolds == Spec => []PanelSound
<1>1. IInv => PanelSound
  BY DEF IInv
<1> QED
  BY <1>1, InvHolds, PTL

\* Every candidate visible when a key is met can be selected by its label, and
\* the labels beyond the page select nothing (wetype.cpp:500-501).
THEOREM LabelsPickHolds == Spec => []LabelsPick
<1>1. IInv => LabelsPick
  BY SoundPicks, TypeParts DEF IInv
<1> QED
  BY <1>1, InvHolds, PTL

\* Chinese quotes pair up in each context (punctFor).
THEOREM QuotesPairHolds == Spec => []QuotesPair
<1>1. IInv => QuotesPair
  BY DEF IInv
<1> QED
  BY <1>1, InvHolds, PTL

\* What is remembered of a digit before the cursor is what was put there
\* (rememberTrailing).
THEOREM DigitKnownHolds == Spec => []DigitKnown
<1>1. IInv => DigitKnown
  BY DEF IInv
<1> QED
  BY <1>1, InvHolds, PTL
=============================================================================
