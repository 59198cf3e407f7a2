\* Two input contexts: focus moves, one is destroyed, resets, the input method is switched,
\* a candidate is clicked, the addon unloaded; one death.
CONSTANTS
  a = a
  b = b
  i1 = i1
  i2 = i2
  NoIc = NoIc
  Boot = Boot
  Failed = Failed
  Letter <- ab
  IC <- TwoICs
  Line <- MCLine
  Handler <- MCHandler
  Text <- MCText
  Local <- MCLocal
  Keys <- ContextKeys
  Callbacks = {"reset", "focus", "close", "switch", "click", "destroy"}
  Answers <- WholeFirst
  SentSize = 3
  QueueLimit = 3
  MaxEvents = 3
  MaxCrashes = 1
  GiveUpAfter = 2
  ForkMayFail = FALSE
SPECIFICATION Spec
SYMMETRY Symmetry
INVARIANTS TypeOK EngineComesBack SpansFirst PreeditComplete ShownIsSelected ComposedInFocus NoProcessLeft
\* A behaviour ends when its events are used up and all is answered.
CHECK_DEADLOCK FALSE
