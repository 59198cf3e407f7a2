--------------------------- MODULE MCWeTypeEngine ---------------------------
(* Small instances of WeTypeEngine for TLC. *)
EXTENDS WeTypeProperties

CONSTANTS a, b, i1, i2   \* letters and input contexts

\* The sets of EngineProc, as this client uses it.
MCLine    == Command
MCHandler == Handlers
MCText    == Answer
MCLocal   == ClientTask

OneIC  == {i1}
TwoICs == {i1, i2}
ab     == {a, b}

Down(k, c) == [k |-> k, c |-> c, rel |-> FALSE]
Up(k, c)   == [k |-> k, c |-> c, rel |-> TRUE]

Letters(cs) == {Down("letter", c) : c \in cs}
Space == Down("space", 0)
Back  == Down("back", 0)
Esc   == Down("esc", 0)
Digit == Down("digit", 2)
Right == Down("next", 0)
Punct == Down("punct", 0)
Enter == Down("return", 0)
Ctrl  == Down("ctrl", 0)

Symmetry == Permutations({a, b})

\* Keys: typing, waiting and correcting; selecting; every kind of key
\* but punctuation, with a release; two contexts; one wait.
SpaceKeys == Letters({a, b}) \cup {Space, Back}
PickKeys  == Letters({a}) \cup {Digit}
PunctKeys == Letters({a, b}) \cup {Right, Punct}
EachKey   == Letters({a}) \cup {Up("letter", a), Space, Back, Esc, Digit, Right, Enter}
ContextKeys == Letters({a, b}) \cup {Space, Back, Punct, Ctrl}
WaitKeys  == Letters({a}) \cup {Space}

\* What a search may find: a candidate for the whole and one for the first
\* letter, in this order or the other; in some runs also nothing.
WholeFirst   == {<<9, 1>>}
PrefixFirst  == {<<1, 9>>}
PrefixOrNone == PrefixFirst \cup {<<>>}
============================================================================
