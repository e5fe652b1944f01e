----------------------------- MODULE MCKeyboard -----------------------------
(* Every key of both scancode tables is somebody's: a careful typist uses  *)
(* it with Shift, AltGr and Caps Lock, on every layout.  Others use dead   *)
(* keys and letters, or let the modifiers overlap as they like.            *)
EXTENDS Keyboard

Plain(c) == [code |-> c, ext |-> FALSE]
Prefixed(c) == [code |-> c, ext |-> TRUE]
LShift == Plain(42)
RShift == Plain(54)
LAlt == Plain(56)
RAlt == Prefixed(56)
Caps == Plain(58)
LetterE == Plain(18)
Bracket == Plain(26)    \* a dead key on AZERTY
EqualSign == Plain(13)  \* and one on QWERTZ

\* 42 with a prefix is a code only the unprefixed table knows.
MCKeys == {Plain(c) : c \in DOMAIN set1_table}
          \cup {Prefixed(c) : c \in DOMAIN set1_extended_table \cup {42}}
MCRepeating == {LetterE, Bracket, LShift}
MCHands ==
    {[keys |-> {k, LShift, RAlt, Caps}, careful |-> TRUE] : k \in MCKeys}
    \cup {[keys |-> {LetterE, Bracket, EqualSign, RShift}, careful |-> TRUE],
          [keys |-> {LetterE, LShift, RShift, LAlt, RAlt, Prefixed(42)}, careful |-> FALSE]}
MCRolledOver == {[keys |-> {LetterE, Bracket}, careful |-> FALSE]}
=============================================================================
