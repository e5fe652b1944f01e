------------------------------ MODULE Keyboard ------------------------------
(***************************************************************************)
(* The keyboard decoder: input/keyboard.c with input/keymap.c, driven one  *)
(* byte at a time by irq1_handler (kernel/keyboard_irq.c).                 *)
(*                                                                         *)
(* The keyboard is part of the model: it holds keys down, sends the one or *)
(* two bytes of scancode set 1 for every press and release, and repeats    *)
(* the press of a key that stays down.  What a typist means by the presses *)
(* is recorded beside it (locks, accent, wanted) and compared with what    *)
(* the decoder makes of the bytes.                                         *)
(***************************************************************************)
EXTENDS Keymap, Scancodes

CONSTANTS
    Keys,       \* the keys of the keyboard: [code, ext]
    Repeating,  \* those that repeat when held
    Hands,      \* typists: the keys one uses, and whether they are careful
    LayoutIds   \* layouts keymap_set_current is called with

ASSUME KeyboardAssumption ==
    /\ Keys \subseteq [code : 0 .. 95, ext : BOOLEAN]
    /\ Repeating \subseteq Keys
    /\ Hands \subseteq [keys : SUBSET Keys, careful : BOOLEAN]
    /\ LayoutIds \subseteq DOMAIN g_layouts

VARIABLES
    current_mods, pending_extended, g_current, g_active_dead,
    typed,     \* the last character irq1_handler pushed, 0 before the first
    reported,  \* keycodes whose last event was a press
    wire,      \* bytes the keyboard has sent and no interrupt has read yet
    hand,      \* the typist, who never lets keys overlap if careful
    down,      \* keys held down
    locks,     \* lock modifiers, as the presses of lock keys toggled them
    accent,    \* the dead key pressed last, until a character took it
    wanted     \* the last character the presses stand for

decoder == <<current_mods, pending_extended, g_active_dead, typed, reported>>
typist  == <<hand, down, locks, accent, wanted>>
keyboard_vars == <<decoder, g_current, wire, typist>>

KEY_NONE == "KEY_NONE"
PREFIX   == 224  \* 0xE0
HoldFlag ==
    [KEY_LEFT_SHIFT |-> SHIFT, KEY_RIGHT_SHIFT |-> SHIFT,
     KEY_LEFT_CTRL  |-> CTRL,  KEY_RIGHT_CTRL  |-> CTRL,
     KEY_LEFT_ALT   |-> ALT,   KEY_RIGHT_ALT   |-> ALTGR]
LockFlag ==
    [KEY_CAPS_LOCK |-> CAPS, KEY_NUM_LOCK |-> NUM, KEY_SCROLL_LOCK |-> SCROLL]

Toggle(s, x) == IF x \in s THEN s \ {x} ELSE s \cup {x}

-----------------------------------------------------------------------------
(* The decoder.                                                            *)

\* keyboard_keycode_from_set1
KeycodeFromSet1(scancode, extended) ==
    LET table == IF extended THEN set1_extended_table ELSE set1_table
        index == scancode % 128
    IN  IF index \in DOMAIN table THEN table[index] ELSE KEY_NONE

\* Mutant: a release switches every held modifier off.
UpdateModifier_ReleaseAll(mods, k, pressed) ==
    IF k \in DOMAIN HoldFlag
    THEN IF pressed THEN mods \cup {HoldFlag[k]} ELSE mods \cap {CAPS, NUM, SCROLL}
    ELSE IF k \in DOMAIN LockFlag /\ pressed THEN Toggle(mods, LockFlag[k]) ELSE mods

\* update_modifier
UpdateModifier(mods, k, pressed) ==
    IF k \in DOMAIN HoldFlag
    THEN IF pressed THEN mods \cup {HoldFlag[k]} ELSE mods \ {HoldFlag[k]}
    ELSE IF k \in DOMAIN LockFlag /\ pressed THEN Toggle(mods, LockFlag[k]) ELSE mods

\* The event keyboard_handle_set1_scancode fills in, and the character that
\* irq1_handler pushes for it: the code point cast to char.
Report(k, pressed) ==
    LET mods == UpdateModifier(current_mods, k, pressed)
        t    == Translate(g_current, g_active_dead, k, mods)
    IN  /\ current_mods' = mods
        /\ g_active_dead' = t.dead
        /\ reported' = IF pressed THEN reported \cup {k} ELSE reported \ {k}
        /\ typed' = IF pressed /\ t.codepoint # 0 THEN t.codepoint % 256 ELSE typed

\* Mutant: the prefix stays in force after a code no table knows.
HandleScancode_StalePrefix(scancode) ==
    IF scancode = PREFIX
    THEN /\ pending_extended' = TRUE
         /\ UNCHANGED <<current_mods, g_active_dead, typed, reported>>
    ELSE LET k == KeycodeFromSet1(scancode, pending_extended)
         IN  IF k = KEY_NONE
             THEN UNCHANGED decoder
             ELSE pending_extended' = FALSE /\ Report(k, scancode < 128)

\* keyboard_handle_set1_scancode
HandleScancode(scancode) ==
    IF scancode = PREFIX
    THEN /\ pending_extended' = TRUE
         /\ UNCHANGED <<current_mods, g_active_dead, typed, reported>>
    ELSE /\ pending_extended' = FALSE
         /\ LET k == KeycodeFromSet1(scancode, pending_extended)
            IN  IF k = KEY_NONE
                THEN UNCHANGED <<current_mods, g_active_dead, typed, reported>>
                ELSE Report(k, scancode < 128)

Irq1Handler ==
    /\ wire # <<>>
    /\ HandleScancode(Head(wire))
    /\ wire' = Tail(wire)
    /\ UNCHANGED <<g_current, typist>>

-----------------------------------------------------------------------------
(* The keyboard and the typist.                                            *)

KeyOf(key) == KeycodeFromSet1(key.code, key.ext)
HoldKeys  == {key \in Keys : KeyOf(key) \in DOMAIN HoldFlag}
Flag(key) == HoldFlag[KeyOf(key)]
HeldFlags == {Flag(key) : key \in down \cap HoldKeys}

Send(key, release) ==
    wire' = (IF key.ext THEN <<PREFIX>> ELSE <<>>) \o <<key.code + (IF release THEN 128 ELSE 0)>>

\* What the typist means by pressing key once more.
Means(key) ==
    LET t == Translate(g_current, accent, KeyOf(key), HeldFlags' \cup locks')
    IN  /\ accent' = t.dead
        /\ wanted' = IF t.codepoint # 0 THEN t.codepoint % 256 ELSE wanted

\* A careful typist presses a key only while at most modifiers are held, and
\* never both keys of one modifier.  A careless one does not care.
Press(key) ==
    /\ wire = <<>>
    /\ key \in hand.keys \ down
    /\ hand.careful => down \subseteq HoldKeys /\ (key \in HoldKeys => Flag(key) \notin HeldFlags)
    /\ down' = down \cup {key}
    /\ locks' = IF KeyOf(key) \in DOMAIN LockFlag THEN Toggle(locks, LockFlag[KeyOf(key)]) ELSE locks
    /\ Means(key)
    /\ Send(key, FALSE)
    /\ UNCHANGED <<decoder, g_current, hand>>

Repeat(key) ==
    /\ wire = <<>>
    /\ key \in down \cap Repeating
    /\ UNCHANGED <<hand, down, locks>>
    /\ Means(key)
    /\ Send(key, FALSE)
    /\ UNCHANGED <<decoder, g_current>>

\* A careful typist lets go of a modifier after the key it modified.
Release(key) ==
    /\ wire = <<>>
    /\ key \in down
    /\ hand.careful => key \notin HoldKeys \/ down \subseteq HoldKeys
    /\ down' = down \ {key}
    /\ Send(key, TRUE)
    /\ UNCHANGED <<decoder, g_current, hand, locks, accent, wanted>>

\* keymap_set_current with an id it accepts.
SetCurrent(id) ==
    /\ hand.careful => down = {} /\ wire = <<>>
    /\ g_current' = id
    /\ UNCHANGED <<decoder, wire, typist>>

\* The static initial values, which keyboard_init writes again.
KeyboardInit ==
    /\ current_mods = {}
    /\ pending_extended = FALSE
    /\ g_current = "QWERTY"
    /\ g_active_dead = 0
    /\ typed = 0
    /\ reported = {}
    /\ wire = <<>>
    /\ hand \in Hands
    /\ down = {}
    /\ locks = {}
    /\ accent = 0
    /\ wanted = 0

KeyboardNext ==
    \/ Irq1Handler
    \/ \E key \in Keys : Press(key) \/ Repeat(key) \/ Release(key)
    \/ \E id \in LayoutIds : SetCurrent(id)

KeyboardSpec == KeyboardInit /\ [][KeyboardNext]_keyboard_vars

-----------------------------------------------------------------------------
(* Properties.                                                             *)

\* Once the bytes are read, the keys whose last event was a press are the ones
\* held down: the 0xE0 prefix is never lost and never left over for the byte
\* of another key, also not by a code that neither table knows.
EventsMatchKeys ==
    wire = <<>> => reported = {KeyOf(key) : key \in down} \ {KEY_NONE}

\* No modifier is reported without a key of it being held: left and right
\* keys share a flag and two codes differ only in their prefix, yet a release
\* always finds the flag of its press.
NoStuckModifier ==
    wire = <<>> => current_mods \ {CAPS, NUM, SCROLL} \subseteq HeldFlags

\* Both of these, however the keys overlap: the decoder's view of which keys and
\* modifiers are down never drifts from the keyboard's.
FollowsKeys == EventsMatchKeys /\ NoStuckModifier

\* The characters pushed for sys_read, and the dead key that is pending, are
\* the ones a careful typist's presses stand for: modifiers, locks and a dead
\* key before its letter are all in place, and the releases, which
\* keymap_translate_keycode sees as well, add nothing.
TextFollowsPresses ==
    hand.careful /\ wire = <<>> => typed = wanted /\ g_active_dead = accent

\* keymap.c:27 says that dead keys combine with base characters: what is pushed
\* for a letter is its combination with the dead key pressed before it, if
\* there is one, however the presses and releases of the two overlap.
DeadKeyCombines == wire = <<>> => typed = wanted
=============================================================================
