------------------------------- MODULE Keymap -------------------------------
(***************************************************************************)
(* input/keymap.c: from a keycode, the modifiers, the layout and a pending *)
(* dead key to a code point.                                               *)
(***************************************************************************)
EXTENDS Layouts

SHIFT == "SHIFT"
CTRL  == "CTRL"
ALT   == "ALT"
ALTGR == "ALTGR"
CAPS  == "CAPS"
NUM   == "NUM"
SCROLL == "SCROLL"

\* The column of an entry that the modifiers select.
Column(e, mods) ==
    IF ALTGR \in mods
    THEN IF SHIFT \in mods THEN "shift_altgr" ELSE "altgr"
    ELSE IF (SHIFT \in mods) # (e.alpha /\ CAPS \in mods) THEN "shift" ELSE "normal"

\* keymap_compose, 0 when the table has no such pair.
KeymapCompose(dead, base) ==
    LET hits == {c \in g_compose_table : c[1] = dead /\ c[2] = base}
    IN  IF hits = {} THEN 0 ELSE (CHOOSE c \in hits : TRUE)[3]

\* keymap_translate_keycode: the code point (0: no text) and the new value of
\* g_active_dead.  A keycode the layout leaves empty changes nothing.
Translate(layout, active, k, mods) ==
    IF k \notin DOMAIN g_layouts[layout]
    THEN [codepoint |-> 0, dead |-> active]
    ELSE LET e        == g_layouts[layout][k]
             cp       == e[Column(e, mods)]
             combined == KeymapCompose(active, cp)
         IN  IF cp = 0
             THEN [codepoint |-> 0, dead |-> active]
             ELSE IF Column(e, mods) \in e.dead
                  THEN [codepoint |-> 0, dead |-> cp]
                  ELSE [codepoint |-> IF active # 0 /\ combined # 0 THEN combined ELSE cp,
                        dead      |-> 0]
=============================================================================
