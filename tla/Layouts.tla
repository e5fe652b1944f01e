------------------------------ MODULE Layouts ------------------------------
(***************************************************************************)
(* The layout and compose tables of input/keymap.c.  A layout is its       *)
(* columns over the keycodes of MainKeys, with the rest of keymap_entry_t  *)
(* told by rules the tables follow: alpha is set exactly for the lower     *)
(* case letters of Alpha, shift_altgr is never used, and the keypad, where *)
(* a layout has one, types the same in both columns.  Code points are      *)
(* numbers.                                                                *)
(***************************************************************************)
EXTENDS Integers, Sequences

MainKeys ==
    << "KEY_1", "KEY_2", "KEY_3", "KEY_4", "KEY_5", "KEY_6", "KEY_7", "KEY_8", "KEY_9",
       "KEY_0", "KEY_MINUS", "KEY_EQUAL", "KEY_Q", "KEY_W", "KEY_E", "KEY_R", "KEY_T",
       "KEY_Y", "KEY_U", "KEY_I", "KEY_O", "KEY_P", "KEY_LBRACKET", "KEY_RBRACKET",
       "KEY_A", "KEY_S", "KEY_D", "KEY_F", "KEY_G", "KEY_H", "KEY_J", "KEY_K", "KEY_L",
       "KEY_SEMICOLON", "KEY_APOSTROPHE", "KEY_GRAVE", "KEY_BACKSLASH", "KEY_Z", "KEY_X",
       "KEY_C", "KEY_V", "KEY_B", "KEY_N", "KEY_M", "KEY_COMMA", "KEY_DOT", "KEY_SLASH",
       "KEY_SPACE" >>
KeypadKeys ==
    << "KEY_KP_SLASH", "KEY_KP_STAR", "KEY_KP_MINUS", "KEY_KP_PLUS", "KEY_KP_DOT",
       "KEY_KP_0", "KEY_KP_1", "KEY_KP_2", "KEY_KP_3", "KEY_KP_4", "KEY_KP_5", "KEY_KP_6",
       "KEY_KP_7", "KEY_KP_8", "KEY_KP_9" >>
Keypad == << 47, 42, 45, 43, 46, 48, 49, 50, 51, 52, 53, 54, 55, 56, 57 >>

Alpha == 97 .. 122 \cup {228, 246, 252}
Position(k, keys) == CHOOSE i \in DOMAIN keys : keys[i] = k
Listed(keys) == {keys[i] : i \in DOMAIN keys}
None == [k \in {} |-> 0]

\* The entries of a layout, from its columns: altgr gives the third one, dead
\* the keycodes with the columns marked in dead_mask.
Entries(columns, keypad) ==
    [k \in Listed(MainKeys) \cup (IF keypad THEN Listed(KeypadKeys) ELSE {}) |->
        LET main == k \in Listed(MainKeys)
            i == IF main THEN Position(k, MainKeys) ELSE Position(k, KeypadKeys)
        IN  [normal |-> IF main THEN columns.normal[i] ELSE Keypad[i],
             shift  |-> IF main THEN columns.shift[i] ELSE Keypad[i],
             altgr  |-> IF k \in DOMAIN columns.altgr THEN columns.altgr[k] ELSE 0,
             shift_altgr |-> 0,
             dead   |-> IF k \in DOMAIN columns.dead THEN columns.dead[k] ELSE {},
             alpha  |-> main /\ columns.normal[i] \in Alpha]]

qwerty_columns ==
    [normal |->
        << 49, 50, 51, 52, 53, 54, 55, 56, 57, 48, 45, 61, 113, 119, 101, 114, 116, 121, 117,
           105, 111, 112, 91, 93, 97, 115, 100, 102, 103, 104, 106, 107, 108, 59, 39, 96, 92,
           122, 120, 99, 118, 98, 110, 109, 44, 46, 47, 32 >>,
     shift |->
        << 33, 64, 35, 36, 37, 94, 38, 42, 40, 41, 95, 43, 81, 87, 69, 82, 84, 89, 85, 73, 79,
           80, 123, 125, 65, 83, 68, 70, 71, 72, 74, 75, 76, 58, 34, 126, 124, 90, 88, 67, 86,
           66, 78, 77, 60, 62, 63, 32 >>,
     altgr |-> None, dead |-> None]
layout_qwerty == Entries(qwerty_columns, TRUE)

azerty_columns ==
    [normal |->
        << 38, 233, 34, 39, 40, 45, 232, 95, 231, 224, 41, 61, 97, 122, 101, 114, 116, 121,
           117, 105, 111, 112, 94, 36, 113, 115, 100, 102, 103, 104, 106, 107, 108, 109, 249,
           178, 42, 119, 120, 99, 118, 98, 110, 44, 59, 58, 33, 32 >>,
     shift |->
        << 49, 50, 51, 52, 53, 54, 55, 56, 57, 48, 176, 43, 65, 90, 69, 82, 84, 89, 85, 73, 79,
           80, 168, 163, 81, 83, 68, 70, 71, 72, 74, 75, 76, 77, 37, 0, 181, 87, 88, 67, 86,
           66, 78, 63, 46, 47, 167, 32 >>,
     altgr |->
        [KEY_2 |-> 126, KEY_3 |-> 35, KEY_4 |-> 123, KEY_5 |-> 91, KEY_6 |-> 124, KEY_7 |->
         96, KEY_8 |-> 92, KEY_9 |-> 94, KEY_0 |-> 64, KEY_MINUS |-> 93, KEY_EQUAL |-> 125,
         KEY_E |-> 8364],
     dead |-> [KEY_LBRACKET |-> {"normal", "shift"}]]
layout_azerty == Entries(azerty_columns, TRUE)

qwertz_columns ==
    [normal |->
        << 49, 50, 51, 52, 53, 54, 55, 56, 57, 48, 223, 180, 113, 119, 101, 114, 116, 122, 117,
           105, 111, 112, 252, 43, 97, 115, 100, 102, 103, 104, 106, 107, 108, 246, 228, 94,
           35, 121, 120, 99, 118, 98, 110, 109, 44, 46, 45, 32 >>,
     shift |->
        << 33, 34, 167, 36, 37, 38, 47, 40, 41, 61, 63, 96, 81, 87, 69, 82, 84, 90, 85, 73, 79,
           80, 220, 42, 65, 83, 68, 70, 71, 72, 74, 75, 76, 214, 196, 176, 39, 89, 88, 67, 86,
           66, 78, 77, 59, 58, 95, 32 >>,
     altgr |->
        [KEY_2 |-> 178, KEY_3 |-> 179, KEY_7 |-> 123, KEY_8 |-> 91, KEY_9 |-> 93, KEY_0 |->
         125, KEY_MINUS |-> 92, KEY_Q |-> 64, KEY_E |-> 8364, KEY_RBRACKET |-> 126],
     dead |-> [KEY_EQUAL |-> {"normal"}, KEY_GRAVE |-> {"normal"}]]
layout_qwertz == Entries(qwertz_columns, TRUE)

dvorak_columns ==
    [normal |->
        << 49, 50, 51, 52, 53, 54, 55, 56, 57, 48, 91, 93, 39, 44, 46, 112, 121, 102, 103, 99,
           114, 108, 47, 61, 97, 111, 101, 117, 105, 100, 104, 116, 110, 115, 45, 96, 92, 59,
           113, 106, 107, 120, 98, 109, 119, 118, 122, 32 >>,
     shift |->
        << 33, 64, 35, 36, 37, 94, 38, 42, 40, 41, 123, 125, 34, 60, 62, 80, 89, 70, 71, 67,
           82, 76, 63, 43, 65, 79, 69, 85, 73, 68, 72, 84, 78, 83, 95, 126, 124, 58, 81, 74,
           75, 88, 66, 77, 87, 86, 90, 32 >>,
     altgr |-> None, dead |-> None]
layout_dvorak == Entries(dvorak_columns, FALSE)

g_layouts == [QWERTY |-> layout_qwerty, AZERTY |-> layout_azerty,
              QWERTZ |-> layout_qwertz, DVORAK |-> layout_dvorak]

\* One dead key's rows: its bases and what they become.
Composed(dead, bases, results) == {<<dead, bases[i], results[i]>> : i \in DOMAIN bases}
g_compose_table ==
    UNION {
        Composed(94, <<97, 101, 105, 111, 117, 65, 69, 73, 79, 85>>,
            <<226, 234, 238, 244, 251, 194, 202, 206, 212, 219>>),
        Composed(168, <<97, 101, 105, 111, 117, 121, 65, 69, 73, 79, 85>>,
            <<228, 235, 239, 246, 252, 255, 196, 203, 207, 214, 220>>),
        Composed(180, <<97, 101, 105, 111, 117, 65, 69, 73, 79, 85>>,
            <<225, 233, 237, 243, 250, 193, 201, 205, 211, 218>>),
        Composed(96, <<97, 101, 105, 111, 117>>,
            <<224, 232, 236, 242, 249>>) }
=============================================================================
