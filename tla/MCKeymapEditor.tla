--------------------------- MODULE MCKeymapEditor ---------------------------
(* A small instance of KeymapEditor for TLC: part of QMK's catalog, every    *)
(* label of the editor, and keycodes of every range describe_keycode knows.  *)
EXTENDS KeymapEditor

(* The names QMK gives a keycode, the one preferred_keycode_name takes first.*)
Names == <<
    <<0, "KC_NO">>, <<1, "KC_TRNS", "KC_TRANSPARENT">>, <<4, "KC_A">>, <<30, "KC_1">>,
    <<40, "KC_ENT", "KC_ENTER">>, <<41, "KC_ESC", "KC_ESCAPE">>, <<42, "KC_BSPC">>, <<43, "KC_TAB">>,
    <<44, "KC_SPC", "KC_SPACE">>, <<45, "KC_MINS">>, <<46, "KC_EQL">>, <<47, "KC_LBRC">>,
    <<48, "KC_RBRC">>, <<49, "KC_BSLS">>, <<51, "KC_SCLN">>, <<52, "KC_QUOT">>, <<53, "KC_GRV">>,
    <<54, "KC_COMM">>, <<55, "KC_DOT">>, <<56, "KC_SLSH">>, <<57, "KC_CAPS">>, <<58, "KC_F1">>,
    <<73, "KC_INS">>, <<74, "KC_HOME">>, <<75, "KC_PGUP">>, <<76, "KC_DEL">>, <<77, "KC_END">>,
    <<78, "KC_PGDN">>, <<79, "KC_RGHT", "KC_RIGHT">>, <<80, "KC_LEFT">>, <<81, "KC_DOWN">>,
    <<82, "KC_UP">>, <<101, "KC_APP">>, <<118, "KC_MENU">>, <<121, "KC_AGIN", "KC_AGAIN">>,
    <<122, "KC_UNDO">>, <<168, "KC_MUTE">>, <<169, "KC_VOLU">>, <<170, "KC_VOLD">>,
    <<171, "KC_MNXT">>, <<172, "KC_MPRV">>, <<174, "KC_MPLY">>,
    <<224, "KC_LCTL">>, <<225, "KC_LSFT">>, <<226, "KC_LALT">>, <<227, "KC_LGUI">>,
    <<228, "KC_RCTL">>, <<229, "KC_RSFT", "KC_RIGHT_SHIFT">>, <<230, "KC_RALT">>, <<231, "KC_RGUI">>,
    <<542, "KC_EXLM">>, <<543, "KC_AT">>, <<544, "KC_HASH">>, <<545, "KC_DLR">>, <<546, "KC_PERC">>,
    <<547, "KC_CIRC">>, <<548, "KC_AMPR">>, <<549, "KC_ASTR">>, <<550, "KC_LPRN">>, <<551, "KC_RPRN">>,
    <<557, "KC_UNDS">>, <<558, "KC_PLUS">>, <<559, "KC_LCBR">>, <<560, "KC_RCBR">>, <<561, "KC_PIPE">>,
    <<563, "KC_COLN">>, <<564, "KC_DQUO">>, <<565, "KC_TILD">>, <<566, "KC_LT">>, <<567, "KC_GT">>,
    <<568, "KC_QUES">>, <<28928, "MI_C">>, <<31744, "QK_BOOT">>>>

TheWord == STRING
Catalog == UNION {{<<Names[i][j], Names[i][1], j>> : j \in 2 .. Len(Names[i])} : i \in DOMAIN Names}
TheCode == [n \in {c[1] : c \in Catalog} |-> (CHOOSE c \in Catalog : c[1] = n)[2]]
TheRank == [n \in {c[1] : c \in Catalog} |-> (CHOOSE c \in Catalog : c[1] = n)[3]]

One(x, y) == [a \in {x} |-> y]
TheNumber == [a \in {"1", "16"} |-> IF a = "1" THEN 1 ELSE 16]
TheAlnum == [a \in {"A", "1", "F1"} |-> CASE a = "A" -> "KC_A" [] a = "1" -> "KC_1" [] OTHER -> "KC_F1"]
TheIdentifier == [n \in {"Base", "Nav", "_NAV"} |-> IF n = "Base" THEN "_BASE" ELSE IF n = "Nav" THEN "_NAV" ELSE "__NAV"]
TheLayerId == {"_BASE", "_NAV", "_FN", "__NAV", "_OTHER"}
ThePrefixed == (DOMAIN TheCode \ {"MI_C"}) \cup {"KC_REDO"}

(* Layers as the repository names them, under an id of another's name, and   *)
(* under an id the editor would not make.                                    *)
Layer(id, name, x) == [id |-> id, name |-> name, keys |-> [k \in Key |-> x]]
Two(text) == <<Layer("_BASE", "Base", text), Layer("_NAV", "Nav", Plain("KC_TRNS"))>>
Crossed == <<Layer("_NAV", "Base", Plain("KC_A")), Layer("_FN", "Nav", Plain("KC_TRNS"))>>
Claimed == <<Layer("_NAV", "Base", Plain("KC_A")), Layer("_FN", "_NAV", Plain("KC_TRNS"))>>

Calls == {Call(f, h, x) : f \in DOMAIN ModTapOf, h \in {{}, {"_NAV"}}, x \in {"KC_A", "KC_RSFT", "KC_EXLM"}}
    \cup {Call("MT", m, "KC_SPC") : m \in {{"MOD_LCTL"}, {"MOD_RALT"}, {"MOD_LCTL", "MOD_LSFT"}}}
    \cup {Call(f, {ref}, x) : f \in {"LT", "MO", "TO"}, ref \in {"_NAV", "Nav", "1", "16", "_OTHER"},
                             x \in {"", "KC_ENT", "KC_MENU"}}
Texts == {Plain(x) : x \in Aliases \cup DOMAIN TheAlnum \cup ThePrefixed \cup {"MI_C", "Nav", "Base"}} \cup Calls

Codes == {TheCode[n] : n \in {"KC_NO", "KC_A", "KC_ESC", "KC_RGHT", "KC_AGIN", "KC_RSFT", "KC_EXLM",
                              "MI_C", "QK_BOOT"}} \cup {200}          \* 200 is no QMK name
    \cup {20992, 20993, 21002, 21024, 21025, 21040}                   \* TO and MO
    \cup {16384 + 256 * l + 4 : l \in {0, 1, 2}} \cup {16384 + 200}   \* LT
    \cup {8192 + 256 * m + 229 : m \in {0, 1, 2, 4, 8, 9, 15, 16, 17, 18, 20, 24, 31}}   \* MT

Config(layers) == [layers |-> layers, quick |-> 1, tapping |-> 2, macros |-> <<>>]
Keyboard(code, buffer) ==
    [keys |-> [l \in 1 .. LayerCount |-> [k \in Key |-> IF l = 1 THEN code ELSE 1]], buffer |-> buffer]
Buffers == {<<a, b, c>> : a, b, c \in {0, 65}}

Start(layers, code, buffer, n, m) ==
    [config |-> Config(layers), keyboard |-> Keyboard(code, buffer), inputs |-> n, snapshots |-> m]
TheStarts ==
    {Start(Two(text), 4, <<0, 0, 0>>, 0, 0) : text \in Texts}
    \cup {Start(Two(Plain("KC_A")), code, <<65, 0, 0>>, 0, 1) : code \in Codes}
    \cup {Start(Two(Plain("KC_A")), 4, buffer, 0, 1) : buffer \in Buffers}
    \cup {Start(layers, 21024, <<0, 65, 0>>, 0, 1) : layers \in {Crossed, Claimed}}
    \cup {Start(Two(Plain("KC_A")), 21024, <<0, 0, 0>>, MaxInputs, 1)}

TheTyped == {Plain("Nav"), Plain("foo"), Call("LCTL_T", {}, "KC_RSFT")}
=============================================================================
