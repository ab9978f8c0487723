----------------------------- MODULE KeyLabels -----------------------------
(* What the keymap editor makes of a key text: the legend it shows, the      *)
(* keycode it writes for a legend, and its tap-hold entries.  The legends of *)
(* one capital, digit or function key are those of Alnum, "F1" to "F24"      *)
(* included; the labels that are one backquote, comma, semicolon, quotation  *)
(* mark, brace and underscore are written "grave", "comma" and so on.        *)
EXTENDS Keycodes

CONSTANTS
    Alnum,       \* the KC_ name of each capital, digit and function key
    Prefixed,    \* the texts that start with KC_ or QK_, known to QMK or not
    Identifier   \* the identifier qmk_layer_identifier makes of each name

LayerName == DOMAIN Identifier

Legends == {
    <<"KC_TRNS", "___">>, <<"KC_NO", "---">>, <<"KC_ESC", "Esc">>, <<"KC_TAB", "Tab">>,
    <<"KC_LCTL", "Ctrl">>, <<"KC_RCTL", "Ctrl">>, <<"KC_LSFT", "Shift">>,
    <<"KC_RSFT", "Shift">>, <<"KC_LALT", "Alt">>, <<"KC_RALT", "Alt">>,
    <<"KC_LGUI", "GUI">>, <<"KC_RGUI", "GUI">>, <<"KC_BSPC", "Bspc">>,
    <<"KC_SPC", "Space">>, <<"KC_ENT", "Enter">>, <<"KC_DEL", "Del">>, <<"KC_INS", "Ins">>,
    <<"KC_HOME", "Home">>, <<"KC_END", "End">>, <<"KC_PGUP", "PgUp">>,
    <<"KC_PGDN", "PgDn">>, <<"KC_LEFT", "Left">>, <<"KC_DOWN", "Down">>, <<"KC_UP", "Up">>,
    <<"KC_RGHT", "Right">>, <<"KC_RIGHT", "Right">>, <<"KC_COMM", "comma">>, <<"KC_DOT", ".">>,
    <<"KC_SLSH", "/">>, <<"KC_MINS", "-">>, <<"KC_QUOT", "'">>, <<"KC_SCLN", "semicolon">>,
    <<"KC_GRV", "grave">>, <<"KC_BSLS", "\\">>, <<"KC_LBRC", "[">>, <<"KC_RBRC", "]">>,
    <<"KC_EQL", "=">>, <<"KC_EXLM", "!">>, <<"KC_AT", "@">>, <<"KC_HASH", "#">>,
    <<"KC_DLR", "$">>, <<"KC_PERC", "%">>, <<"KC_CIRC", "^">>, <<"KC_AMPR", "&">>,
    <<"KC_ASTR", "*">>, <<"KC_LPRN", "(">>, <<"KC_RPRN", ")">>, <<"KC_UNDS", "underscore">>,
    <<"KC_PLUS", "+">>, <<"KC_LCBR", "lbrace">>, <<"KC_RCBR", "rbrace">>, <<"KC_PIPE", "|">>,
    <<"KC_COLN", ":">>, <<"KC_DQUO", "quote">>, <<"KC_LT", "<">>, <<"KC_GT", ">">>,
    <<"KC_QUES", "?">>, <<"KC_TILD", "~">>, <<"KC_CAPS", "Caps">>, <<"KC_APP", "Menu">>,
    <<"KC_MENU", "Menu">>, <<"KC_MUTE", "Mute">>, <<"KC_VOLD", "Vol-">>,
    <<"KC_VOLU", "Vol+">>, <<"KC_MPRV", "Prev">>, <<"KC_MNXT", "Next">>,
    <<"KC_MPLY", "Play">>, <<"KC_UNDO", "Undo">>, <<"KC_AGIN", "Redo">>,
    <<"KC_AGAIN", "Redo">>, <<"KC_REDO", "Redo">>, <<"QK_BOOT", "Boot">>}

Taps == {
    <<"___", "KC_TRNS">>, <<"TRNS", "KC_TRNS">>, <<"---", "KC_NO">>, <<"NO", "KC_NO">>,
    <<"Esc", "KC_ESC">>, <<"Tab", "KC_TAB">>, <<"Ctrl", "KC_LCTL">>, <<"Shift", "KC_LSFT">>,
    <<"GUI", "KC_LGUI">>, <<"Alt", "KC_LALT">>, <<"Space", "KC_SPC">>, <<"Enter", "KC_ENT">>,
    <<"Bspc", "KC_BSPC">>, <<"Del", "KC_DEL">>, <<"Ins", "KC_INS">>, <<"Home", "KC_HOME">>,
    <<"End", "KC_END">>, <<"PgUp", "KC_PGUP">>, <<"PgDn", "KC_PGDN">>, <<"Left", "KC_LEFT">>,
    <<"Down", "KC_DOWN">>, <<"Up", "KC_UP">>, <<"Right", "KC_RGHT">>, <<"Caps", "KC_CAPS">>,
    <<"Menu", "KC_APP">>, <<"Mute", "KC_MUTE">>, <<"Vol-", "KC_VOLD">>, <<"Vol+", "KC_VOLU">>,
    <<"Prev", "KC_MPRV">>, <<"Next", "KC_MNXT">>, <<"Play", "KC_MPLY">>, <<"comma", "KC_COMM">>,
    <<".", "KC_DOT">>, <<"/", "KC_SLSH">>, <<"-", "KC_MINS">>, <<"'", "KC_QUOT">>,
    <<"semicolon", "KC_SCLN">>, <<"grave", "KC_GRV">>, <<"\\", "KC_BSLS">>, <<"[", "KC_LBRC">>,
    <<"]", "KC_RBRC">>, <<"=", "KC_EQL">>}

Symbols == {
    <<"!", "KC_EXLM">>, <<"@", "KC_AT">>, <<"#", "KC_HASH">>, <<"$", "KC_DLR">>,
    <<"%", "KC_PERC">>, <<"^", "KC_CIRC">>, <<"&", "KC_AMPR">>, <<"*", "KC_ASTR">>,
    <<"(", "KC_LPRN">>, <<")", "KC_RPRN">>, <<"underscore", "KC_UNDS">>, <<"+", "KC_PLUS">>,
    <<"lbrace", "KC_LCBR">>, <<"rbrace", "KC_RCBR">>, <<"|", "KC_PIPE">>, <<":", "KC_COLN">>,
    <<"quote", "KC_DQUO">>, <<"<", "KC_LT">>, <<">", "KC_GT">>, <<"?", "KC_QUES">>,
    <<"~", "KC_TILD">>, <<"Boot", "QK_BOOT">>}

Aliases == {p[1] : p \in Taps \cup Symbols}
Letters == {Alnum[a] : a \in DOMAIN Alnum}
Written == {p[2] : p \in Taps \cup Symbols} \cup Letters

(* A letter is written for one label, and is not in the tables.  A text that *)
(* begins with KC_ is no label and no identifier, and QMK knows the keycodes *)
(* the editor writes by these names, and no keycode by a label.              *)
ASSUME LabelAssumption ==
    /\ Legends \cup Taps \cup Symbols \subseteq Word \X Word
    /\ DOMAIN Alnum \subseteq Word /\ Alnum \in [DOMAIN Alnum -> Word]
    /\ \A a, b \in DOMAIN Alnum : Alnum[a] = Alnum[b] => a = b
    /\ Letters \cap {p[1] : p \in Legends} = {}
    /\ DOMAIN Alnum \cap Aliases = {}
    /\ Prefixed \subseteq Word /\ Prefixed \cap (Aliases \cup DOMAIN Alnum \cup {p[2] : p \in Legends}) = {}
    /\ Written \subseteq Name /\ Name \cap (Aliases \cup DOMAIN Alnum) = {}
    /\ LayerId \cap (Prefixed \cup {"("}) = {}
    /\ LayerName \subseteq Word /\ Identifier \in [LayerName -> LayerId]

Find(x, table, default) ==
    LET rows == {p \in table : p[1] = x} IN IF rows = {} THEN default ELSE (CHOOSE p \in rows : TRUE)[2]

(* qmk_tap_to_label *)
Legend(x) ==
    IF \E a \in DOMAIN Alnum : Alnum[a] = x THEN CHOOSE a \in DOMAIN Alnum : Alnum[a] = x
    ELSE Find(x, Legends, x)

(* tap_label_to_qmk: Empty when there is no basic keycode for the label.  A  *)
(* KC_ name is taken by way of its legend.                                   *)
TapCode(x) ==
    LET direct(y) == IF y \in DOMAIN Alnum THEN Alnum[y] ELSE Find(y, Taps, Empty)
    IN  IF direct(x) = Empty /\ x \in Prefixed THEN direct(Legend(x)) ELSE direct(x)

NamesOf(layers) == {layers[i].name : i \in DOMAIN layers}

ValidLabel(text, layers) ==
    IF text.call = "plain"
    THEN text.tap \in NamesOf(layers) \cup Aliases \cup DOMAIN Alnum \cup Prefixed
    ELSE Cardinality(text.hold) <= 1      \* is_function_call knows no "|"

(* A mutated form: KC_ and QK_ names are rewritten like labels.             *)
CanonicalNormalised(text, layers) ==
    IF text.call # "plain" \/ text.tap = "(" THEN text
    ELSE IF text.tap \in NamesOf(layers) THEN Call("MO", {Identifier[text.tap]}, Empty)
    ELSE IF TapCode(text.tap) # Empty THEN Plain(TapCode(text.tap))
    ELSE Plain(Find(text.tap, Symbols, text.tap))

(* canonical_key: any text with a "(" is kept, the label "(" included.      *)
Canonical(text, layers) ==
    IF text.call # "plain" \/ text.tap \in Prefixed \cup {"("} THEN text
    ELSE IF text.tap \in NamesOf(layers) THEN Call("MO", {Identifier[text.tap]}, Empty)
    ELSE IF TapCode(text.tap) # Empty THEN Plain(TapCode(text.tap))
    ELSE Plain(Find(text.tap, Symbols, text.tap))

-----------------------------------------------------------------------------
(* The hold list of the tap-hold editor: 0 is "None", then the four          *)
(* modifiers, then the first sixteen layers.                                 *)
Modifiers == <<[label |-> "Ctrl", call |-> "LCTL_T", mod |-> "MOD_LCTL"],
               [label |-> "Shift", call |-> "LSFT_T", mod |-> "MOD_LSFT"],
               [label |-> "Alt", call |-> "LALT_T", mod |-> "MOD_LALT"],
               [label |-> "GUI", call |-> "LGUI_T", mod |-> "MOD_LGUI"]>>
FirstLayer == Len(Modifiers) + 1
LayersListed == 16

FirstOf(S) == IF S = {} THEN 0 ELSE CHOOSE i \in S : \A j \in S : i <= j

(* parse_mod_tap: which modifier of the list a text holds, 0 for none.      *)
HeldModifier(text) ==
    FirstOf({m \in DOMAIN Modifiers :
                \/ text.call = Modifiers[m].call
                \/ text.call = "MT" /\ text.hold = {Modifiers[m].mod}})

(* parse_layer_tap takes a number below 16 or an identifier.                *)
IsLayerTap(text) ==
    /\ text.call = "LT"
    /\ \A ref \in text.hold :
          IF ref \in DOMAIN Number THEN Number[ref] < LayersListed ELSE ref \in LayerId

ListedLayer(ref, layers) ==
    IF ref \in DOMAIN Number
    THEN IF Number[ref] + 1 \in DOMAIN layers THEN Number[ref] + 1 ELSE 0
    ELSE FirstOf({i \in DOMAIN layers : i <= LayersListed /\ Identifier[layers[i].name] = ref})

HoldOfLayer(i) == IF i = 0 THEN 0 ELSE FirstLayer + i - 1

(* refresh_tap_hold_editor: what the tap entry and the hold list show of a   *)
(* key.                                                                      *)
TapHoldOf(text, layers) ==
    LET plainModifier == FirstOf({m \in DOMAIN Modifiers : text = Plain(Modifiers[m].label)})
        plainLayer == FirstOf({i \in DOMAIN layers : text = Plain(layers[i].name)})
    IN  IF HeldModifier(text) # 0
        THEN [tap |-> Plain(Legend(text.tap)), hold |-> HeldModifier(text)]
        ELSE IF IsLayerTap(text)
        THEN [tap |-> Plain(Legend(text.tap)),
              hold |-> HoldOfLayer(ListedLayer(CHOOSE ref \in text.hold : TRUE, layers))]
        ELSE IF plainModifier # 0 THEN [tap |-> Plain(Empty), hold |-> plainModifier]
        ELSE IF plainLayer \in 1 .. LayersListed
        THEN [tap |-> Plain(Empty), hold |-> HoldOfLayer(plainLayer)]
        ELSE [tap |-> text, hold |-> 0]

(* A mutated form: the hold list counts from its "None".                    *)
AssignedOneOff(tap, hold, layers) ==
    IF tap = Plain(Empty) \/ ~ValidLabel(tap, layers) THEN NoText
    ELSE IF hold <= 0 THEN tap
    ELSE IF tap.call # "plain" \/ TapCode(tap.tap) = Empty THEN NoText
    ELSE IF hold < FirstLayer THEN Call(Modifiers[hold].call, {}, TapCode(tap.tap))
    ELSE IF hold - FirstLayer \notin DOMAIN layers THEN NoText
    ELSE Call("LT", {Identifier[layers[hold - FirstLayer].name]}, TapCode(tap.tap))

(* on_apply_tap_hold: the text it gives the key, NoText when it refuses.    *)
Assigned(tap, hold, layers) ==
    IF tap = Plain(Empty) \/ ~ValidLabel(tap, layers) THEN NoText
    ELSE IF hold <= 0 THEN tap
    ELSE IF tap.call # "plain" \/ TapCode(tap.tap) = Empty THEN NoText
    ELSE IF hold < FirstLayer THEN Call(Modifiers[hold].call, {}, TapCode(tap.tap))
    ELSE IF hold - FirstLayer + 1 \notin DOMAIN layers THEN NoText
    ELSE Call("LT", {Identifier[layers[hold - FirstLayer + 1].name]}, TapCode(tap.tap))
=============================================================================
