------------------------------ MODULE Keycodes ------------------------------
(* Key texts and the 16-bit codes a VIA keyboard stores, as silakka54-sync   *)
(* translates between them: resolve_keycode on the way to the keyboard,      *)
(* describe_keycode on the way back, and the macro buffer both ways.         *)
(*                                                                           *)
(* A key text is a record: call is "plain" for a name, which tap holds, and  *)
(* otherwise the function that is applied; hold is the set of its first      *)
(* arguments (the modifiers joined by "|", or one layer reference).  A tap   *)
(* that is itself a call resolves above 16#ff and is refused, so taps are    *)
(* plain names.                                                              *)
EXTENDS Naturals, Sequences, SequencesExt, FiniteSets

CONSTANTS
    Word,        \* the texts: names, labels, calls, references
    Code,        \* the QMK catalog: the keycode of each name it knows
    Rank,        \* the order in which preferred_keycode_name prefers names
    Number,      \* the value of each text that parses as a u8
    LayerId,     \* the uppercase identifiers that begin with "_"
    Capacity,    \* how many macros the firmware holds
    BufferSize   \* the size in bytes of its macro buffer

Name == DOMAIN Code
Empty == ""

U8 == {n \in Nat : n <= \hff}
U16 == {n \in Nat : n <= \hffff}
LayerCalls == {"TO", "MO", "LT"}
ModBits == [MOD_LCTL |-> \h01, MOD_LSFT |-> \h02, MOD_LALT |-> \h04, MOD_LGUI |-> \h08,
            MOD_RCTL |-> \h11, MOD_RSFT |-> \h12, MOD_RALT |-> \h14, MOD_RGUI |-> \h18]
ModTapOf == [LCTL_T |-> "MOD_LCTL", LSFT_T |-> "MOD_LSFT", LALT_T |-> "MOD_LALT",
             LGUI_T |-> "MOD_LGUI", RCTL_T |-> "MOD_RCTL", RSFT_T |-> "MOD_RSFT",
             RALT_T |-> "MOD_RALT", RGUI_T |-> "MOD_RGUI"]

(* Keycodes are u16 and numbers of layers u8; QMK knows KC_TRNS; what begins *)
(* with "_" is no number.                                                    *)
ASSUME CatalogAssumption ==
    /\ {Empty, "plain", "none", "MT"} \cup LayerCalls \cup DOMAIN ModTapOf \cup DOMAIN ModBits \subseteq Word
    /\ Name \subseteq Word /\ "KC_TRNS" \in Name /\ Empty \notin Name
    /\ Code \in [Name -> U16] /\ Rank \in [Name -> Nat]
    /\ DOMAIN Number \subseteq Word /\ Number \in [DOMAIN Number -> U8]
    /\ LayerId \subseteq Word /\ LayerId \cap DOMAIN Number = {}
    /\ Capacity \in U8 /\ BufferSize \in Nat \ {0}

Text == {t \in [call : Word, hold : SUBSET Word, tap : Word] :
            t.call \in LayerCalls => \E ref \in t.hold : t.hold = {ref}}
NoCode == \h10000
Plain(x) == [call |-> "plain", hold |-> {}, tap |-> x]
Call(f, h, x) == [call |-> f, hold |-> h, tap |-> x]
NoText == Call("none", {}, Empty)

(* The layer a text refers to.  The map holds ids and names alike, and a    *)
(* later layer replaces an earlier one under the same text.                 *)
LayerOf(ref, layers) ==
    LET named == {i \in DOMAIN layers : ref \in {layers[i].id, layers[i].name}}
    IN  IF named # {} THEN CHOOSE i \in named : \A j \in named : j <= i
        ELSE IF ref \in DOMAIN Number THEN Number[ref] + 1 ELSE 0

Basic(x) == IF x \in Name /\ Code[x] <= \hff THEN Code[x] ELSE NoCode

(* x with one bit set, which it may have already, and the mask a set of      *)
(* modifiers makes of their bits.                                            *)
HasBit(x, bit) == (x \div bit) % 2 = 1
WithBit(x, bit) == IF HasBit(x, bit) THEN x ELSE x + bit
BitOf(mods, bit) == IF \E m \in mods : HasBit(ModBits[m], bit) THEN bit ELSE 0
Mask(mods) ==
    BitOf(mods, \h01) + BitOf(mods, \h02) + BitOf(mods, \h04) + BitOf(mods, \h08) + BitOf(mods, \h10)

ModTap(mods, tap) ==
    IF mods = {} \/ ~(mods \subseteq DOMAIN ModBits) \/ tap = NoCode THEN NoCode
    ELSE \h2000 + \h100 * Mask(mods) + tap

LayerTap(layer, tap) ==
    IF layer = 0 \/ tap = NoCode THEN NoCode ELSE \h100 * WithBit(layer - 1, \h40) + tap

Momentary(layer) == \h5200 + WithBit(layer - 1, \h20)

Resolve(text, layers) ==
    LET layer == LayerOf(CHOOSE h \in text.hold : TRUE, layers)
    IN  CASE text.call = "plain" ->
                IF text.tap \in Name THEN Code[text.tap]
                ELSE IF \E i \in DOMAIN layers : text.tap \in {layers[i].id, layers[i].name}
                THEN Momentary(LayerOf(text.tap, layers)) ELSE NoCode
          [] text.call = "TO" /\ text.tap = Empty /\ layer \in 1 .. 32 -> \h5200 + layer - 1
          [] text.call = "MO" /\ text.tap = Empty /\ layer > 0 -> Momentary(layer)
          [] text.call = "LT" -> LayerTap(layer, Basic(text.tap))
          [] text.call = "MT" -> ModTap(text.hold, Basic(text.tap))
          [] text.call \in DOMAIN ModTapOf /\ text.hold = {} -> ModTap({ModTapOf[text.call]}, Basic(text.tap))
          [] OTHER -> NoCode

Preferred(code) ==
    LET names == {n \in Name : Code[n] = code}
    IN  IF names = {} THEN Empty ELSE CHOOSE n \in names : \A m \in names : Rank[n] <= Rank[m]

(* A mutated form: every modifier is described as the left one.             *)
ModsOfLeft(bits) == {m \in {"MOD_LCTL", "MOD_LSFT", "MOD_LALT", "MOD_LGUI"} :
                        HasBit(bits, ModBits[m])}
ModsOf(bits) ==
    IF ~HasBit(bits, \h10) THEN ModsOfLeft(bits)
    ELSE {m \in {"MOD_RCTL", "MOD_RSFT", "MOD_RALT", "MOD_RGUI"} :
            HasBit(bits, ModBits[m] - \h10)}

DescribeModTap(bits, tap) ==
    LET short == {f \in DOMAIN ModTapOf : ModBits[ModTapOf[f]] = bits}
    IN  IF tap = Empty THEN NoText
        ELSE IF short # {} THEN Call(CHOOSE f \in short : TRUE, {}, tap)
        ELSE Call("MT", ModsOf(bits), tap)

LayerCall(f, i, tap, layers) ==
    IF i \in DOMAIN layers THEN Call(f, {layers[i].id}, tap) ELSE NoText

Describe(code, layers) ==
    LET tap == Preferred(code % \h100)
    IN  CASE \h5200 <= code /\ code <= \h521f -> LayerCall("TO", code - \h5200 + 1, Empty, layers)
          [] \h5220 <= code /\ code <= \h522f -> LayerCall("MO", code - \h5220 + 1, Empty, layers)
          [] code \div \h1000 = \h4 ->
                IF tap = Empty THEN NoText
                ELSE LayerCall("LT", ((code \div \h100) % \h10) + 1, tap, layers)
          [] code \div \h2000 = 1 -> DescribeModTap((code \div \h100) % \h20, tap)
          [] OTHER -> IF Preferred(code) = Empty THEN NoText ELSE Plain(Preferred(code))

-----------------------------------------------------------------------------
(* The macro buffer: every macro and a NUL after it, zeros behind the last.  *)
Macros == Seq(Seq(U8))
Buffer == [1 .. BufferSize -> U8]
NoBuffer == <<>>

EncodeMacros(macros) ==
    LET bytes == FlattenSeq([i \in DOMAIN macros |-> Append(macros[i], 0)])
    IN  IF Len(macros) > Capacity \/ Len(bytes) > BufferSize THEN NoBuffer
        ELSE [i \in 1 .. BufferSize |-> IF i <= Len(bytes) THEN bytes[i] ELSE 0]

(* How many of the first n bytes are NUL, where the i-th NUL is (the ends of *)
(* the buffer count as one), and what lies between one NUL and the next.     *)
Nuls(buffer, n) == Cardinality({j \in 1 .. n : buffer[j] = 0})

NulAt(buffer, i) ==
    IF i = 0 THEN 0 ELSE IF i > Nuls(buffer, Len(buffer)) THEN Len(buffer) + 1
    ELSE CHOOSE p \in DOMAIN buffer : buffer[p] = 0 /\ Nuls(buffer, p) = i

Split(buffer) ==
    [i \in 1 .. Nuls(buffer, Len(buffer)) + 1 |->
        SubSeq(buffer, NulAt(buffer, i - 1) + 1, NulAt(buffer, i) - 1)]

DecodeMacros(buffer) ==
    LET pieces == Split(buffer)
        taken == SubSeq(pieces, 1, IF Len(pieces) < Capacity THEN Len(pieces) ELSE Capacity)
    IN  SubSeq(taken, 1, SelectLastInSeq(taken, LAMBDA p : p # <<>>))
=============================================================================
