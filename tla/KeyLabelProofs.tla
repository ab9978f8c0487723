---------------------------- MODULE KeyLabelProofs ----------------------------
(***************************************************************************)
(* Lemmas about Keycodes and KeyLabels, for any catalog and any layers: the *)
(* types of what their operators return, and what takes a keycode to a text *)
(* and back, or a text to a label and back, without loss.                  *)
(***************************************************************************)
EXTENDS KeyLabels, TLAPS, SequenceTheorems, FiniteSetTheorems

-----------------------------------------------------------------------------
(* What the operators that pick a member of a set return.                    *)

\* Some natural numbers have a least one: the intervals up to them are finite
\* sets, on which inclusion is well-founded.
LEMMA LeastExists ==
  ASSUME NEW S \in SUBSET Nat, S # {}
  PROVE  \E i \in S : \A j \in S : i <= j
<1> DEFINE T == {1 .. i : i \in S}
<1>1. T # {} /\ T \subseteq FiniteSubsetsOf(Nat)
  <2>1. \A i \in S : 1 .. i \in SUBSET Nat /\ IsFiniteSet(1 .. i)
    BY FS_Interval
  <2> QED BY <2>1 DEF FiniteSubsetsOf
<1>2. PICK x \in T : \A y \in T : <<y, x>> \notin StrictSubsetOrdering(Nat)
  <2>1. IsWellFoundedOn(StrictSubsetOrdering(Nat), FiniteSubsetsOf(Nat))
    BY FS_StrictSubsetOrderingWellFounded
  <2> HIDE DEF T
  <2> QED BY <1>1, <2>1, WFMin
<1>3. PICK i \in S : x = 1 .. i
  OBVIOUS
<1>4. ASSUME NEW j \in S, ~ (i <= j)
      PROVE  FALSE
  <2>1. 1 .. j \in T /\ <<1 .. j, x>> \notin StrictSubsetOrdering(Nat)
    BY <1>2
  <2>2. 1 .. j \subseteq 1 .. i /\ i \in 1 .. i /\ i \notin 1 .. j
    BY <1>4
  <2>3. 1 .. j \in SUBSET Nat /\ 1 .. i \in SUBSET Nat
    OBVIOUS
  <2> QED BY <1>3, <2>1, <2>2, <2>3 DEF StrictSubsetOrdering
<1> QED BY <1>4

\* FirstOf is the least of some numbers, and 0 when there is none.
LEMMA FirstIsLeast ==
  ASSUME NEW S \in SUBSET Nat, S # {}
  PROVE  FirstOf(S) \in S /\ \A j \in S : FirstOf(S) <= j
BY LeastExists DEF FirstOf

\* Some numbers that have a bound have a greatest one.
LEMMA GreatestExists ==
  ASSUME NEW n \in Nat, NEW S \in SUBSET (1 .. n), S # {}
  PROVE  \E i \in S : \A j \in S : j <= i
<1> DEFINE T == {n - i : i \in S}
<1>1. T \in SUBSET Nat /\ T # {}
  OBVIOUS
<1>2. PICK k \in T : \A m \in T : k <= m
  <2> HIDE DEF T
  <2> QED BY <1>1, LeastExists
<1>3. PICK i \in S : k = n - i
  OBVIOUS
<1>4. \A j \in S : n - i <= n - j
  BY <1>2, <1>3
<1> QED BY <1>4

-----------------------------------------------------------------------------
(* The types of what the operators of Keycodes and KeyLabels return.         *)

\* Literal texts, and what is known of names, numbers and identifiers.
LEMMA CatalogTyped ==
  /\ Empty \in Word /\ "plain" \in Word /\ "none" \in Word /\ "MT" \in Word /\ LayerCalls \subseteq Word
  /\ DOMAIN ModTapOf \subseteq Word /\ DOMAIN ModBits \subseteq Word
  /\ \A x \in Name : x \in Word /\ x # Empty /\ Code[x] \in Nat /\ Code[x] <= \hffff /\ Rank[x] \in Nat
  /\ \A x \in DOMAIN Number : x \in Word /\ x \notin LayerId /\ Number[x] \in Nat /\ Number[x] <= \hff
  /\ \A x \in LayerId : x \in Word /\ x \notin DOMAIN Number
<1> HIDE DEF Name, LayerCalls, ModTapOf, ModBits
<1>1. Code \in [Name -> U16] /\ Rank \in [Name -> Nat] /\ Number \in [DOMAIN Number -> U8]
  BY CatalogAssumption
<1>2. /\ {Empty, "plain", "none", "MT"} \subseteq Word /\ LayerCalls \subseteq Word
      /\ DOMAIN ModTapOf \subseteq Word /\ DOMAIN ModBits \subseteq Word
  BY CatalogAssumption
<1> QED BY <1>1, <1>2, CatalogAssumption DEF U8, U16

LEMMA CallTyped ==
  ASSUME NEW f \in Word, NEW h \in SUBSET Word, NEW x \in Word,
         f \notin LayerCalls \/ \E ref \in h : h = {ref}
  PROVE  Call(f, h, x) \in Text
BY DEF Call, Text

LEMMA PlainTyped == ASSUME NEW x \in Word PROVE Plain(x) \in Text
BY CatalogTyped DEF Plain, Text, LayerCalls

LEMMA NoTextTyped == NoText \in Text
<1>1. "none" \notin LayerCalls
  BY DEF LayerCalls
<1> QED BY <1>1, CatalogTyped, CallTyped DEF NoText

\* A reference some layer bears is to a layer that bears it.
LEMMA LayerOfBorne ==
  ASSUME NEW L, NEW layers \in Seq(L), NEW ref,
         \E i \in DOMAIN layers : ref \in {layers[i].id, layers[i].name}
  PROVE  /\ LayerOf(ref, layers) \in DOMAIN layers
         /\ ref \in {layers[LayerOf(ref, layers)].id, layers[LayerOf(ref, layers)].name}
<1> DEFINE named == {i \in DOMAIN layers : ref \in {layers[i].id, layers[i].name}}
<1>1. named # {} /\ named \in SUBSET (1 .. Len(layers)) /\ Len(layers) \in Nat
  BY LenProperties
<1>2. \E i \in named : \A j \in named : j <= i
  <2> HIDE DEF named
  <2> QED BY <1>1, GreatestExists
<1>3. LayerOf(ref, layers) = CHOOSE i \in named : \A j \in named : j <= i
  BY <1>1 DEF LayerOf
<1>4. LayerOf(ref, layers) \in named
  <2> HIDE DEF named
  <2> QED BY <1>2, <1>3
<1> QED BY <1>4

\* Any other is a number, or to none.
LEMMA LayerOfNumber ==
  ASSUME NEW L, NEW layers \in Seq(L), NEW ref,
         ~ \E i \in DOMAIN layers : ref \in {layers[i].id, layers[i].name}
  PROVE  /\ LayerOf(ref, layers) = IF ref \in DOMAIN Number THEN Number[ref] + 1 ELSE 0
         /\ LayerOf(ref, layers) \in Nat /\ LayerOf(ref, layers) <= \h100
<1>1. {i \in DOMAIN layers : ref \in {layers[i].id, layers[i].name}} = {}
  OBVIOUS
<1> QED BY <1>1, CatalogTyped DEF LayerOf

\* The layer that alone bears a reference is the one it refers to.
LEMMA LayerOfOnly ==
  ASSUME NEW L, NEW layers \in Seq(L), NEW ref, NEW i \in DOMAIN layers,
         ref \in {layers[i].id, layers[i].name},
         \A j \in DOMAIN layers : ref \in {layers[j].id, layers[j].name} => j = i
  PROVE  LayerOf(ref, layers) = i
<1>1. {j \in DOMAIN layers : ref \in {layers[j].id, layers[j].name}} = {i}
  OBVIOUS
<1>2. i \in Nat
  BY LenProperties
<1> QED BY <1>1, <1>2 DEF LayerOf

\* Whatever resolves resolves to a keycode.
Resolved(code) == (code \in Nat /\ code <= \hffff) \/ code = NoCode

LEMMA BasicTyped ==
  ASSUME NEW x
  PROVE  Basic(x) = NoCode \/ (Basic(x) \in Nat /\ Basic(x) <= \hff)
BY CatalogTyped DEF Basic

LEMMA MomentaryTyped ==
  ASSUME NEW layer \in Nat, 0 < layer, layer <= \h100
  PROVE  Resolved(Momentary(layer))
BY DEF Resolved, Momentary, WithBit, HasBit

LEMMA LayerTapTyped ==
  ASSUME NEW layer \in Nat, layer <= \h100, NEW x
  PROVE  Resolved(LayerTap(layer, Basic(x)))
<1>1. layer # 0 => WithBit(layer - 1, \h40) \in Nat /\ WithBit(layer - 1, \h40) <= \hff
  BY DEF WithBit, HasBit
<1> HIDE DEF WithBit
<1> QED BY <1>1, BasicTyped DEF LayerTap, NoCode, Resolved

LEMMA ModTapTyped == ASSUME NEW mods, NEW x PROVE Resolved(ModTap(mods, Basic(x)))
<1>1. Mask(mods) \in Nat /\ Mask(mods) <= \h1f
  BY DEF Mask, BitOf
<1> QED BY <1>1, BasicTyped DEF ModTap, NoCode, Resolved

\* The functions a text may apply are apart from each other.
LEMMA CallsApart ==
  /\ "plain" \notin DOMAIN ModTapOf /\ "none" \notin DOMAIN ModTapOf /\ "MT" \notin DOMAIN ModTapOf
  /\ "TO" \notin DOMAIN ModTapOf /\ "MO" \notin DOMAIN ModTapOf /\ "LT" \notin DOMAIN ModTapOf
BY DEF ModTapOf

\* What resolve_keycode does with a name, and with each function.
LEMMA ResolvePlain ==
  ASSUME NEW layers, NEW text, text.call = "plain"
  PROVE  Resolve(text, layers) =
            IF text.tap \in Name THEN Code[text.tap]
            ELSE IF \E i \in DOMAIN layers : text.tap \in {layers[i].id, layers[i].name}
            THEN Momentary(LayerOf(text.tap, layers)) ELSE NoCode
<1>1. text.call \notin DOMAIN ModTapOf
  BY CallsApart
<1> QED BY <1>1 DEF Resolve

LEMMA ResolveCall ==
  ASSUME NEW layers, NEW text, NEW ref, text.hold = {ref}
  PROVE  /\ text.call = "TO" => Resolve(text, layers) =
                IF text.tap = Empty /\ LayerOf(ref, layers) \in 1 .. 32
                THEN \h5200 + LayerOf(ref, layers) - 1 ELSE NoCode
         /\ text.call = "MO" => Resolve(text, layers) =
                IF text.tap = Empty /\ LayerOf(ref, layers) > 0
                THEN Momentary(LayerOf(ref, layers)) ELSE NoCode
         /\ text.call = "LT" => Resolve(text, layers) = LayerTap(LayerOf(ref, layers), Basic(text.tap))
<1>1. (CHOOSE h \in text.hold : TRUE) = ref
  OBVIOUS
<1>2. text.call \in LayerCalls => text.call \notin DOMAIN ModTapOf
  BY CallsApart DEF LayerCalls
<1>3. CASE text.call = "TO"
  BY <1>1, <1>2, <1>3 DEF Resolve, LayerCalls
<1>4. CASE text.call = "MO"
  BY <1>1, <1>2, <1>4 DEF Resolve, LayerCalls
<1>5. CASE text.call = "LT"
  BY <1>1, <1>2, <1>5 DEF Resolve, LayerCalls
<1> QED BY <1>3, <1>4, <1>5

LEMMA ResolveTo ==
  ASSUME NEW layers, NEW text, NEW ref, text.call = "TO", text.hold = {ref}, text.tap = Empty,
         NEW i \in Nat, LayerOf(ref, layers) = i, 0 < i, i <= 32
  PROVE  Resolve(text, layers) = \h5200 + i - 1
<1> DEFINE layer == LayerOf(ref, layers)
           inRange == layer \in 1 .. 32
<1>1. text.tap = Empty /\ inRange
  OBVIOUS
<1>2. Resolve(text, layers) = IF text.tap = Empty /\ inRange THEN \h5200 + layer - 1 ELSE NoCode
  BY ResolveCall
<1> HIDE DEF inRange
<1>3. Resolve(text, layers) = \h5200 + layer - 1
  BY <1>1, <1>2
<1> QED BY <1>3

LEMMA ResolveModTap ==
  ASSUME NEW layers, NEW text
  PROVE  /\ text.call = "MT" => Resolve(text, layers) = ModTap(text.hold, Basic(text.tap))
         /\ text.call \in DOMAIN ModTapOf =>
                Resolve(text, layers) =
                    IF text.hold = {} THEN ModTap({ModTapOf[text.call]}, Basic(text.tap)) ELSE NoCode
<1>1. CASE text.call = "MT"
  BY <1>1, CallsApart DEF Resolve
<1>2. CASE text.call \in DOMAIN ModTapOf
  BY <1>2, CallsApart DEF Resolve
<1> QED BY <1>1, <1>2

\* Any other call resolves to nothing.
LEMMA ResolveOther ==
  ASSUME NEW layers, NEW text, text.call \notin LayerCalls \cup DOMAIN ModTapOf \cup {"plain", "MT"}
  PROVE  Resolve(text, layers) = NoCode
BY DEF Resolve, LayerCalls

LEMMA ResolveTyped ==
  ASSUME NEW L, NEW layers \in Seq(L), Len(layers) <= \hff, NEW text \in Text
  PROVE  Resolved(Resolve(text, layers))
<1>1. \A ref : LayerOf(ref, layers) \in Nat /\ LayerOf(ref, layers) <= \h100
  BY LayerOfBorne, LayerOfNumber, LenProperties
<1>2. CASE text.call = "plain" /\ text.tap \in Name
  BY <1>2, CatalogTyped, ResolvePlain DEF Resolved
<1>3. CASE /\ text.call = "plain" /\ text.tap \notin Name
           /\ \E i \in DOMAIN layers : text.tap \in {layers[i].id, layers[i].name}
  <2>1. 0 < LayerOf(text.tap, layers)
    BY <1>3, LayerOfBorne, LenProperties
  <2> QED BY <1>1, <1>3, <2>1, MomentaryTyped, ResolvePlain
<1>4. CASE /\ text.call = "plain" /\ text.tap \notin Name
           /\ ~ \E i \in DOMAIN layers : text.tap \in {layers[i].id, layers[i].name}
  BY <1>4, ResolvePlain DEF Resolved
<1>5. CASE text.call \in LayerCalls
  <2>1. PICK ref : text.hold = {ref}
    BY <1>5 DEF Text
  <2>2. LayerOf(ref, layers) \in Nat /\ LayerOf(ref, layers) <= \h100
    BY <1>1
  <2>3. CASE text.call = "TO"
    BY <2>1, <2>2, <2>3, ResolveCall DEF Resolved
  <2>4. CASE text.call = "MO"
    BY <2>1, <2>2, <2>4, ResolveCall, MomentaryTyped DEF Resolved
  <2>5. CASE text.call = "LT"
    BY <2>1, <2>2, <2>5, ResolveCall, LayerTapTyped
  <2> QED BY <1>5, <2>3, <2>4, <2>5 DEF LayerCalls
<1>6. CASE text.call = "MT" \/ text.call \in DOMAIN ModTapOf
  <2>1. Resolved(NoCode)
    BY DEF Resolved
  <2> QED BY <1>6, <2>1, ResolveModTap, ModTapTyped
<1>7. CASE text.call \notin LayerCalls \cup DOMAIN ModTapOf \cup {"plain", "MT"}
  BY <1>7, ResolveOther DEF Resolved
<1> QED BY <1>2, <1>3, <1>4, <1>5, <1>6, <1>7

\* The preferred name of a keycode is a name of that keycode.
LEMMA PreferredNames ==
  ASSUME NEW code
  PROVE  /\ Preferred(code) \in Word
         /\ Preferred(code) # Empty => Preferred(code) \in Name /\ Code[Preferred(code)] = code
<1> DEFINE names == {n \in Name : Code[n] = code}
<1>1. CASE names = {}
  BY <1>1, CatalogTyped DEF Preferred
<1>2. CASE names # {}
  <2> DEFINE ranks == {Rank[n] : n \in names}
  <2>1. ranks # {} /\ ranks \in SUBSET Nat
    BY <1>2, CatalogTyped
  <2>2. \E r \in ranks : \A q \in ranks : r <= q
    <3> HIDE DEF ranks
    <3> QED BY <2>1, LeastExists
  <2>3. \E n \in names : \A m \in names : Rank[n] <= Rank[m]
    BY <2>2
  <2>4. Preferred(code) = CHOOSE n \in names : \A m \in names : Rank[n] <= Rank[m]
    BY <1>2 DEF Preferred
  <2>5. Preferred(code) \in names
    <3> HIDE DEF names
    <3> QED BY <2>3, <2>4
  <2> QED BY <2>5, CatalogTyped
<1> QED BY <1>1, <1>2

\* What describe_keycode does in each range of keycodes.
LEMMA DescribeCases ==
  ASSUME NEW code \in Nat, NEW layers
  PROVE  /\ \h5200 <= code /\ code <= \h521f =>
                Describe(code, layers) = LayerCall("TO", code - \h5200 + 1, Empty, layers)
         /\ \h5220 <= code /\ code <= \h522f =>
                Describe(code, layers) = LayerCall("MO", code - \h5220 + 1, Empty, layers)
         /\ code \div \h1000 = 4 => Describe(code, layers) =
                IF Preferred(code % \h100) = Empty THEN NoText
                ELSE LayerCall("LT", ((code \div \h100) % \h10) + 1, Preferred(code % \h100), layers)
         /\ code \div \h2000 = 1 => Describe(code, layers) =
                DescribeModTap((code \div \h100) % \h20, Preferred(code % \h100))
         /\ ~ (\h5200 <= code /\ code <= \h522f) /\ code \div \h1000 # 4 /\ code \div \h2000 # 1 =>
                Describe(code, layers) = IF Preferred(code) = Empty THEN NoText ELSE Plain(Preferred(code))
<1> DEFINE to == \h5200 <= code /\ code <= \h521f
           mo == \h5220 <= code /\ code <= \h522f
           lt == code \div \h1000 = 4
           mt == code \div \h2000 = 1
           A == LayerCall("TO", code - \h5200 + 1, Empty, layers)
           B == LayerCall("MO", code - \h5220 + 1, Empty, layers)
           C == IF Preferred(code % \h100) = Empty THEN NoText
                ELSE LayerCall("LT", ((code \div \h100) % \h10) + 1, Preferred(code % \h100), layers)
           D == DescribeModTap((code \div \h100) % \h20, Preferred(code % \h100))
           E == IF Preferred(code) = Empty THEN NoText ELSE Plain(Preferred(code))
<1>1. /\ ~ (to /\ mo) /\ ~ (to /\ lt) /\ ~ (to /\ mt) /\ ~ (mo /\ lt) /\ ~ (mo /\ mt) /\ ~ (lt /\ mt)
      /\ (to \/ mo) <=> (\h5200 <= code /\ code <= \h522f)
  OBVIOUS
<1>2. Describe(code, layers) = CASE to -> A [] mo -> B [] lt -> C [] mt -> D [] OTHER -> E
  BY DEF Describe
<1> HIDE DEF to, mo, lt, mt, A, B, C, D, E
<1>3. /\ to => Describe(code, layers) = A
      /\ mo => Describe(code, layers) = B
      /\ lt => Describe(code, layers) = C
      /\ mt => Describe(code, layers) = D
      /\ ~ (to \/ mo) /\ ~ lt /\ ~ mt => Describe(code, layers) = E
  BY <1>1, <1>2
<1> QED BY <1>1, <1>3 DEF to, mo, lt, mt, A, B, C, D, E

\* What a keycode is described as is a text.
LEMMA DescribeTyped ==
  ASSUME NEW L, NEW layers \in Seq(L), \A i \in DOMAIN layers : layers[i].id \in Word, NEW code \in Nat
  PROVE  Describe(code, layers) \in Text
<1>1. \A c : Preferred(c) \in Word
  BY PreferredNames
<1>2. \A f \in LayerCalls, x \in Word : \A i : LayerCall(f, i, x, layers) \in Text
  <2> TAKE f \in LayerCalls, x \in Word
  <2> TAKE i
  <2>1. CASE i \in DOMAIN layers
    <3>1. layers[i].id \in Word /\ f \in Word
      BY <2>1, CatalogTyped
    <3>2. Call(f, {layers[i].id}, x) \in Text
      BY <3>1, CallTyped
    <3> QED BY <2>1, <3>2 DEF LayerCall
  <2> QED BY <2>1, NoTextTyped DEF LayerCall
<1>3. \A x \in Word : \A bits : DescribeModTap(bits, x) \in Text
  <2> TAKE x \in Word
  <2> TAKE bits
  <2> DEFINE short == {f \in DOMAIN ModTapOf : ModBits[ModTapOf[f]] = bits}
  <2>1. ModsOf(bits) \in SUBSET Word
    <3>1. {"MOD_LCTL", "MOD_LSFT", "MOD_LALT", "MOD_LGUI", "MOD_RCTL", "MOD_RSFT", "MOD_RALT", "MOD_RGUI"}
             = DOMAIN ModBits
      BY DEF ModBits
    <3>2. \A m \in {"MOD_LCTL", "MOD_LSFT", "MOD_LALT", "MOD_LGUI", "MOD_RCTL", "MOD_RSFT", "MOD_RALT", "MOD_RGUI"} :
             m \in Word
      BY <3>1, CatalogTyped
    <3>3. \A m : m \in ModsOf(bits) => m \in DOMAIN ModBits
      BY <3>1 DEF ModsOf, ModsOfLeft
    <3> QED BY <3>3, CatalogTyped
  <2>2. short # {} => (CHOOSE f \in short : TRUE) \in short
    OBVIOUS
  <2>3. \A f \in short : f \in DOMAIN ModTapOf
    OBVIOUS
  <2>4. \A f \in LayerCalls : f \notin DOMAIN ModTapOf
    BY CallsApart DEF LayerCalls
  <2>5. short # {} => Call(CHOOSE f \in short : TRUE, {}, x) \in Text
    <3> HIDE DEF short
    <3> SUFFICES ASSUME short # {} PROVE Call(CHOOSE f \in short : TRUE, {}, x) \in Text
      OBVIOUS
    <3> DEFINE f == CHOOSE f \in short : TRUE
    <3>1. f \in Word /\ f \notin LayerCalls
      BY <2>2, <2>3, <2>4, CatalogTyped
    <3> HIDE DEF f
    <3>2. Call(f, {}, x) \in Text
      BY <3>1, CallTyped
    <3> QED BY <3>2 DEF f
  <2>6. Call("MT", ModsOf(bits), x) \in Text
    <3>1. "MT" \in Word /\ "MT" \notin LayerCalls
      BY CatalogTyped DEF LayerCalls
    <3> QED BY <2>1, <3>1, CallTyped
  <2> HIDE DEF short
  <2>7. DescribeModTap(bits, x) = IF x = Empty THEN NoText
                                  ELSE IF short # {} THEN Call(CHOOSE f \in short : TRUE, {}, x)
                                  ELSE Call("MT", ModsOf(bits), x)
    BY DEF DescribeModTap, short
  <2> QED BY <2>5, <2>6, <2>7, NoTextTyped
<1>4. \A c : Plain(Preferred(c)) \in Text
  BY <1>1, PlainTyped
<1>5. \A i, c : /\ LayerCall("TO", i, Empty, layers) \in Text
                /\ LayerCall("MO", i, Empty, layers) \in Text
                /\ LayerCall("LT", i, Preferred(c), layers) \in Text
                /\ DescribeModTap(i, Preferred(c)) \in Text
  <2>1. "TO" \in LayerCalls /\ "MO" \in LayerCalls /\ "LT" \in LayerCalls
    BY DEF LayerCalls
  <2> HIDE DEF LayerCalls
  <2>2. \A i : LayerCall("TO", i, Empty, layers) \in Text /\ LayerCall("MO", i, Empty, layers) \in Text
    BY <2>1, <1>2, CatalogTyped
  <2>3. \A i, c : LayerCall("LT", i, Preferred(c), layers) \in Text
    BY <2>1, <1>1, <1>2
  <2>4. \A i, c : DescribeModTap(i, Preferred(c)) \in Text
    BY <1>1, <1>3
  <2> QED BY <2>2, <2>3, <2>4
<1>6. CASE \h5200 <= code /\ code <= \h521f
  BY <1>5, <1>6, DescribeCases
<1>7. CASE \h5220 <= code /\ code <= \h522f
  BY <1>5, <1>7, DescribeCases
<1>8. CASE code \div \h1000 = 4
  BY <1>5, <1>8, NoTextTyped, DescribeCases
<1>9. CASE code \div \h2000 = 1
  BY <1>5, <1>9, DescribeCases
<1>10. CASE ~ (\h5200 <= code /\ code <= \h522f) /\ code \div \h1000 # 4 /\ code \div \h2000 # 1
  BY <1>4, <1>10, NoTextTyped, DescribeCases
<1> QED BY <1>6, <1>7, <1>8, <1>9, <1>10

\* The rows of the tables are pairs of texts.
LEMMA TablesTyped ==
  /\ Legends \in SUBSET (Word \X Word)
  /\ Taps \in SUBSET (Word \X Word)
  /\ Symbols \in SUBSET (Word \X Word)
BY LabelAssumption

\* Letters and identifiers are texts.
LEMMA LabelsTyped ==
  /\ \A a \in DOMAIN Alnum : a \in Word /\ Alnum[a] \in Word
  /\ \A n \in LayerName : n \in Word /\ Identifier[n] \in Word /\ Identifier[n] \in LayerId
BY LabelAssumption, CatalogTyped

\* What a table has for a text is in a row of the text, if there is one.
LEMMA FindRow ==
  ASSUME NEW table \in SUBSET (Word \X Word), NEW x, NEW default
  PROVE  /\ (\E p \in table : p[1] = x) => <<x, Find(x, table, default)>> \in table
         /\ (~ \E p \in table : p[1] = x) => Find(x, table, default) = default
<1> DEFINE rows == {p \in table : p[1] = x}
<1>1. Find(x, table, default) = IF rows = {} THEN default ELSE (CHOOSE p \in rows : TRUE)[2]
  BY DEF Find
<1>2. rows # {} => (CHOOSE p \in rows : TRUE) \in rows
  OBVIOUS
<1>3. \A p \in rows : p = <<x, p[2]>> /\ p \in table
  OBVIOUS
<1>4. CASE rows = {}
  BY <1>1, <1>4
<1>5. CASE rows # {}
  BY <1>1, <1>2, <1>3, <1>5
<1> QED BY <1>4, <1>5

LEMMA FindTyped ==
  ASSUME NEW table \in SUBSET (Word \X Word), NEW x, NEW default \in Word
  PROVE  Find(x, table, default) \in Word
<1>1. CASE \E p \in table : p[1] = x
  <2>1. <<x, Find(x, table, default)>> \in table
    BY <1>1, FindRow
  <2> QED BY <2>1
<1>2. CASE ~ \E p \in table : p[1] = x
  BY <1>2, FindRow
<1> QED BY <1>1, <1>2

LEMMA LegendTyped == ASSUME NEW x \in Word PROVE Legend(x) \in Word
<1>1. CASE \E a \in DOMAIN Alnum : Alnum[a] = x
  <2>1. (CHOOSE a \in DOMAIN Alnum : Alnum[a] = x) \in DOMAIN Alnum
    BY <1>1
  <2> QED BY <1>1, <2>1, LabelsTyped DEF Legend
<1>2. CASE ~ \E a \in DOMAIN Alnum : Alnum[a] = x
  BY <1>2, FindTyped, TablesTyped DEF Legend
<1> QED BY <1>1, <1>2

LEMMA TapCodeTyped == ASSUME NEW x PROVE TapCode(x) \in Word
BY FindTyped, TablesTyped, LabelsTyped, CatalogTyped DEF TapCode

LEMMA CanonicalTyped ==
  ASSUME NEW text \in Text, NEW layers
  PROVE  NamesOf(layers) \subseteq LayerName => Canonical(text, layers) \in Text
<1> SUFFICES ASSUME NamesOf(layers) \subseteq LayerName PROVE Canonical(text, layers) \in Text
  OBVIOUS
<1>1. text.tap \in Word
  BY DEF Text
<1>2. CASE text.call # "plain" \/ text.tap \in Prefixed \cup {"("}
  BY <1>2 DEF Canonical
<1>3. CASE ~ (text.call # "plain" \/ text.tap \in Prefixed \cup {"("}) /\ text.tap \in NamesOf(layers)
  <2>1. {Identifier[text.tap]} \in SUBSET Word
    BY <1>3, LabelsTyped
  <2>2. Call("MO", {Identifier[text.tap]}, Empty) \in Text
    BY <2>1, CallTyped, CatalogTyped DEF LayerCalls
  <2> QED BY <1>3, <2>2 DEF Canonical
<1>4. CASE ~ (text.call # "plain" \/ text.tap \in Prefixed \cup {"("}) /\ text.tap \notin NamesOf(layers)
  BY <1>1, <1>4, TapCodeTyped, FindTyped, TablesTyped, PlainTyped DEF Canonical
<1> QED BY <1>2, <1>3, <1>4

\* The list of the tap-hold editor.
LEMMA ModifierList ==
  /\ Len(Modifiers) = 4 /\ DOMAIN Modifiers = 1 .. 4 /\ FirstLayer = 5
  /\ \A m \in 1 .. 4 : /\ Modifiers[m].call \in DOMAIN ModTapOf /\ Modifiers[m].call \notin LayerCalls
                       /\ ModTapOf[Modifiers[m].call] = Modifiers[m].mod
<1>1. /\ Modifiers[1].call = "LCTL_T" /\ Modifiers[1].mod = "MOD_LCTL"
      /\ Modifiers[2].call = "LSFT_T" /\ Modifiers[2].mod = "MOD_LSFT"
      /\ Modifiers[3].call = "LALT_T" /\ Modifiers[3].mod = "MOD_LALT"
      /\ Modifiers[4].call = "LGUI_T" /\ Modifiers[4].mod = "MOD_LGUI"
  BY DEF Modifiers
<1>2. Len(Modifiers) = 4 /\ DOMAIN Modifiers = 1 .. 4
  BY DEF Modifiers
<1>3. /\ "LCTL_T" \in DOMAIN ModTapOf /\ ModTapOf["LCTL_T"] = "MOD_LCTL"
      /\ "LSFT_T" \in DOMAIN ModTapOf /\ ModTapOf["LSFT_T"] = "MOD_LSFT"
      /\ "LALT_T" \in DOMAIN ModTapOf /\ ModTapOf["LALT_T"] = "MOD_LALT"
      /\ "LGUI_T" \in DOMAIN ModTapOf /\ ModTapOf["LGUI_T"] = "MOD_LGUI"
  BY DEF ModTapOf
<1> QED BY <1>1, <1>2, <1>3 DEF FirstLayer, LayerCalls

LEMMA FirstTyped == ASSUME NEW S \in SUBSET Nat PROVE FirstOf(S) \in S \cup {0}
BY FirstIsLeast DEF FirstOf

LEMMA FirstBelow ==
  ASSUME NEW n \in Nat, NEW S \in SUBSET (1 .. n)
  PROVE  FirstOf(S) \in Nat /\ FirstOf(S) <= n
<1>1. S \in SUBSET Nat
  OBVIOUS
<1> DEFINE first == FirstOf(S)
<1>2. first \in S \/ first = 0
  BY <1>1, FirstTyped
<1>3. \A i \in S : i \in Nat /\ i <= n
  OBVIOUS
<1> HIDE DEF first
<1>4. CASE first \in S
  BY <1>3, <1>4 DEF first
<1>5. CASE first = 0
  BY <1>5 DEF first
<1> QED BY <1>2, <1>4, <1>5

LEMMA ListedTyped ==
  ASSUME NEW L, NEW layers \in Seq(L), NEW text \in Text, IsLayerTap(text), NEW ref \in text.hold
  PROVE  /\ ListedLayer(ref, layers) \in {0} \cup DOMAIN layers
         /\ ListedLayer(ref, layers) \in Nat /\ ListedLayer(ref, layers) <= LayersListed
<1>1. DOMAIN layers \subseteq Nat
  BY LenProperties
<1> DEFINE found == {i \in DOMAIN layers : i <= LayersListed /\ Identifier[layers[i].name] = ref}
<1>2. FirstOf(found) \in found \cup {0}
  <2> HIDE DEF found
  <2>1. found \in SUBSET Nat
    BY <1>1 DEF found
  <2> QED BY <2>1, FirstTyped
<1>3. DOMAIN layers = 1 .. Len(layers)
  BY LenProperties
<1>4. ref \notin DOMAIN Number => ListedLayer(ref, layers) = FirstOf(found)
  BY DEF ListedLayer
<1>6. CASE ref \notin DOMAIN Number
  <2> HIDE DEF found
  <2>1. FirstOf(found) \in found \/ FirstOf(found) = 0
    BY <1>2
  <2>2. \A i \in found : i \in DOMAIN layers /\ i \in Nat /\ i <= LayersListed
    BY <1>1 DEF found
  <2>3. LayersListed = 16
    BY DEF LayersListed
  <2> DEFINE first == FirstOf(found)
  <2> HIDE DEF first
  <2>4. first \in {0} \cup DOMAIN layers /\ first \in Nat /\ first <= LayersListed
    BY <2>1, <2>2, <2>3 DEF first
  <2> QED BY <1>4, <1>6, <2>4 DEF first
<1>7. CASE ref \in DOMAIN Number
  <2>1. ListedLayer(ref, layers) = IF Number[ref] + 1 \in DOMAIN layers THEN Number[ref] + 1 ELSE 0
    BY <1>7 DEF ListedLayer
  <2>2. Number[ref] \in Nat /\ Number[ref] + 1 <= LayersListed /\ LayersListed = 16
    BY <1>7, CatalogTyped DEF IsLayerTap, LayersListed
  <2> QED BY <2>1, <2>2
<1> QED BY <1>6, <1>7

\* refresh_tap_hold_editor shows a text and an item of the list.
LEMMA TapHoldTyped ==
  ASSUME NEW L, NEW layers \in Seq(L), NEW text \in Text
  PROVE  /\ TapHoldOf(text, layers) = [tap |-> TapHoldOf(text, layers).tap, hold |-> TapHoldOf(text, layers).hold]
         /\ TapHoldOf(text, layers).tap \in Text
         /\ TapHoldOf(text, layers).hold \in Nat
         /\ TapHoldOf(text, layers).hold <= Len(Modifiers) + LayersListed
<1>1. text.tap \in Word
  BY DEF Text
<1>2. Plain(Legend(text.tap)) \in Text /\ Plain(Empty) \in Text
  BY <1>1, LegendTyped, PlainTyped, CatalogTyped
<1>3. Len(Modifiers) + LayersListed = 20 /\ LayersListed = 16
  BY ModifierList DEF LayersListed
<1> DEFINE modifier == FirstOf({m \in DOMAIN Modifiers : text = Plain(Modifiers[m].label)})
           layer == FirstOf({i \in DOMAIN layers : text = Plain(layers[i].name)})
           held == CHOOSE ref \in text.hold : TRUE
<1>4. HeldModifier(text) \in Nat /\ HeldModifier(text) <= 4
  <2> DEFINE S == {m \in DOMAIN Modifiers :
                    text.call = Modifiers[m].call \/ (text.call = "MT" /\ text.hold = {Modifiers[m].mod})}
  <2>1. S \in SUBSET (1 .. 4)
    BY ModifierList
  <2>2. HeldModifier(text) = FirstOf(S)
    BY DEF HeldModifier
  <2> HIDE DEF S
  <2> QED BY <2>1, <2>2, FirstBelow
<1>5. modifier \in Nat /\ modifier <= 4
  <2>1. {m \in DOMAIN Modifiers : text = Plain(Modifiers[m].label)} \in SUBSET (1 .. 4)
    BY ModifierList
  <2> QED BY <2>1, FirstBelow
<1>6. \A i \in Nat : i <= 16 => HoldOfLayer(i) \in Nat /\ HoldOfLayer(i) <= 20
  BY ModifierList DEF HoldOfLayer
<1>7. IsLayerTap(text) => ListedLayer(held, layers) \in Nat /\ ListedLayer(held, layers) <= 16
  <2> SUFFICES ASSUME IsLayerTap(text)
               PROVE  ListedLayer(held, layers) \in Nat /\ ListedLayer(held, layers) <= 16
    OBVIOUS
  <2>1. held \in text.hold
    BY DEF Text, IsLayerTap, LayerCalls
  <2> HIDE DEF held
  <2> QED BY <1>3, <2>1, ListedTyped
<1>8. TapHoldOf(text, layers) =
        IF HeldModifier(text) # 0
        THEN [tap |-> Plain(Legend(text.tap)), hold |-> HeldModifier(text)]
        ELSE IF IsLayerTap(text)
        THEN [tap |-> Plain(Legend(text.tap)),
              hold |-> HoldOfLayer(ListedLayer(held, layers))]
        ELSE IF modifier # 0 THEN [tap |-> Plain(Empty), hold |-> modifier]
        ELSE IF layer \in 1 .. LayersListed THEN [tap |-> Plain(Empty), hold |-> HoldOfLayer(layer)]
        ELSE [tap |-> text, hold |-> 0]
  BY DEF TapHoldOf
<1> HIDE DEF modifier, layer, held
<1>9. IsLayerTap(text) =>
        HoldOfLayer(ListedLayer(held, layers)) \in Nat /\ HoldOfLayer(ListedLayer(held, layers)) <= 20
  BY <1>6, <1>7
<1>10. layer \in 1 .. LayersListed => HoldOfLayer(layer) \in Nat /\ HoldOfLayer(layer) <= 20
  BY <1>3, <1>6
<1>11. CASE HeldModifier(text) # 0
  BY <1>2, <1>3, <1>4, <1>8, <1>11
<1>12. CASE HeldModifier(text) = 0 /\ IsLayerTap(text)
  BY <1>2, <1>3, <1>8, <1>9, <1>12
<1>13. CASE HeldModifier(text) = 0 /\ ~ IsLayerTap(text)
  BY <1>2, <1>3, <1>5, <1>8, <1>10, <1>13
<1> QED BY <1>11, <1>12, <1>13

\* on_apply_tap_hold gives a key a text.
LEMMA AssignedTyped ==
  ASSUME NEW tap \in Text, NEW hold \in 0 .. Len(Modifiers) + LayersListed, NEW layers
  PROVE  NamesOf(layers) \subseteq LayerName => Assigned(tap, hold, layers) \in Text
<1>1. CASE hold \in 1 .. 4
  <2>1. Call(Modifiers[hold].call, {}, TapCode(tap.tap)) \in Text
    BY <1>1, CallTyped, TapCodeTyped, ModifierList, CatalogTyped
  <2> QED BY <1>1, <2>1, NoTextTyped, ModifierList DEF Assigned
<1>2. CASE hold \notin 0 .. 4
  <2> SUFFICES ASSUME NamesOf(layers) \subseteq LayerName, hold - FirstLayer + 1 \in DOMAIN layers
               PROVE  Assigned(tap, hold, layers) \in Text
    BY <1>2, NoTextTyped, ModifierList DEF Assigned
  <2> DEFINE id == Identifier[layers[hold - FirstLayer + 1].name]
  <2>1. layers[hold - FirstLayer + 1].name \in LayerName
    BY DEF NamesOf
  <2>2. {id} \in SUBSET Word
    BY <2>1, LabelsTyped
  <2>3. Call("LT", {id}, TapCode(tap.tap)) \in Text
    <3> HIDE DEF id
    <3> QED BY <2>2, CallTyped, TapCodeTyped, CatalogTyped DEF LayerCalls
  <2> QED BY <1>2, <2>3, NoTextTyped, ModifierList DEF Assigned
<1>3. CASE hold = 0
  BY <1>3, NoTextTyped DEF Assigned
<1> QED BY <1>1, <1>2, <1>3
-----------------------------------------------------------------------------
(* describe_keycode and back.                                                *)

\* Which of the five mask bits each modifier has.
LEMMA ModifierBits ==
  /\ DOMAIN ModBits = {"MOD_LCTL", "MOD_LSFT", "MOD_LALT", "MOD_LGUI",
                       "MOD_RCTL", "MOD_RSFT", "MOD_RALT", "MOD_RGUI"}
  /\ ModBits["MOD_LCTL"] = 1 /\ ModBits["MOD_LSFT"] = 2 /\ ModBits["MOD_LALT"] = 4
  /\ ModBits["MOD_LGUI"] = 8 /\ ModBits["MOD_RCTL"] = 17 /\ ModBits["MOD_RSFT"] = 18
  /\ ModBits["MOD_RALT"] = 20 /\ ModBits["MOD_RGUI"] = 24
BY DEF ModBits

LEMMA BitTable ==
  /\ HasBit(1, 1) /\ ~ HasBit(1, 2) /\ ~ HasBit(1, 4) /\ ~ HasBit(1, 8) /\ ~ HasBit(1, 16)
  /\ ~ HasBit(2, 1) /\ HasBit(2, 2) /\ ~ HasBit(2, 4) /\ ~ HasBit(2, 8) /\ ~ HasBit(2, 16)
  /\ ~ HasBit(4, 1) /\ ~ HasBit(4, 2) /\ HasBit(4, 4) /\ ~ HasBit(4, 8) /\ ~ HasBit(4, 16)
  /\ ~ HasBit(8, 1) /\ ~ HasBit(8, 2) /\ ~ HasBit(8, 4) /\ HasBit(8, 8) /\ ~ HasBit(8, 16)
  /\ HasBit(17, 1) /\ ~ HasBit(17, 2) /\ ~ HasBit(17, 4) /\ ~ HasBit(17, 8) /\ HasBit(17, 16)
  /\ ~ HasBit(18, 1) /\ HasBit(18, 2) /\ ~ HasBit(18, 4) /\ ~ HasBit(18, 8) /\ HasBit(18, 16)
  /\ ~ HasBit(20, 1) /\ ~ HasBit(20, 2) /\ HasBit(20, 4) /\ ~ HasBit(20, 8) /\ HasBit(20, 16)
  /\ ~ HasBit(24, 1) /\ ~ HasBit(24, 2) /\ ~ HasBit(24, 4) /\ HasBit(24, 8) /\ HasBit(24, 16)
BY DEF HasBit

\* One modifier makes the mask of its bits.
LEMMA MaskOfOne == ASSUME NEW m \in DOMAIN ModBits PROVE Mask({m}) = ModBits[m]
<1>1. \A bit : BitOf({m}, bit) = IF HasBit(ModBits[m], bit) THEN bit ELSE 0
  BY DEF BitOf
<1> QED BY <1>1, ModifierBits, BitTable DEF Mask

\* A number below 32 is the sum of its bits.
LEMMA SumOfBits ==
  ASSUME NEW n \in Nat, n <= 31
  PROVE  n = (IF HasBit(n, 1) THEN 1 ELSE 0) + (IF HasBit(n, 2) THEN 2 ELSE 0)
             + (IF HasBit(n, 4) THEN 4 ELSE 0) + (IF HasBit(n, 8) THEN 8 ELSE 0)
             + (IF HasBit(n, 16) THEN 16 ELSE 0)
BY DEF HasBit

\* The modifiers of a mask make that mask again.
LEMMA MaskOfMods ==
  ASSUME NEW bits \in Nat, bits <= \h1f, ModsOf(bits) # {}
  PROVE  Mask(ModsOf(bits)) = bits /\ ModsOf(bits) \subseteq DOMAIN ModBits
<1> DEFINE mods == ModsOf(bits)
<1>1. CASE ~ HasBit(bits, 16)
  <2>1. \A m : m \in mods <=> /\ m \in {"MOD_LCTL", "MOD_LSFT", "MOD_LALT", "MOD_LGUI"}
                              /\ HasBit(bits, ModBits[m])
    BY <1>1 DEF ModsOf, ModsOfLeft
  <2>2. /\ "MOD_LCTL" \in mods <=> HasBit(bits, 1)
        /\ "MOD_LSFT" \in mods <=> HasBit(bits, 2)
        /\ "MOD_LALT" \in mods <=> HasBit(bits, 4)
        /\ "MOD_LGUI" \in mods <=> HasBit(bits, 8)
    BY <2>1, ModifierBits
  <2>3. \A m \in mods : m = "MOD_LCTL" \/ m = "MOD_LSFT" \/ m = "MOD_LALT" \/ m = "MOD_LGUI"
    BY <2>1
  <2> HIDE DEF mods
  <2>4. /\ (\E m \in mods : HasBit(ModBits[m], 1)) <=> HasBit(bits, 1)
        /\ (\E m \in mods : HasBit(ModBits[m], 2)) <=> HasBit(bits, 2)
        /\ (\E m \in mods : HasBit(ModBits[m], 4)) <=> HasBit(bits, 4)
        /\ (\E m \in mods : HasBit(ModBits[m], 8)) <=> HasBit(bits, 8)
        /\ ~ \E m \in mods : HasBit(ModBits[m], 16)
    BY <2>2, <2>3, ModifierBits, BitTable
  <2>5. mods \subseteq DOMAIN ModBits
    BY <2>3, ModifierBits
  <2>6. Mask(mods) = bits
    BY <1>1, <2>4, SumOfBits DEF Mask, BitOf
  <2> QED BY <2>5, <2>6 DEF mods
<1>2. CASE HasBit(bits, 16)
  <2>1. \A m : m \in mods <=> /\ m \in {"MOD_RCTL", "MOD_RSFT", "MOD_RALT", "MOD_RGUI"}
                              /\ HasBit(bits, ModBits[m] - 16)
    BY <1>2 DEF ModsOf
  <2>2. /\ "MOD_RCTL" \in mods <=> HasBit(bits, 1)
        /\ "MOD_RSFT" \in mods <=> HasBit(bits, 2)
        /\ "MOD_RALT" \in mods <=> HasBit(bits, 4)
        /\ "MOD_RGUI" \in mods <=> HasBit(bits, 8)
    BY <2>1, ModifierBits
  <2>3. \A m \in mods : m = "MOD_RCTL" \/ m = "MOD_RSFT" \/ m = "MOD_RALT" \/ m = "MOD_RGUI"
    BY <2>1
  <2> HIDE DEF mods
  <2>4. /\ (\E m \in mods : HasBit(ModBits[m], 1)) <=> HasBit(bits, 1)
        /\ (\E m \in mods : HasBit(ModBits[m], 2)) <=> HasBit(bits, 2)
        /\ (\E m \in mods : HasBit(ModBits[m], 4)) <=> HasBit(bits, 4)
        /\ (\E m \in mods : HasBit(ModBits[m], 8)) <=> HasBit(bits, 8)
        /\ \A m \in mods : HasBit(ModBits[m], 16)
    BY <2>2, <2>3, ModifierBits, BitTable
  <2>5. mods \subseteq DOMAIN ModBits /\ \E m \in mods : HasBit(ModBits[m], 16)
    BY <2>3, <2>4, ModifierBits DEF mods
  <2>6. Mask(mods) = bits
    BY <1>2, <2>4, <2>5, SumOfBits DEF Mask, BitOf
  <2> QED BY <2>5, <2>6 DEF mods
<1> QED BY <1>1, <1>2
\* A basic keycode has its name back.
LEMMA BasicPreferred ==
  ASSUME NEW code \in Nat, Preferred(code % \h100) # Empty
  PROVE  Basic(Preferred(code % \h100)) = code % \h100
<1>1. code % \h100 \in Nat /\ code % \h100 <= \hff
  OBVIOUS
<1> DEFINE c == code % \h100
<1> HIDE DEF c
<1>2. Preferred(c) # Empty => Preferred(c) \in Name /\ Code[Preferred(c)] = c
  BY PreferredNames
<1> QED BY <1>1, <1>2 DEF Basic, c

\* The remainder of a number of the second range of 32.
LEMMA ModOfRange == ASSUME NEW q \in Nat, \h20 <= q, q < \h40 PROVE q % \h20 = q - \h20
OBVIOUS

\* Whatever a keycode is described as, if that resolves, resolves to the
\* keycode, where no layer has another's id for its id or its name.
LEMMA DescribeResolves ==
  ASSUME NEW L, NEW layers \in Seq(L), NEW M, NEW others \in Seq(M),
         DOMAIN others = DOMAIN layers,
         \A i \in DOMAIN layers : others[i].id = layers[i].id,
         \A i, j \in DOMAIN layers : others[i].id \in {others[j].id, others[j].name} => i = j,
         NEW code \in U16, Resolve(Describe(code, layers), others) # NoCode
  PROVE  Resolve(Describe(code, layers), others) = code
<1> DEFINE text == Describe(code, layers)
           tap == Preferred(code % \h100)
<1>1. code \in Nat /\ code <= \hffff
  BY DEF U16
<1>2. Resolve(NoText, others) = NoCode
  <2>1. NoText.call = "none"
    BY DEF NoText, Call
  <2>2. "none" \notin LayerCalls \cup DOMAIN ModTapOf \cup {"plain", "MT"}
    BY CallsApart DEF LayerCalls
  <2> QED BY <2>1, <2>2, ResolveOther
<1>3. \A i \in DOMAIN layers : LayerOf(layers[i].id, others) = i
  BY LayerOfOnly
<1>4. DOMAIN layers = 1 .. Len(layers)
  BY LenProperties
<1>5. tap # Empty => Basic(tap) = code % \h100
  BY <1>1, BasicPreferred
<1>6. \A f, i, x : LayerCall(f, i, x, layers) # NoText =>
         /\ i \in DOMAIN layers
         /\ LayerCall(f, i, x, layers).call = f /\ LayerCall(f, i, x, layers).hold = {layers[i].id}
         /\ LayerCall(f, i, x, layers).tap = x
  BY DEF LayerCall, Call
<1>7. text # NoText
  BY <1>2
<1>8. CASE \h5200 <= code /\ code <= \h521f
  <2> DEFINE i == code - \h5200 + 1
  <2>1. text = LayerCall("TO", i, Empty, layers)
    BY <1>1, <1>8, DescribeCases
  <2> HIDE DEF text
  <2>2. i \in DOMAIN layers /\ text.call = "TO" /\ text.hold = {layers[i].id} /\ text.tap = Empty
    <3> HIDE DEF i
    <3> QED BY <1>6, <1>7, <2>1
  <2>3. text.call = "TO" /\ text.hold = {layers[i].id} /\ text.tap = Empty
    BY <2>2
  <2>4. LayerOf(layers[i].id, others) = i /\ i \in Nat /\ 0 < i /\ i <= 32
    BY <1>1, <1>3, <1>8, <2>2
  <2>5. Resolve(text, others) = \h5200 + i - 1
    <3> HIDE DEF i
    <3> QED BY <2>3, <2>4, ResolveTo
  <2> QED BY <1>1, <2>5 DEF text
<1>9. CASE \h5220 <= code /\ code <= \h522f
  <2> DEFINE i == code - \h5220 + 1
  <2>1. text = LayerCall("MO", i, Empty, layers)
    BY <1>1, <1>9, DescribeCases
  <2> HIDE DEF text
  <2>2. i \in DOMAIN layers /\ text.call = "MO" /\ text.hold = {layers[i].id} /\ text.tap = Empty
    <3> HIDE DEF i
    <3> QED BY <1>6, <1>7, <2>1
  <2>3. text.call = "MO" /\ text.hold = {layers[i].id} /\ text.tap = Empty
    BY <2>2
  <2>4. LayerOf(layers[i].id, others) = i /\ i > 0
    BY <1>1, <1>3, <1>9, <2>2
  <2>5. Resolve(text, others) = Momentary(i)
    <3> HIDE DEF i
    <3> QED BY <2>3, <2>4, ResolveCall
  <2>6. Momentary(i) = code
    <3>1. i - 1 \in 0 .. 15 /\ code = \h5200 + (i - 1 + \h20)
      BY <1>1, <1>9
    <3> HIDE DEF i
    <3>2. (i - 1) \div \h20 = 0
      BY <3>1
    <3>3. ~ HasBit(i - 1, \h20)
      BY <3>2 DEF HasBit
    <3> QED BY <3>1, <3>3 DEF Momentary, WithBit
  <2> QED BY <2>5, <2>6 DEF text
<1>10. CASE code \div \h1000 = 4
  <2> DEFINE i == ((code \div \h100) % \h10) + 1
  <2>1. tap # Empty /\ text = LayerCall("LT", i, tap, layers)
    <3>1. text = IF tap = Empty THEN NoText ELSE LayerCall("LT", i, tap, layers)
      BY <1>1, <1>10, DescribeCases
    <3> QED BY <1>7, <3>1
  <2> HIDE DEF text, tap
  <2>2. i \in DOMAIN layers /\ text.call = "LT" /\ text.hold = {layers[i].id} /\ text.tap = tap
    <3> HIDE DEF i
    <3> QED BY <1>6, <1>7, <2>1
  <2>3. text.call = "LT" /\ text.hold = {layers[i].id} /\ text.tap = tap
    BY <2>2
  <2>4. LayerOf(layers[i].id, others) = i
    BY <1>3, <2>2
  <2>5. Resolve(text, others) = LayerTap(i, Basic(tap))
    <3> HIDE DEF i
    <3> QED BY <2>3, <2>4, ResolveCall
  <2>6. i \in Nat /\ i > 0 /\ i <= 16 /\ code = \h4000 + \h100 * (i - 1) + (code % \h100)
    BY <1>1, <1>10
  <2>7. code % \h100 # NoCode
    BY <1>1 DEF NoCode
  <2>8. LayerTap(i, code % \h100) = \h100 * WithBit(i - 1, \h40) + (code % \h100)
    <3> HIDE DEF i
    <3> QED BY <2>6, <2>7 DEF LayerTap
  <2>9. WithBit(i - 1, \h40) = \h40 + i - 1
    <3> HIDE DEF i
    <3> QED BY <2>6 DEF WithBit, HasBit
  <2>10. Resolve(text, others) = code
    <3> HIDE DEF i
    <3> QED BY <1>1, <1>5, <2>1, <2>5, <2>6, <2>8, <2>9
  <2> QED BY <2>10 DEF text
<1>11. CASE code \div \h2000 = 1
  <2> DEFINE bits == (code \div \h100) % \h20
             short == {f \in DOMAIN ModTapOf : ModBits[ModTapOf[f]] = bits}
  <2>1. text = DescribeModTap(bits, tap)
    BY <1>1, <1>11, DescribeCases
  <2>2. bits \in Nat /\ bits <= \h1f /\ code = \h2000 + \h100 * bits + (code % \h100)
    <3> DEFINE q == code \div \h100
    <3>1. q \in Nat /\ code = \h100 * q + (code % \h100) /\ \h2000 <= code /\ code < \h4000
      BY <1>1, <1>11
    <3>2. \h20 <= q /\ q < \h40
      BY <1>1, <3>1
    <3>3. q % \h20 = q - \h20
      <4> HIDE DEF q
      <4> QED BY <3>1, <3>2, ModOfRange
    <3> QED BY <3>1, <3>2, <3>3
  <2>3. tap # Empty
    BY <1>7, <2>1 DEF DescribeModTap
  <2>4. Basic(tap) = code % \h100 /\ code % \h100 # NoCode
    BY <1>1, <1>5, <2>3 DEF NoCode
  <2>5. ASSUME NEW mods, mods \subseteq DOMAIN ModBits, mods # {}, Mask(mods) = bits
        PROVE  ModTap(mods, Basic(tap)) = code
    <3>1. ModTap(mods, Basic(tap)) = \h2000 + \h100 * bits + (code % \h100)
      <4> HIDE DEF bits, tap
      <4> QED BY <2>4, <2>5 DEF ModTap
    <3> QED BY <2>2, <3>1
  <2>6. CASE short # {}
    <3> DEFINE f == CHOOSE g \in short : TRUE
    <3>1. f \in short
      BY <2>6
    <3>2. f \in DOMAIN ModTapOf /\ ModBits[ModTapOf[f]] = bits
      BY <3>1
    <3>3. text = Call(f, {}, tap)
      BY <2>1, <2>3, <2>6 DEF DescribeModTap
    <3> HIDE DEF f, short, text, tap, bits
    <3>4. text.call = f /\ text.tap = tap /\ text.hold = {}
      BY <3>3 DEF Call
    <3>5. Resolve(text, others) = ModTap({ModTapOf[f]}, Basic(tap))
      BY <3>2, <3>4, ResolveModTap
    <3>6. ModTapOf[f] \in DOMAIN ModBits
      BY <3>2, ModifierBits DEF ModTapOf
    <3>7. Mask({ModTapOf[f]}) = bits
      BY <3>2, <3>6, MaskOfOne
    <3>8. ModTap({ModTapOf[f]}, Basic(tap)) = code
      BY <2>5, <3>6, <3>7
    <3> QED BY <3>5, <3>8 DEF text
  <2>7. CASE short = {}
    <3>1. text = Call("MT", ModsOf(bits), tap)
      BY <2>1, <2>3, <2>7 DEF DescribeModTap
    <3> HIDE DEF text, tap, bits
    <3>2. text.call = "MT" /\ text.hold = ModsOf(bits) /\ text.tap = tap
      BY <3>1 DEF Call
    <3>3. Resolve(text, others) = ModTap(ModsOf(bits), Basic(tap))
      BY <3>2, ResolveModTap
    <3>4. ModsOf(bits) # {}
      <4>1. Resolve(text, others) # NoCode
        BY DEF text
      <4> QED BY <3>3, <4>1 DEF ModTap
    <3>5. Mask(ModsOf(bits)) = bits /\ ModsOf(bits) \subseteq DOMAIN ModBits
      BY <2>2, <3>4, MaskOfMods
    <3>6. ModTap(ModsOf(bits), Basic(tap)) = code
      BY <2>5, <3>4, <3>5
    <3> QED BY <3>3, <3>6 DEF text
  <2> QED BY <2>6, <2>7
<1>12. CASE ~ (\h5200 <= code /\ code <= \h522f) /\ code \div \h1000 # 4 /\ code \div \h2000 # 1
  <2>1. Preferred(code) # Empty /\ text = Plain(Preferred(code))
    BY <1>1, <1>7, <1>12, DescribeCases
  <2>2. Preferred(code) \in Name /\ Code[Preferred(code)] = code
    BY <2>1, PreferredNames
  <2> HIDE DEF text
  <2>3. text.call = "plain" /\ text.tap = Preferred(code)
    BY <2>1 DEF Plain
  <2>4. Resolve(text, others) = Code[Preferred(code)]
    BY <2>2, <2>3, ResolvePlain
  <2> QED BY <2>2, <2>4 DEF text
<1> QED BY <1>1, <1>8, <1>9, <1>10, <1>11, <1>12
-----------------------------------------------------------------------------
(* A keycode's legend and back.                                              *)

\* How the two tables belong together: a label of the editor's is the legend
\* of the keycode it stands for, but for two spellings that are no legends.
LEMMA TapsAreLegends == \A p \in Taps : p[1] = "TRNS" \/ p[1] = "NO" \/ <<p[2], p[1]>> \in Legends
BY SMTT(60) DEF Taps, Legends

LEMMA NoSuchLegend == \A p \in Legends : p[2] # "TRNS" /\ p[2] # "NO"
BY SMTT(60) DEF Legends

LEMMA OneLegend == \A p, q \in Legends : p[1] = q[1] => p[2] = q[2]
BY SMTT(60) DEF Legends

\* A text that has no row in a table.
LEMMA FindNone ==
  ASSUME NEW table, NEW x, NEW default, ~ \E p \in table : p[1] = x
  PROVE  Find(x, table, default) = default
<1>1. {p \in table : p[1] = x} = {}
  OBVIOUS
<1> QED BY <1>1 DEF Find

\* The legend of a letter, of a text in the table, and of any other.
LEMMA LegendCases ==
  ASSUME NEW x
  PROVE  /\ \A a \in DOMAIN Alnum : Alnum[a] = x => Legend(x) = a
         /\ \A p \in Legends : p[1] = x => Legend(x) = p[2]
         /\ x \notin Letters /\ (~ \E p \in Legends : p[1] = x) => Legend(x) = x
<1>1. ASSUME NEW a \in DOMAIN Alnum, Alnum[a] = x
      PROVE  Legend(x) = a
  <2>1. (CHOOSE b \in DOMAIN Alnum : Alnum[b] = x) = a
    BY <1>1, LabelAssumption
  <2> QED BY <1>1, <2>1 DEF Legend
<1>2. x \notin Letters => Legend(x) = Find(x, Legends, x)
  BY DEF Legend, Letters
<1>3. ASSUME NEW p \in Legends, p[1] = x
      PROVE  Legend(x) = p[2]
  <2>1. x \notin Letters
    BY <1>3, LabelAssumption
  <2>2. <<x, Find(x, Legends, x)>> \in Legends
    BY <1>3, FindRow, TablesTyped
  <2> DEFINE q == <<x, Find(x, Legends, x)>>
  <2>3. q[1] = x /\ q[2] = Find(x, Legends, x)
    OBVIOUS
  <2> HIDE DEF q
  <2>4. q \in Legends
    BY <2>2 DEF q
  <2> QED BY <1>2, <1>3, <2>1, <2>3, <2>4, OneLegend
<1>4. (~ \E p \in Legends : p[1] = x) => Find(x, Legends, x) = x
  BY FindNone
<1> QED BY <1>1, <1>2, <1>3, <1>4

\* What the editor writes for the legend of a keycode, if it writes anything,
\* is a name of that keycode, where the legend is that keycode's alone.
LEMMA LegendBack ==
  ASSUME NEW x \in Name, \A n \in Name : Legend(n) = Legend(x) => Code[n] = Code[x],
         TapCode(Legend(x)) # Empty
  PROVE  TapCode(Legend(x)) \in Name /\ Code[TapCode(Legend(x))] = Code[x]
<1> DEFINE l == Legend(x)
           direct(y) == IF y \in DOMAIN Alnum THEN Alnum[y] ELSE Find(y, Taps, Empty)
<1>1. TapCode(l) = IF direct(l) = Empty /\ l \in Prefixed THEN direct(Legend(l)) ELSE direct(l)
  BY DEF TapCode
<1>2. Letters \subseteq Name
  BY LabelAssumption DEF Written
<1>3. ASSUME NEW a \in DOMAIN Alnum, l = a
      PROVE  TapCode(l) \in Name /\ Code[TapCode(l)] = Code[x]
  <2>1. Alnum[a] \in Name /\ Legend(Alnum[a]) = a
    BY <1>2, LegendCases DEF Letters
  <2>2. direct(l) = Alnum[a] /\ direct(l) # Empty
    BY <1>3, <2>1, CatalogTyped
  <2> HIDE DEF l, direct
  <2>3. TapCode(l) = Alnum[a]
    BY <1>1, <2>2
  <2> QED BY <1>3, <2>1, <2>3 DEF l
<1>4. CASE x \in Letters
  <2>1. PICK a \in DOMAIN Alnum : Alnum[a] = x
    BY <1>4 DEF Letters
  <2> QED BY <1>3, <2>1, LegendCases
<1>5. CASE (\E p \in Legends : p[1] = x) /\ l \notin DOMAIN Alnum
  <2>1. PICK p \in Legends : p[1] = x
    BY <1>5
  <2>2. l = p[2] /\ l # "TRNS" /\ l # "NO" /\ l \notin Prefixed
    BY <2>1, LegendCases, NoSuchLegend, LabelAssumption
  <2>3. TapCode(l) = Find(l, Taps, Empty)
    BY <1>1, <1>5, <2>2
  <2> HIDE DEF l
  <2>4. \E q \in Taps : q[1] = l
    BY <2>3, FindNone DEF l
  <2> DEFINE y == Find(l, Taps, Empty)
             q == <<l, y>>
  <2>5. q \in Taps
    BY <2>4, FindRow, TablesTyped
  <2>6. q[1] = l /\ q[2] = y
    OBVIOUS
  <2> HIDE DEF q, y
  <2>7. <<y, l>> \in Legends
    BY <2>2, <2>5, <2>6, TapsAreLegends
  <2>8. y \in Name
    BY <2>5, <2>6, LabelAssumption DEF Written
  <2>9. Legend(y) = l
    <3> DEFINE r == <<y, l>>
    <3>1. r \in Legends /\ r[1] = y /\ r[2] = l
      BY <2>7
    <3> HIDE DEF r
    <3> QED BY <3>1, LegendCases
  <2> QED BY <2>3, <2>8, <2>9 DEF l, y
<1>6. CASE x \notin Letters /\ ~ \E p \in Legends : p[1] = x
  <2>1. l = x
    BY <1>6, LegendCases
  <2>2. x \notin DOMAIN Alnum /\ ~ \E p \in Taps : p[1] = x
    BY LabelAssumption DEF Aliases
  <2>3. direct(x) = Empty
    BY <2>2, FindNone
  <2> HIDE DEF direct, l
  <2>4. TapCode(l) = Empty
    BY <1>1, <2>1, <2>3 DEF l
  <2> QED BY <2>4 DEF l
<1> QED BY <1>3, <1>4, <1>5, <1>6

\* The labels of shifted keycodes and of the bootloader are their legends.
LEMMA SymbolsAreLegends == \A p \in Symbols : <<p[2], p[1]>> \in Legends
BY SMTT(60) DEF Symbols, Legends

\* The two spellings that are no legends.
LEMMA SpelledOut ==
  /\ \A p \in Taps : (p[1] = "TRNS" => p[2] = "KC_TRNS") /\ (p[1] = "NO" => p[2] = "KC_NO")
  /\ <<"KC_TRNS", "___">> \in Legends /\ <<"KC_NO", "---">> \in Legends
  /\ <<"TRNS", "KC_TRNS">> \in Taps /\ <<"NO", "KC_NO">> \in Taps
<1>1. \A p \in Taps : (p[1] = "TRNS" => p[2] = "KC_TRNS") /\ (p[1] = "NO" => p[2] = "KC_NO")
  BY SMTT(60) DEF Taps
<1>2. <<"KC_TRNS", "___">> \in Legends /\ <<"KC_NO", "---">> \in Legends
  BY DEF Legends
<1>3. <<"TRNS", "KC_TRNS">> \in Taps /\ <<"NO", "KC_NO">> \in Taps
  BY DEF Taps
<1> QED BY <1>1, <1>2, <1>3

\* What a row of a table has for its text.
LEMMA LegendOfRow == ASSUME NEW y, NEW l, <<y, l>> \in Legends PROVE Legend(y) = l
<1> DEFINE r == <<y, l>>
<1>1. r \in Legends /\ r[1] = y /\ r[2] = l
  OBVIOUS
<1> HIDE DEF r
<1> QED BY <1>1, LegendCases

\* What the editor writes for one of its labels is a keycode with that label
\* for its legend.
LEMMA LabelWritten ==
  ASSUME NEW x \in Aliases \cup DOMAIN Alnum,
         NEW y, y = IF TapCode(x) # Empty THEN TapCode(x) ELSE Find(x, Symbols, x)
  PROVE  /\ y \in Name /\ x \notin Name
         /\ Legend(y) = IF x = "TRNS" THEN "___" ELSE IF x = "NO" THEN "---" ELSE x
<1>1. x \notin Name /\ x \notin Prefixed
  BY LabelAssumption
<1>2. TapCode(x) = IF x \in DOMAIN Alnum THEN Alnum[x] ELSE Find(x, Taps, Empty)
  BY <1>1 DEF TapCode
<1>3. "TRNS" \in Aliases /\ "NO" \in Aliases
  <2> DEFINE p == <<"TRNS", "KC_TRNS">>
             q == <<"NO", "KC_NO">>
  <2>1. p[1] = "TRNS" /\ q[1] = "NO" /\ p \in Taps /\ q \in Taps
    BY SpelledOut
  <2> HIDE DEF p, q
  <2> QED BY <2>1 DEF Aliases
<1>4. CASE x \in DOMAIN Alnum
  <2>1. y = Alnum[x]
    <3>1. Alnum[x] # Empty
      BY <1>4, LabelAssumption, CatalogTyped DEF Written, Letters
    <3> QED BY <1>2, <1>4, <3>1
  <2>2. Alnum[x] \in Name
    BY <1>4, LabelAssumption DEF Written, Letters
  <2>3. Legend(Alnum[x]) = x
    BY <1>4, LegendCases
  <2>4. x # "TRNS" /\ x # "NO"
    BY <1>3, <1>4, LabelAssumption
  <2> QED BY <1>1, <2>1, <2>2, <2>3, <2>4
<1>5. CASE x \notin DOMAIN Alnum /\ \E p \in Taps : p[1] = x
  <2> DEFINE z == Find(x, Taps, Empty)
             q == <<x, z>>
  <2>1. q \in Taps
    BY <1>5, FindRow, TablesTyped
  <2>2. q[1] = x /\ q[2] = z
    OBVIOUS
  <2>3. TapCode(x) = z
    BY <1>2, <1>5
  <2> HIDE DEF q, z
  <2>4. z \in Name
    BY <2>1, <2>2, LabelAssumption DEF Written
  <2>5. y = z
    BY <2>3, <2>4, CatalogTyped
  <2>6. CASE x = "TRNS"
    <3>1. z = "KC_TRNS"
      BY <2>1, <2>2, <2>6, SpelledOut
    <3>2. Legend("KC_TRNS") = "___"
      BY SpelledOut, LegendOfRow
    <3> QED BY <1>1, <2>4, <2>5, <2>6, <3>1, <3>2
  <2>7. CASE x = "NO"
    <3>1. z = "KC_NO"
      BY <2>1, <2>2, <2>7, SpelledOut
    <3>2. Legend("KC_NO") = "---"
      BY SpelledOut, LegendOfRow
    <3>3. x # "TRNS"
      BY <2>7
    <3> QED BY <1>1, <2>4, <2>5, <2>7, <3>1, <3>2, <3>3
  <2>8. CASE x # "TRNS" /\ x # "NO"
    <3>1. <<z, x>> \in Legends
      BY <2>1, <2>2, <2>8, TapsAreLegends
    <3> QED BY <1>1, <2>4, <2>5, <2>8, <3>1, LegendOfRow
  <2> QED BY <2>6, <2>7, <2>8
<1>6. CASE x \notin DOMAIN Alnum /\ ~ \E p \in Taps : p[1] = x
  <2>1. TapCode(x) = Empty
    BY <1>2, <1>6, FindNone
  <2>2. \E p \in Symbols : p[1] = x
    BY <1>6 DEF Aliases
  <2> DEFINE z == Find(x, Symbols, x)
             q == <<x, z>>
  <2>3. q \in Symbols
    BY <2>2, FindRow, TablesTyped
  <2>4. q[1] = x /\ q[2] = z /\ y = z
    BY <2>1
  <2> HIDE DEF q, z
  <2>5. z \in Name
    BY <2>3, <2>4, LabelAssumption DEF Written
  <2>6. <<z, x>> \in Legends
    BY <2>3, <2>4, SymbolsAreLegends
  <2>7. x # "TRNS" /\ x # "NO"
    <3> DEFINE p == <<"TRNS", "KC_TRNS">>
               r == <<"NO", "KC_NO">>
    <3>1. p[1] = "TRNS" /\ r[1] = "NO" /\ p \in Taps /\ r \in Taps
      BY SpelledOut
    <3> HIDE DEF p, r
    <3> QED BY <1>6, <3>1
  <2> QED BY <1>1, <2>4, <2>5, <2>6, <2>7, LegendOfRow
<1> QED BY <1>4, <1>5, <1>6
-----------------------------------------------------------------------------
(* The macro buffer: what decode_macro_buffer makes of a buffer that          *)
(* desired_macro_buffer could have filled, it makes that buffer of again.     *)

\* What holds of 0, and of every number up to n if of the one before, holds of
\* them all.
LEMMA UpTo ==
  ASSUME NEW n \in Nat, NEW S, 0 \in S, \A i \in 1 .. n : i - 1 \in S => i \in S
  PROVE  \A i \in 0 .. n : i \in S
<1> SUFFICES ASSUME NEW k \in 0 .. n, k \notin S PROVE FALSE
  OBVIOUS
<1> DEFINE T == {i \in 0 .. n : i \notin S}
<1>1. PICK i \in T : \A j \in T : i <= j
  <2>1. T \in SUBSET Nat /\ T # {}
    OBVIOUS
  <2> HIDE DEF T
  <2> QED BY <2>1, LeastExists
<1>2. i \in 1 .. n /\ i - 1 \in 0 .. n /\ i - 1 \notin T
  BY <1>1
<1> QED BY <1>1, <1>2

\* Each value computed from the one before, and steps that stay in a set.
Computed(f, base, step, N) == f[1] = base /\ \A i \in 2 .. N : f[i] = step[i][f[i - 1]]
StaysIn(T, step, N) == \A i \in 2 .. N : \A x \in T : step[i][x] \in T

\* Values that are each computed from the one before exist.
LEMMA Recursion ==
  ASSUME NEW T, NEW N \in Nat, N # 0, NEW base \in T, NEW step, StaysIn(T, step, N)
  PROVE  \E f \in [1 .. N -> T] : Computed(f, base, step, N)
<1> USE DEF Computed, StaysIn
<1> DEFINE Computes(f, n) == Computed(f, base, step, n)
           S == {n \in 0 .. N : n = 0 \/ \E f \in [1 .. n -> T] : Computes(f, n)}
<1>1. ASSUME NEW n \in 1 .. N, n - 1 \in S
      PROVE  n \in S
  <2>1. CASE n = 1
    <3> DEFINE g == [i \in 1 .. 1 |-> base]
    <3>1. g \in [1 .. 1 -> T] /\ Computes(g, 1)
      OBVIOUS
    <3> HIDE DEF g, Computes
    <3> QED BY <2>1, <3>1
  <2>2. CASE n # 1
    <3>1. PICK f \in [1 .. n - 1 -> T] : Computes(f, n - 1)
      BY <1>1, <2>2
    <3> DEFINE g == [i \in 1 .. n |-> IF i = n THEN step[n][f[n - 1]] ELSE f[i]]
    <3>2. n - 1 \in 1 .. n - 1 /\ f[n - 1] \in T /\ n \in 2 .. N
      BY <2>2
    <3>3. g \in [1 .. n -> T]
      BY <3>2
    <3>4. Computes(g, n)
      <4>1. g[1] = base /\ g[n] = step[n][f[n - 1]] /\ \A i \in 1 .. n - 1 : g[i] = f[i]
        BY <2>2, <3>1
      <4> HIDE DEF g
      <4>2. ASSUME NEW i \in 2 .. n
            PROVE  g[i] = step[i][g[i - 1]]
        <5>1. i - 1 \in 1 .. n - 1 /\ (i = n \/ i \in 2 .. n - 1)
          OBVIOUS
        <5> QED BY <3>1, <4>1, <5>1
      <4> QED BY <4>1, <4>2
    <3> HIDE DEF g, Computes
    <3> QED BY <3>3, <3>4
  <2> QED BY <2>1, <2>2
<1>2. 0 \in S
  OBVIOUS
<1>3. N \in S
  <2> HIDE DEF S
  <2>1. \A n \in 1 .. N : n - 1 \in S => n \in S
    BY <1>1
  <2>2. \A n \in 0 .. N : n \in S
    BY <1>2, <2>1, UpTo
  <2> QED BY <2>2
<1> QED BY <1>3

\* FlattenSeq joins its sequences one after the other.
Joins(f, seqs) == f[1] = seqs[1] /\ \A i \in 2 .. Len(seqs) : f[i] = f[i - 1] \o seqs[i]

LEMMA FlattenSteps ==
  ASSUME NEW T, NEW seqs \in Seq(Seq(T)), Len(seqs) # 0
  PROVE  \E f \in [1 .. Len(seqs) -> Seq(T)] : FlattenSeq(seqs) = f[Len(seqs)] /\ Joins(f, seqs)
<1> DEFINE N == Len(seqs)
           step == [i \in 1 .. N |-> [x \in Seq(T) |-> x \o seqs[i]]]
           flatten[i \in 1 .. N] == IF i = 1 THEN seqs[i] ELSE flatten[i - 1] \o seqs[i]
<1>1. N \in Nat \ {0} /\ \A i \in 1 .. N : seqs[i] \in Seq(T)
  BY LenProperties, ElementOfSeq
<1>2. StaysIn(Seq(T), step, N)
  BY <1>1, ConcatProperties DEF StaysIn
<1>3. PICK f \in [1 .. N -> Seq(T)] : Computed(f, seqs[1], step, N)
  <2> DEFINE Whole == Seq(T)
             base == seqs[1]
  <2>1. base \in Whole /\ N \in Nat /\ N # 0 /\ StaysIn(Whole, step, N)
    BY <1>1, <1>2
  <2> HIDE DEF N, step, Whole, base
  <2>2. \E f \in [1 .. N -> Whole] : Computed(f, base, step, N)
    BY <2>1, Recursion
  <2> QED BY <2>2 DEF Whole, base
<1>4. ASSUME NEW i \in 2 .. N
      PROVE  f[i] = f[i - 1] \o seqs[i]
  <2>1. i \in 1 .. N /\ i - 1 \in 1 .. N
    BY <1>1
  <2>2. f[i - 1] \in Seq(T)
    BY <2>1
  <2>3. step[i] = [x \in Seq(T) |-> x \o seqs[i]]
    BY <2>1, Zenon
  <2>4. step[i][f[i - 1]] = f[i - 1] \o seqs[i]
    BY <2>2, <2>3, Zenon
  <2> QED BY <1>3, <2>4 DEF Computed
<1>5. FlattenSeq(seqs) = flatten[N]
  BY <1>1 DEF FlattenSeq
<1> HIDE DEF N, step
<1>6. f = [i \in 1 .. N |-> IF i = 1 THEN seqs[i] ELSE f[i - 1] \o seqs[i]]
  <2>1. ASSUME NEW i \in 1 .. N
        PROVE  f[i] = IF i = 1 THEN seqs[i] ELSE f[i - 1] \o seqs[i]
    <3>1. CASE i = 1
      BY <1>3, <3>1 DEF Computed
    <3>2. CASE i # 1
      <4>1. i \in 2 .. N
        BY <1>1, <3>2
      <4> QED BY <1>4, <3>2, <4>1, Zenon
    <3> QED BY <3>1, <3>2
  <2> QED BY <2>1, Zenon
<1>7. flatten = [i \in 1 .. N |-> IF i = 1 THEN seqs[i] ELSE flatten[i - 1] \o seqs[i]]
  BY <1>6, Zenon
<1> HIDE DEF flatten
<1>8. flatten[N] = f[N]
  <2> DEFINE same == {i \in 0 .. N : i = 0 \/ flatten[i] = f[i]}
  <2>1. ASSUME NEW i \in 1 .. N, i - 1 \in same
        PROVE  i \in same
    <3>1. flatten[i] = IF i = 1 THEN seqs[i] ELSE flatten[i - 1] \o seqs[i]
      BY <1>7, Zenon
    <3>2. f[i] = IF i = 1 THEN seqs[i] ELSE f[i - 1] \o seqs[i]
      BY <1>6, Zenon
    <3>3. i = 1 \/ flatten[i - 1] = f[i - 1]
      BY <1>1, <2>1
    <3>4. flatten[i] = f[i]
      BY <3>1, <3>2, <3>3, Zenon
    <3> QED BY <1>1, <3>4
  <2>2. 0 \in same
    BY <1>1
  <2>3. N \in same
    <3> HIDE DEF same
    <3>1. \A i \in 1 .. N : i - 1 \in same => i \in same
      BY <2>1
    <3>2. \A i \in 0 .. N : i \in same
      BY <1>1, <2>2, <3>1, UpTo
    <3> QED BY <1>1, <3>2
  <2> QED BY <1>1, <2>3
<1> QED BY <1>1, <1>3, <1>4, <1>5, <1>8 DEF N, Computed, Joins

\* A macro and the NUL behind it.
LEMMA Terminated ==
  ASSUME NEW macros \in Seq(Seq(U8))
  PROVE  LET ended == [i \in DOMAIN macros |-> Append(macros[i], 0)]
         IN  /\ ended \in Seq(Seq(U8)) /\ Len(ended) = Len(macros) /\ Len(macros) \in Nat
             /\ \A i \in 1 .. Len(macros) : ended[i] = Append(macros[i], 0) /\ macros[i] \in Seq(U8)
<1> DEFINE N == Len(macros)
           ended == [i \in DOMAIN macros |-> Append(macros[i], 0)]
<1>1. N \in Nat /\ DOMAIN macros = 1 .. N /\ \A i \in 1 .. N : macros[i] \in Seq(U8)
  BY LenProperties, ElementOfSeq
<1>2. 0 \in U8
  BY DEF U8
<1>3. \A i \in 1 .. N : Append(macros[i], 0) \in Seq(U8)
  BY <1>1, <1>2, AppendProperties
<1>4. ended \in [1 .. N -> Seq(U8)]
  BY <1>1, <1>3
<1>5. ended \in Seq(Seq(U8)) /\ Len(ended) = N
  BY <1>1, <1>4
<1> QED BY <1>1, <1>5

\* Macros that fit make a buffer.
LEMMA EncodeTyped ==
  ASSUME NEW macros \in Seq(Seq(U8)), EncodeMacros(macros) # NoBuffer
  PROVE  EncodeMacros(macros) \in Buffer
<1> DEFINE ended == [i \in DOMAIN macros |-> Append(macros[i], 0)]
           bytes == FlattenSeq(ended)
<1>1. ended \in Seq(Seq(U8)) /\ Len(ended) \in Nat
  BY Terminated
<1>2. bytes \in Seq(U8)
  <2> HIDE DEF ended
  <2>1. CASE Len(ended) = 0
    <3>1. ended = <<>>
      BY <1>1, <2>1, EmptySeq
    <3>2. bytes = ended
      BY <2>1 DEF FlattenSeq
    <3> QED BY <3>1, <3>2, EmptySeq
  <2>2. CASE Len(ended) # 0
    <3>1. Len(ended) \in 1 .. Len(ended)
      BY <1>1, <2>2
    <3>2. PICK f \in [1 .. Len(ended) -> Seq(U8)] : FlattenSeq(ended) = f[Len(ended)]
      BY <1>1, <2>2, FlattenSteps
    <3> QED BY <3>1, <3>2
  <2> QED BY <2>1, <2>2
<1> HIDE DEF bytes
<1>3. Len(bytes) \in Nat /\ \A i \in 1 .. Len(bytes) : bytes[i] \in U8
  BY <1>2, LenProperties, ElementOfSeq
<1>4. 0 \in U8
  BY DEF U8
<1>5. EncodeMacros(macros) = [i \in 1 .. BufferSize |-> IF i <= Len(bytes) THEN bytes[i] ELSE 0]
  BY DEF EncodeMacros, bytes
<1> QED BY <1>3, <1>4, <1>5 DEF Buffer

\* Counting the NULs up to a byte.
LEMMA NulsStep ==
  ASSUME NEW buffer \in Buffer
  PROVE  /\ Nuls(buffer, 0) = 0
         /\ \A n \in 0 .. BufferSize : Nuls(buffer, n) \in Nat
         /\ \A n \in 1 .. BufferSize :
               Nuls(buffer, n) = IF buffer[n] = 0 THEN Nuls(buffer, n - 1) + 1 ELSE Nuls(buffer, n - 1)
         /\ \A m, n \in 0 .. BufferSize : m <= n => Nuls(buffer, m) <= Nuls(buffer, n)
<1> DEFINE Found(n) == {j \in 1 .. n : buffer[j] = 0}
<1>1. BufferSize \in Nat
  BY CatalogAssumption
<1>2. \A n \in 0 .. BufferSize : IsFiniteSet(Found(n))
  <2> TAKE n \in 0 .. BufferSize
  <2>1. IsFiniteSet(1 .. n) /\ Found(n) \in SUBSET (1 .. n)
    BY <1>1, FS_Interval
  <2> HIDE DEF Found
  <2> QED BY <2>1, FS_Subset
<1>3. Nuls(buffer, 0) = 0
  <2>1. Found(0) = {}
    OBVIOUS
  <2> QED BY <2>1, FS_EmptySet DEF Nuls
<1>4. \A n \in 0 .. BufferSize : Nuls(buffer, n) \in Nat
  <2> TAKE n \in 0 .. BufferSize
  <2>1. Cardinality(Found(n)) \in Nat
    <3>1. IsFiniteSet(Found(n))
      BY <1>2
    <3> HIDE DEF Found
    <3> QED BY <3>1, FS_CardinalityType
  <2> QED BY <2>1 DEF Nuls
<1>5. ASSUME NEW n \in 1 .. BufferSize
      PROVE  Nuls(buffer, n) = IF buffer[n] = 0 THEN Nuls(buffer, n - 1) + 1 ELSE Nuls(buffer, n - 1)
  <2>1. n - 1 \in 0 .. BufferSize
    BY <1>1
  <2>2. CASE buffer[n] = 0
    <3>1. Found(n) = Found(n - 1) \cup {n} /\ n \notin Found(n - 1)
      BY <1>1, <2>2
    <3>2. Cardinality(Found(n - 1) \cup {n}) = Cardinality(Found(n - 1)) + 1
      <4>1. IsFiniteSet(Found(n - 1))
        BY <1>2, <2>1
      <4> HIDE DEF Found
      <4> QED BY <3>1, <4>1, FS_AddElement
    <3> QED BY <2>2, <3>1, <3>2 DEF Nuls
  <2>3. CASE buffer[n] # 0
    <3>1. Found(n) = Found(n - 1)
      BY <1>1, <2>3
    <3> QED BY <2>3, <3>1 DEF Nuls
  <2> QED BY <2>2, <2>3
<1>6. ASSUME NEW m \in 0 .. BufferSize, NEW n \in 0 .. BufferSize, m <= n
      PROVE  Nuls(buffer, m) <= Nuls(buffer, n)
  <2>1. Found(m) \in SUBSET Found(n)
    BY <1>1, <1>6
  <2>2. Cardinality(Found(m)) <= Cardinality(Found(n))
    <3>1. IsFiniteSet(Found(n))
      BY <1>2
    <3> HIDE DEF Found
    <3> QED BY <2>1, <3>1, FS_Subset
  <2> QED BY <2>2 DEF Nuls
<1> QED BY <1>3, <1>4, <1>5, <1>6

\* The length of a buffer, and the NULs that it has.
LEMMA BufferLen ==
  ASSUME NEW buffer \in Buffer
  PROVE  /\ buffer \in Seq(U8) /\ Len(buffer) = BufferSize /\ DOMAIN buffer = 1 .. BufferSize
         /\ BufferSize \in Nat /\ BufferSize # 0 /\ Nuls(buffer, Len(buffer)) \in Nat
<1>1. BufferSize \in Nat /\ BufferSize # 0
  BY CatalogAssumption
<1>2. buffer \in Seq(U8) /\ Len(buffer) = BufferSize /\ DOMAIN buffer = 1 .. BufferSize
  BY <1>1 DEF Buffer
<1>3. BufferSize \in 0 .. BufferSize
  BY <1>1
<1> QED BY <1>1, <1>2, <1>3, NulsStep

\* Every NUL counted is somewhere.
LEMMA NulFound ==
  ASSUME NEW buffer \in Buffer, NEW i \in 1 .. Nuls(buffer, Len(buffer))
  PROVE  /\ NulAt(buffer, i) \in 1 .. BufferSize /\ buffer[NulAt(buffer, i)] = 0
         /\ Nuls(buffer, NulAt(buffer, i)) = i
<1> DEFINE S == {p \in 1 .. BufferSize : Nuls(buffer, p) >= i}
<1>1. /\ Len(buffer) = BufferSize /\ DOMAIN buffer = 1 .. BufferSize
      /\ BufferSize \in Nat /\ BufferSize # 0 /\ Nuls(buffer, BufferSize) \in Nat
  BY BufferLen
<1>2. BufferSize \in S /\ S \in SUBSET Nat
  BY <1>1
<1>3. PICK p \in S : \A q \in S : p <= q
  <2> HIDE DEF S
  <2> QED BY <1>2, LeastExists
<1>4. p \in 1 .. BufferSize /\ Nuls(buffer, p) >= i /\ p - 1 \in 0 .. BufferSize
  BY <1>1, <1>3
<1>5. Nuls(buffer, p - 1) < i
  <2>1. CASE p = 1
    BY <1>1, <2>1, NulsStep
  <2>2. CASE p # 1
    <3>1. p - 1 \in 1 .. BufferSize /\ p - 1 \notin S
      BY <1>1, <1>3, <1>4, <2>2
    <3> QED BY <1>1, <1>4, <3>1, NulsStep
  <2> QED BY <2>1, <2>2
<1>6. buffer[p] = 0 /\ Nuls(buffer, p) = i
  <2>1. Nuls(buffer, p) = IF buffer[p] = 0 THEN Nuls(buffer, p - 1) + 1 ELSE Nuls(buffer, p - 1)
    BY <1>4, NulsStep
  <2>2. Nuls(buffer, p - 1) \in Nat
    BY <1>4, NulsStep
  <2> QED BY <1>1, <1>4, <1>5, <2>1, <2>2
<1>7. NulAt(buffer, i) = CHOOSE q \in DOMAIN buffer : buffer[q] = 0 /\ Nuls(buffer, q) = i
  BY <1>1 DEF NulAt
<1> QED BY <1>1, <1>4, <1>6, <1>7

\* NULs come one behind the other, the ends of the buffer included.
LEMMA NulOrder ==
  ASSUME NEW buffer \in Buffer
  PROVE  LET total == Nuls(buffer, Len(buffer))
         IN  /\ NulAt(buffer, 0) = 0 /\ NulAt(buffer, total + 1) = BufferSize + 1
             /\ \A i \in 0 .. total : /\ NulAt(buffer, i) \in 0 .. BufferSize
                                      /\ Nuls(buffer, NulAt(buffer, i)) = i
             /\ \A i, j \in 0 .. total + 1 : i < j => NulAt(buffer, i) < NulAt(buffer, j)
<1> DEFINE total == Nuls(buffer, Len(buffer))
<1>1. Len(buffer) = BufferSize /\ BufferSize \in Nat /\ total \in Nat
  BY BufferLen
<1>2. NulAt(buffer, 0) = 0 /\ NulAt(buffer, total + 1) = BufferSize + 1
  BY <1>1 DEF NulAt
<1>3. ASSUME NEW i \in 0 .. total
      PROVE  NulAt(buffer, i) \in 0 .. BufferSize /\ Nuls(buffer, NulAt(buffer, i)) = i
  <2>1. CASE i = 0
    BY <1>1, <1>2, <2>1, NulsStep
  <2>2. CASE i # 0
    <3>1. i \in 1 .. Nuls(buffer, Len(buffer))
      BY <1>1, <2>2
    <3> QED BY <1>1, <3>1, NulFound
  <2> QED BY <2>1, <2>2
<1> HIDE DEF total
<1>4. ASSUME NEW i \in 0 .. total + 1, NEW j \in 0 .. total + 1, i < j
      PROVE  NulAt(buffer, i) < NulAt(buffer, j)
  <2>1. i \in 0 .. total
    BY <1>1, <1>4
  <2>2. CASE j = total + 1
    BY <1>1, <1>2, <1>3, <2>1, <2>2
  <2>3. CASE j # total + 1
    <3>1. j \in 0 .. total
      BY <1>1, <2>3
    <3>2. /\ NulAt(buffer, i) \in 0 .. BufferSize /\ NulAt(buffer, j) \in 0 .. BufferSize
          /\ Nuls(buffer, NulAt(buffer, i)) = i /\ Nuls(buffer, NulAt(buffer, j)) = j
      BY <1>3, <2>1, <3>1
    <3>3. NulAt(buffer, j) <= NulAt(buffer, i) => j <= i
      BY <3>2, NulsStep
    <3> QED BY <1>1, <1>4, <3>2, <3>3
  <2> QED BY <2>2, <2>3
<1> QED BY <1>2, <1>3, <1>4 DEF total

\* A byte that is no NUL is between those before and behind it.
LEMMA ByteBetween ==
  ASSUME NEW buffer \in Buffer, NEW p \in 1 .. BufferSize, buffer[p] # 0
  PROVE  LET n == Nuls(buffer, p)
         IN  /\ n \in 0 .. Nuls(buffer, Len(buffer))
             /\ NulAt(buffer, n) < p /\ p < NulAt(buffer, n + 1)
<1> DEFINE n == Nuls(buffer, p)
           total == Nuls(buffer, Len(buffer))
<1>1. Len(buffer) = BufferSize /\ BufferSize \in Nat /\ total \in Nat
  BY BufferLen
<1>2. p \in 0 .. BufferSize /\ p - 1 \in 0 .. BufferSize /\ BufferSize \in 0 .. BufferSize
  BY <1>1
<1>3. n \in Nat /\ n <= total
  BY <1>1, <1>2, NulsStep
<1>4. /\ NulAt(buffer, 0) = 0 /\ NulAt(buffer, total + 1) = BufferSize + 1
      /\ \A i \in 0 .. total : NulAt(buffer, i) \in 0 .. BufferSize /\ Nuls(buffer, NulAt(buffer, i)) = i
  BY NulOrder
<1>5. Nuls(buffer, p - 1) = n
  BY NulsStep
<1> HIDE DEF n, total
<1>6. NulAt(buffer, n) < p
  <2>1. NulAt(buffer, n) \in 0 .. BufferSize /\ Nuls(buffer, NulAt(buffer, n)) = n
    BY <1>1, <1>3, <1>4
  <2>2. CASE n = 0
    BY <1>4, <2>2
  <2>3. CASE n # 0
    <3>1. n \in 1 .. Nuls(buffer, Len(buffer))
      BY <1>1, <1>3, <2>3 DEF total
    <3>2. buffer[NulAt(buffer, n)] = 0
      BY <3>1, NulFound
    <3>3. NulAt(buffer, n) # p
      BY <3>2
    <3>4. ASSUME p < NulAt(buffer, n)
          PROVE  FALSE
      <4> DEFINE q == NulAt(buffer, n)
      <4>1. q \in 1 .. BufferSize /\ q - 1 \in 0 .. BufferSize /\ p <= q - 1
        BY <1>1, <2>1, <3>4
      <4>2. Nuls(buffer, q) = Nuls(buffer, q - 1) + 1
        BY <3>2, <4>1, NulsStep
      <4>3. Nuls(buffer, p) <= Nuls(buffer, q - 1) /\ Nuls(buffer, q - 1) \in Nat
        BY <1>2, <4>1, NulsStep
      <4> HIDE DEF q
      <4> QED BY <1>3, <2>1, <4>2, <4>3 DEF n, q
    <3> QED BY <1>1, <2>1, <3>3, <3>4
  <2> QED BY <2>2, <2>3
<1>7. p < NulAt(buffer, n + 1)
  <2>1. CASE n = total
    BY <1>1, <1>4, <2>1
  <2>2. CASE n # total
    <3>1. n + 1 \in 0 .. total
      BY <1>1, <1>3, <2>2
    <3>2. NulAt(buffer, n + 1) \in 0 .. BufferSize /\ Nuls(buffer, NulAt(buffer, n + 1)) = n + 1
      BY <1>4, <3>1
    <3>3. NulAt(buffer, n + 1) <= p => n + 1 <= n
      BY <1>2, <3>2, NulsStep DEF n
    <3> QED BY <1>3, <3>2, <3>3
  <2> QED BY <2>1, <2>2
<1> QED BY <1>1, <1>3, <1>6, <1>7 DEF n, total

\* Split makes one piece more than there are NULs, each what lies between two.
LEMMA SplitTyped ==
  ASSUME NEW buffer \in Buffer
  PROVE  /\ Split(buffer) \in Seq(Seq(U8)) /\ Len(Split(buffer)) = Nuls(buffer, Len(buffer)) + 1
         /\ \A i \in 1 .. Nuls(buffer, Len(buffer)) + 1 :
               Split(buffer)[i] = SubSeq(buffer, NulAt(buffer, i - 1) + 1, NulAt(buffer, i) - 1)
<1> DEFINE total == Nuls(buffer, Len(buffer))
           Piece(i) == SubSeq(buffer, NulAt(buffer, i - 1) + 1, NulAt(buffer, i) - 1)
<1>1. /\ total \in Nat /\ BufferSize \in Nat
      /\ \A j \in 1 .. BufferSize : buffer[j] \in U8
  BY BufferLen DEF Buffer
<1>2. ASSUME NEW i \in 1 .. total + 1
      PROVE  Piece(i) \in Seq(U8)
  <2> DEFINE m == NulAt(buffer, i - 1) + 1
             n == NulAt(buffer, i) - 1
  <2>1. i - 1 \in 0 .. total /\ i \in 0 .. total + 1 /\ (i = total + 1 \/ i \in 0 .. total)
    BY <1>1
  <2>2. NulAt(buffer, i - 1) \in 0 .. BufferSize /\ NulAt(buffer, i) \in 0 .. BufferSize + 1
    BY <1>1, <2>1, NulOrder
  <2>3. m \in Int /\ n \in Int /\ 1 <= m /\ n <= BufferSize
    BY <1>1, <2>2
  <2> HIDE DEF m, n
  <2>4. \A j \in m .. n : buffer[j] \in U8
    BY <1>1, <2>3
  <2>5. SubSeq(buffer, m, n) \in Seq(U8)
    BY <2>3, <2>4, SubSeqProperties
  <2> QED BY <2>5 DEF m, n
<1>3. Split(buffer) = [i \in 1 .. total + 1 |-> Piece(i)]
  BY DEF Split
<1> HIDE DEF total, Piece
<1>4. Split(buffer) \in [1 .. total + 1 -> Seq(U8)]
  BY <1>2, <1>3
<1>5. Split(buffer) \in Seq(Seq(U8)) /\ Len(Split(buffer)) = total + 1
  BY <1>1, <1>4
<1> QED BY <1>3, <1>5 DEF total, Piece

\* Of the pieces the firmware has room for, the macros are those up to the
\* last that is not empty.
LEMMA DecodedMacros ==
  ASSUME NEW buffer \in Buffer
  PROVE  LET pieces == Split(buffer)
             room == IF Len(pieces) < Capacity THEN Len(pieces) ELSE Capacity
             macros == DecodeMacros(buffer)
         IN  /\ macros \in Seq(Seq(U8)) /\ Len(macros) \in 0 .. room
             /\ \A i \in 1 .. Len(macros) : macros[i] = pieces[i]
             /\ \A i \in Len(macros) + 1 .. room : pieces[i] = <<>>
             /\ Len(macros) # 0 => pieces[Len(macros)] # <<>>
<1> DEFINE pieces == Split(buffer)
           room == IF Len(pieces) < Capacity THEN Len(pieces) ELSE Capacity
           taken == SubSeq(pieces, 1, room)
           full == {i \in 1 .. Len(taken) : taken[i] # <<>>}
           last == IF full # {} THEN Max(full) ELSE 0
           macros == SubSeq(taken, 1, last)
<1>1. pieces \in Seq(Seq(U8)) /\ Len(pieces) \in Nat /\ Capacity \in Nat
  BY SplitTyped, BufferLen, CatalogAssumption DEF U8
<1>2. room \in Nat /\ room <= Len(pieces) /\ room <= Capacity
  BY <1>1
<1>3. \A i \in 1 .. Len(pieces) : pieces[i] \in Seq(U8)
  BY <1>1, ElementOfSeq
<1>4. macros = DecodeMacros(buffer)
  BY DEF DecodeMacros, SelectLastInSeq
<1> HIDE DEF pieces, room
<1>5. taken \in Seq(Seq(U8)) /\ Len(taken) = room /\ \A i \in 1 .. room : taken[i] = pieces[i]
  <2>1. 1 \in Int /\ room \in Int /\ \A i \in 1 .. room : pieces[i] \in Seq(U8)
    BY <1>1, <1>2, <1>3
  <2>2. /\ taken \in Seq(Seq(U8)) /\ Len(taken) = IF 1 <= room THEN room - 1 + 1 ELSE 0
        /\ \A i \in 1 .. room - 1 + 1 : taken[i] = pieces[1 + i - 1]
    BY <2>1, SubSeqProperties
  <2> QED BY <1>2, <2>2
<1> HIDE DEF taken
<1>6. /\ last \in 0 .. room
      /\ last # 0 => taken[last] # <<>>
      /\ \A i \in last + 1 .. room : taken[i] = <<>>
  <2>1. full \in SUBSET (1 .. room)
    BY <1>5
  <2>2. CASE full = {}
    <3>1. last = 0
      BY <2>2
    <3>2. \A i \in 1 .. room : taken[i] = <<>>
      BY <1>5, <2>2
    <3> HIDE DEF last, full
    <3> QED BY <1>2, <3>1, <3>2
  <2>3. CASE full # {}
    <3>1. \E x \in full : \A y \in full : x >= y
      <4> HIDE DEF full
      <4>1. PICK x \in full : \A y \in full : y <= x
        BY <1>2, <2>1, <2>3, GreatestExists
      <4> QED BY <1>2, <2>1, <4>1
    <3>2. Max(full) \in full /\ \A y \in full : Max(full) >= y
      <4> HIDE DEF full
      <4> QED BY <3>1 DEF Max
    <3>3. last = Max(full)
      BY <2>3
    <3> HIDE DEF last
    <3>4. last \in 1 .. room /\ taken[last] # <<>>
      BY <1>5, <3>2, <3>3
    <3>5. ASSUME NEW i \in last + 1 .. room
          PROVE  taken[i] = <<>>
      <4>1. i \in 1 .. room /\ ~ (last >= i)
        BY <1>2, <3>4
      <4> QED BY <1>5, <3>2, <3>3, <4>1
    <3> QED BY <1>2, <3>4, <3>5
  <2> QED BY <2>2, <2>3
<1> HIDE DEF last
<1>7. macros \in Seq(Seq(U8)) /\ Len(macros) = last /\ \A i \in 1 .. last : macros[i] = taken[i]
  <2>1. \A i \in 1 .. last : i \in 1 .. Len(taken)
    BY <1>2, <1>5, <1>6
  <2>2. 1 \in Int /\ last \in Int /\ \A i \in 1 .. last : taken[i] \in Seq(U8)
    BY <1>2, <1>5, <1>6, <2>1, ElementOfSeq
  <2>3. /\ macros \in Seq(Seq(U8)) /\ Len(macros) = IF 1 <= last THEN last - 1 + 1 ELSE 0
        /\ \A i \in 1 .. last - 1 + 1 : macros[i] = taken[1 + i - 1]
    BY <2>2, SubSeqProperties
  <2> QED BY <1>2, <1>6, <2>3
<1>8. \A i \in 1 .. last : macros[i] = pieces[i]
  BY <1>2, <1>5, <1>6, <1>7
<1>9. (\A i \in last + 1 .. room : pieces[i] = <<>>) /\ (last # 0 => pieces[last] # <<>>)
  BY <1>2, <1>5, <1>6
<1> HIDE DEF macros
<1> QED BY <1>4, <1>6, <1>7, <1>8, <1>9 DEF pieces, room

\* The pieces of a buffer, each with a NUL behind it, are its first bytes.
LEMMA PiecesJoined ==
  ASSUME NEW buffer \in Buffer, NEW macros \in Seq(Seq(U8)), Len(macros) # 0,
         Len(macros) <= Nuls(buffer, Len(buffer)),
         \A i \in 1 .. Len(macros) : macros[i] = Split(buffer)[i]
  PROVE  FlattenSeq([i \in DOMAIN macros |-> Append(macros[i], 0)])
            = SubSeq(buffer, 1, NulAt(buffer, Len(macros)))
<1> DEFINE total == Nuls(buffer, Len(buffer))
           N == Len(macros)
           ended == [i \in DOMAIN macros |-> Append(macros[i], 0)]
<1>1. /\ total \in Nat /\ BufferSize \in Nat /\ buffer \in Seq(U8) /\ Len(buffer) = BufferSize
      /\ N \in Nat /\ N # 0 /\ N <= total
  BY BufferLen, LenProperties
<1>2. /\ ended \in Seq(Seq(U8)) /\ Len(ended) = N
      /\ \A i \in 1 .. N : ended[i] = Append(macros[i], 0) /\ macros[i] \in Seq(U8)
  BY Terminated
<1> HIDE DEF total, N
<1>3. ASSUME NEW i \in 1 .. N
      PROVE  /\ NulAt(buffer, i - 1) \in 0 .. BufferSize /\ NulAt(buffer, i) \in 1 .. BufferSize
             /\ NulAt(buffer, i - 1) < NulAt(buffer, i)
             /\ ended[i] = SubSeq(buffer, NulAt(buffer, i - 1) + 1, NulAt(buffer, i))
  <2> DEFINE m == NulAt(buffer, i - 1)
             n == NulAt(buffer, i)
  <2>1. i - 1 \in 0 .. total /\ i \in 0 .. total /\ i \in 1 .. total /\ i \in 1 .. total + 1
    BY <1>1
  <2>2. m \in 0 .. BufferSize /\ n \in 0 .. BufferSize
    BY <2>1, NulOrder DEF total
  <2>3. m < n
    <3>1. i - 1 \in 0 .. total + 1 /\ i \in 0 .. total + 1 /\ i - 1 < i
      BY <1>1
    <3> QED BY <3>1, NulOrder DEF total
  <2>4. buffer[n] = 0
    BY <2>1, NulFound DEF total
  <2>5. macros[i] = SubSeq(buffer, m + 1, n - 1)
    BY <2>1, SplitTyped DEF total, N
  <2> HIDE DEF m, n
  <2>6. n \in 1 .. BufferSize /\ m + 1 \in 1 .. n
    BY <1>1, <2>2, <2>3
  <2>7. SubSeq(buffer, m + 1, n) = SubSeq(buffer, m + 1, n - 1) \o <<buffer[n]>>
    <3> DEFINE l == m + 1
    <3>1. l \in 1 .. Len(buffer) /\ n \in l .. Len(buffer)
      BY <1>1, <2>6
    <3> HIDE DEF l
    <3>2. SubSeq(buffer, l, n) = SubSeq(buffer, l, n - 1) \o <<buffer[n]>>
      BY <1>1, <3>1, SubSeqRecursiveSecond
    <3> QED BY <3>2 DEF l
  <2>8. Append(macros[i], 0) = macros[i] \o <<0>>
    <3>1. 0 \in U8
      BY DEF U8
    <3> QED BY <1>2, <3>1, AppendIsConcat
  <2>9. ended[i] = SubSeq(buffer, m + 1, n)
    BY <1>2, <2>4, <2>5, <2>7, <2>8
  <2> QED BY <2>2, <2>3, <2>6, <2>9 DEF m, n
<1> HIDE DEF ended
<1>4. PICK f \in [1 .. N -> Seq(U8)] :
        /\ FlattenSeq(ended) = f[N] /\ f[1] = ended[1]
        /\ \A i \in 2 .. N : f[i] = f[i - 1] \o ended[i]
  <2>1. Len(ended) # 0
    BY <1>1, <1>2
  <2>2. \E f \in [1 .. Len(ended) -> Seq(U8)] : FlattenSeq(ended) = f[Len(ended)] /\ Joins(f, ended)
    BY <1>2, <2>1, FlattenSteps
  <2> QED BY <1>2, <2>2 DEF Joins
<1> DEFINE S == {i \in 0 .. N : i = 0 \/ f[i] = SubSeq(buffer, 1, NulAt(buffer, i))}
<1>5. ASSUME NEW i \in 1 .. N, i - 1 \in S
      PROVE  f[i] = SubSeq(buffer, 1, NulAt(buffer, i))
  <2> DEFINE m == NulAt(buffer, i - 1)
             n == NulAt(buffer, i)
  <2>1. /\ m \in 0 .. BufferSize /\ n \in 1 .. BufferSize /\ m < n
        /\ ended[i] = SubSeq(buffer, m + 1, n)
    BY <1>3
  <2>2. CASE i = 1
    <3>1. m = 0
      BY <2>2 DEF NulAt
    <3> HIDE DEF m, n
    <3>2. f[i] = SubSeq(buffer, 1, n)
      BY <1>4, <2>1, <2>2, <3>1
    <3> QED BY <3>2 DEF n
  <2>3. CASE i # 1
    <3>1. i \in 2 .. N /\ f[i - 1] = SubSeq(buffer, 1, m)
      BY <1>1, <1>5, <2>3
    <3>2. f[i] = SubSeq(buffer, 1, m) \o SubSeq(buffer, m + 1, n)
      BY <1>4, <2>1, <3>1
    <3> HIDE DEF m, n
    <3>3. 1 \in 1 .. Len(buffer) + 1 /\ m \in 1 - 1 .. Len(buffer) /\ n \in m .. Len(buffer)
      BY <1>1, <2>1
    <3>4. SubSeq(buffer, 1, m) \o SubSeq(buffer, m + 1, n) = SubSeq(buffer, 1, n)
      BY <1>1, <3>3, ConcatAdjacentSubSeq
    <3> QED BY <3>2, <3>4 DEF n
  <2> QED BY <2>2, <2>3
<1>6. f[N] = SubSeq(buffer, 1, NulAt(buffer, N))
  <2>1. 0 \in S /\ \A i \in 1 .. N : i - 1 \in S => i \in S
    BY <1>1, <1>5
  <2>2. N \in S
    <3> HIDE DEF S
    <3>1. \A i \in 0 .. N : i \in S
      BY <1>1, <2>1, UpTo
    <3> QED BY <1>1, <3>1
  <2> QED BY <1>1, <2>2
<1> QED BY <1>4, <1>6 DEF N, ended

\* The piece behind the n-th NUL.
LEMMA PieceBehind ==
  ASSUME NEW buffer \in Buffer, NEW n \in 0 .. Nuls(buffer, Len(buffer))
  PROVE  Split(buffer)[n + 1] = SubSeq(buffer, NulAt(buffer, n) + 1, NulAt(buffer, n + 1) - 1)
<1> DEFINE i == n + 1
<1>1. Nuls(buffer, Len(buffer)) \in Nat
  BY BufferLen
<1>2. i \in 1 .. Nuls(buffer, Len(buffer)) + 1 /\ i - 1 = n
  BY <1>1
<1> HIDE DEF i
<1>3. Split(buffer)[i] = SubSeq(buffer, NulAt(buffer, i - 1) + 1, NulAt(buffer, i) - 1)
  BY <1>2, SplitTyped
<1> QED BY <1>2, <1>3 DEF i

\* Behind the last NUL there is nothing when the last byte is one.
LEMMA PieceEmpty ==
  ASSUME NEW buffer \in Buffer, buffer[BufferSize] = 0
  PROVE  /\ Nuls(buffer, Len(buffer)) # 0
         /\ Split(buffer)[Nuls(buffer, Len(buffer)) + 1] = <<>>
<1> DEFINE total == Nuls(buffer, Len(buffer))
           p == NulAt(buffer, total)
<1>1. Len(buffer) = BufferSize /\ BufferSize \in Nat /\ BufferSize # 0 /\ total \in Nat
  BY BufferLen
<1>2. BufferSize \in 1 .. BufferSize /\ BufferSize - 1 \in 0 .. BufferSize
  BY <1>1
<1>3. Nuls(buffer, BufferSize - 1) \in Nat /\ total = Nuls(buffer, BufferSize - 1) + 1
  BY <1>1, <1>2, NulsStep
<1>4. /\ p \in 0 .. BufferSize /\ Nuls(buffer, p) = total
      /\ NulAt(buffer, total + 1) = BufferSize + 1
  <2>1. total \in 0 .. total
    BY <1>1
  <2> QED BY <2>1, NulOrder
<1>5. p = BufferSize
  <2>1. p <= BufferSize - 1 => Nuls(buffer, p) <= Nuls(buffer, BufferSize - 1)
    BY <1>2, <1>4, NulsStep
  <2> HIDE DEF p, total
  <2> QED BY <1>1, <1>3, <1>4, <2>1
<1>6. Split(buffer)[total + 1] = SubSeq(buffer, p + 1, NulAt(buffer, total + 1) - 1)
  <2>1. total \in 0 .. total
    BY <1>1
  <2> QED BY <2>1, PieceBehind
<1>7. SubSeq(buffer, BufferSize + 1, BufferSize + 1 - 1) = <<>>
  BY <1>1, SubSeqEmpty
<1> HIDE DEF p, total
<1> QED BY <1>1, <1>3, <1>4, <1>5, <1>6, <1>7 DEF total

\* Where a byte that is no NUL is, there is a piece that is not empty.
LEMMA PieceFull ==
  ASSUME NEW buffer \in Buffer, NEW p \in 1 .. BufferSize, buffer[p] # 0
  PROVE  Split(buffer)[Nuls(buffer, p) + 1] # <<>>
<1> DEFINE n == Nuls(buffer, p)
           total == Nuls(buffer, Len(buffer))
           first == NulAt(buffer, n) + 1
           last == NulAt(buffer, n + 1) - 1
<1>1. /\ total \in Nat /\ BufferSize \in Nat /\ \A j \in 1 .. BufferSize : buffer[j] \in U8
      /\ n \in 0 .. total /\ NulAt(buffer, n) < p /\ p < NulAt(buffer, n + 1)
  BY BufferLen, ByteBetween DEF Buffer
<1>2. n + 1 = total + 1 \/ n + 1 \in 0 .. total
  BY <1>1
<1>3. NulAt(buffer, n) \in 0 .. BufferSize /\ NulAt(buffer, n + 1) \in 0 .. BufferSize + 1
  BY <1>1, <1>2, NulOrder
<1>4. first \in 1 .. p /\ last \in p .. BufferSize
  <2> DEFINE a == NulAt(buffer, n)
             b == NulAt(buffer, n + 1)
  <2>1. a \in 0 .. BufferSize /\ b \in 0 .. BufferSize + 1 /\ a < p /\ p < b
    BY <1>1, <1>3
  <2> HIDE DEF a, b
  <2>2. a + 1 \in 1 .. p /\ b - 1 \in p .. BufferSize
    BY <1>1, <2>1
  <2> QED BY <2>2 DEF a, b
<1>5. Split(buffer)[n + 1] = SubSeq(buffer, first, last)
  BY <1>1, PieceBehind
<1> HIDE DEF n, first, last
<1>6. first \in Int /\ last \in Int /\ first <= last /\ \A j \in first .. last : buffer[j] \in U8
  BY <1>1, <1>4
<1>7. Len(SubSeq(buffer, first, last)) = last - first + 1
  BY <1>6, SubSeqProperties
<1>8. Len(SubSeq(buffer, first, last)) # 0
  BY <1>6, <1>7
<1> QED BY <1>5, <1>8, EmptySeq DEF n

\* A buffer of terminated macros, none of them past the capacity, is what
\* desired_macro_buffer makes of the macros that decode_macro_buffer finds.
LEMMA MacrosBack ==
  ASSUME NEW buffer \in Buffer, buffer[BufferSize] = 0,
         \A p \in 1 .. BufferSize : buffer[p] # 0 => Nuls(buffer, p) < Capacity
  PROVE  EncodeMacros(DecodeMacros(buffer)) = buffer
<1> DEFINE macros == DecodeMacros(buffer)
           pieces == Split(buffer)
           total == Nuls(buffer, Len(buffer))
           N == Len(macros)
           bytes == FlattenSeq([i \in DOMAIN macros |-> Append(macros[i], 0)])
           end == NulAt(buffer, N)
<1>1. /\ total \in Nat /\ BufferSize \in Nat /\ Len(buffer) = BufferSize /\ Capacity \in Nat
      /\ Len(pieces) = total + 1 /\ buffer \in Seq(U8)
  BY BufferLen, SplitTyped, CatalogAssumption DEF U8
<1>2. /\ macros \in Seq(Seq(U8)) /\ N \in Nat /\ N <= total + 1 /\ N <= Capacity
      /\ \A i \in 1 .. N : macros[i] = pieces[i]
      /\ \A i \in N + 1 .. total + 1 : i <= Capacity => pieces[i] = <<>>
      /\ N # 0 => pieces[N] # <<>>
  BY <1>1, DecodedMacros
<1>3. N <= total
  <2>1. pieces[total + 1] = <<>>
    BY PieceEmpty
  <2> HIDE DEF pieces, total, N
  <2> QED BY <1>1, <1>2, <2>1
<1>4. end \in 0 .. BufferSize /\ \A i \in 1 .. N : NulAt(buffer, i) <= end
  <2>1. N \in 0 .. total
    BY <1>1, <1>2, <1>3
  <2>2. end \in 0 .. BufferSize
    BY <2>1, NulOrder
  <2>3. ASSUME NEW i \in 1 .. N
        PROVE  NulAt(buffer, i) <= end
    <3>1. i \in 0 .. total /\ i \in 0 .. total + 1 /\ N \in 0 .. total + 1 /\ (i = N \/ i < N)
      BY <1>1, <1>2, <1>3
    <3>2. NulAt(buffer, i) \in 0 .. BufferSize /\ (i < N => NulAt(buffer, i) < end)
      BY <3>1, NulOrder
    <3> HIDE DEF N, total
    <3> QED BY <1>1, <2>2, <3>1, <3>2
  <2> QED BY <2>2, <2>3
<1>5. Len(bytes) = end /\ \A i \in 1 .. end : bytes[i] = buffer[i]
  <2>1. CASE N = 0
    <3>1. macros = <<>>
      BY <1>2, <2>1, EmptySeq
    <3>2. bytes = <<>>
      <4>1. [i \in DOMAIN macros |-> Append(macros[i], 0)] = <<>>
        BY <3>1
      <4>2. FlattenSeq(<<>>) = <<>>
        BY DEF FlattenSeq
      <4> QED BY <4>1, <4>2
    <3>3. end = 0
      BY <2>1 DEF NulAt
    <3> HIDE DEF bytes, end
    <3> QED BY <3>2, <3>3
  <2>2. CASE N # 0
    <3>1. bytes = SubSeq(buffer, 1, end)
      BY <1>2, <1>3, <2>2, PiecesJoined
    <3> HIDE DEF bytes, end
    <3>2. 1 \in Int /\ end \in Int /\ \A i \in 1 .. end : buffer[i] \in U8
      BY <1>1, <1>4 DEF Buffer
    <3>3. /\ Len(bytes) = IF 1 <= end THEN end - 1 + 1 ELSE 0
          /\ \A i \in 1 .. end - 1 + 1 : bytes[i] = buffer[1 + i - 1]
      BY <3>1, <3>2, SubSeqProperties
    <3> QED BY <1>1, <1>4, <3>3
  <2> QED BY <2>1, <2>2
<1>6. ASSUME NEW p \in 1 .. BufferSize, p > end
      PROVE  buffer[p] = 0
  <2> SUFFICES ASSUME buffer[p] # 0 PROVE FALSE
    OBVIOUS
  <2> DEFINE n == Nuls(buffer, p)
  <2>1. n \in 0 .. total /\ p < NulAt(buffer, n + 1) /\ n < Capacity /\ pieces[n + 1] # <<>>
    BY ByteBetween, PieceFull
  <2> HIDE DEF n, pieces, total, N, end
  <2>2. n + 1 \in 1 .. N
    BY <1>1, <1>2, <2>1
  <2>3. NulAt(buffer, n + 1) <= end
    BY <1>4, <2>2
  <2>4. NulAt(buffer, n + 1) \in 0 .. BufferSize
    <3>1. n + 1 \in 0 .. total
      BY <1>1, <1>2, <1>3, <2>2
    <3> QED BY <3>1, NulOrder DEF total
  <2> QED BY <1>1, <1>4, <1>6, <2>1, <2>3, <2>4
<1>7. EncodeMacros(macros) = [i \in 1 .. BufferSize |-> IF i <= Len(bytes) THEN bytes[i] ELSE 0]
  <2>1. ~ (N > Capacity) /\ ~ (Len(bytes) > BufferSize)
    <3> HIDE DEF bytes, end, N
    <3> QED BY <1>1, <1>2, <1>4, <1>5
  <2> HIDE DEF macros
  <2> QED BY <2>1 DEF EncodeMacros
<1> HIDE DEF bytes, end
<1>8. \A i \in 1 .. BufferSize : buffer[i] = IF i <= Len(bytes) THEN bytes[i] ELSE 0
  BY <1>1, <1>4, <1>5, <1>6
<1>9. buffer = [i \in 1 .. BufferSize |-> buffer[i]]
  BY DEF Buffer
<1> QED BY <1>7, <1>8, <1>9
=============================================================================
