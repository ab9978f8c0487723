-------------------------- MODULE KeymapEditorProofs --------------------------
(***************************************************************************)
(* Proofs about KeymapEditor: for any catalog, layers and keys, whatever   *)
(* is typed, saved, reloaded, edited by hand or snapshot in between.       *)
(***************************************************************************)
EXTENDS KeymapEditor, KeyLabelProofs

-----------------------------------------------------------------------------
(* What the window's helpers keep.                                           *)

\* A window that shows one of its layers.
Shown(u) == u \in Window /\ u.layer \in DOMAIN u.layers

\* A sequence is typed by its elements.
LEMMA MappedSeq ==
  ASSUME NEW L, NEW M, NEW s \in Seq(L), NEW t, t = [i \in DOMAIN s |-> t[i]],
         \A i \in DOMAIN s : t[i] \in M
  PROVE  t \in Seq(M) /\ Len(t) = Len(s) /\ DOMAIN t = DOMAIN s
<1>1. Len(s) \in Nat /\ DOMAIN s = 1 .. Len(s)
  BY LenProperties
<1>2. t \in [1 .. Len(s) -> M]
  BY <1>1
<1>3. t \in Seq(M)
  BY <1>1, <1>2, SeqDef
<1> QED BY <1>1, <1>2, <1>3, LenProperties

\* The names of the layers shown are names of layers.
LEMMA ShownNames == ASSUME NEW u, Shown(u) PROVE NamesOf(u.layers) \subseteq LayerName
<1>1. \A i \in DOMAIN u.layers : u.layers[i] \in ShownLayer
  <2>1. u.layers \in Seq(ShownLayer)
    BY DEF Shown, Window
  <2> QED BY <2>1, LenProperties, ElementOfSeq
<1> QED BY <1>1 DEF NamesOf, ShownLayer

LEMMA ShownKey ==
  ASSUME NEW u, Shown(u), NEW i \in DOMAIN u.layers, NEW k \in Key
  PROVE  u.layers[i].name \in LayerName /\ u.layers[i].keys[k] \in Text
<1>1. u.layers[i] \in ShownLayer
  <2>1. u.layers \in Seq(ShownLayer)
    BY DEF Shown, Window
  <2> QED BY <2>1, LenProperties, ElementOfSeq
<1> QED BY <1>1 DEF ShownLayer

LEMMA SetKeyShown ==
  ASSUME NEW u, Shown(u), u.key \in Key, NEW text \in Text
  PROVE  /\ Shown(SetKey(u, text))
         /\ SetKey(u, text).layer = u.layer /\ SetKey(u, text).key = u.key
         /\ SetKey(u, text).entry = u.entry
         /\ DOMAIN SetKey(u, text).layers = DOMAIN u.layers
         /\ \A i \in DOMAIN u.layers : SetKey(u, text).layers[i].name = u.layers[i].name
<1> DEFINE new == [u.layers[u.layer] EXCEPT !.keys = [@ EXCEPT ![u.key] = text]]
           layers == [u.layers EXCEPT ![u.layer] = new]
<1>1. u.layers \in Seq(ShownLayer) /\ u.layer \in 1 .. Len(u.layers)
  BY LenProperties DEF Shown, Window
<1>2. u.layers[u.layer] \in ShownLayer
  BY <1>1, ElementOfSeq
<1>3. new \in ShownLayer /\ new.name = u.layers[u.layer].name
  BY <1>2 DEF ShownLayer
<1>4. layers \in Seq(ShownLayer) /\ Len(layers) = Len(u.layers)
  <2> HIDE DEF new
  <2> QED BY <1>1, <1>3, ExceptSeq
<1>5. DOMAIN layers = DOMAIN u.layers
  BY <1>1, <1>4, LenProperties
<1>6. SetKey(u, text) = [u EXCEPT !.layers = layers]
  BY DEF SetKey
<1>7. \A i \in DOMAIN u.layers : layers[i].name = u.layers[i].name
  BY <1>3
<1> HIDE DEF layers
<1>8. /\ SetKey(u, text).layers = layers /\ SetKey(u, text).layer = u.layer
      /\ SetKey(u, text).key = u.key /\ SetKey(u, text).entry = u.entry
  BY <1>6 DEF Shown, Window
<1>9. SetKey(u, text) \in Window
  BY <1>4, <1>6 DEF Shown, Window
<1> QED BY <1>5, <1>6, <1>7, <1>8, <1>9 DEF Shown

LEMMA RefreshTapHoldShown ==
  ASSUME NEW u, Shown(u)
  PROVE  /\ Shown(RefreshTapHold(u))
         /\ RefreshTapHold(u).layers = u.layers /\ RefreshTapHold(u).layer = u.layer
         /\ RefreshTapHold(u).key = u.key /\ RefreshTapHold(u).entry = u.entry
<1> DEFINE shown == TapHoldOf(u.layers[u.layer].keys[u.key], u.layers)
<1>1. CASE u.key = None
  <2>1. RefreshTapHold(u) = [u EXCEPT !.tap = Plain(Empty), !.hold = 0]
    BY <1>1 DEF RefreshTapHold
  <2>2. Plain(Empty) \in Text /\ 0 \in 0 .. Len(Modifiers) + LayersListed
    BY PlainTyped, CatalogTyped, ModifierList DEF LayersListed
  <2> QED BY <2>1, <2>2 DEF Shown, Window
<1>2. CASE u.key # None
  <2>1. RefreshTapHold(u) = [u EXCEPT !.tap = shown.tap, !.hold = shown.hold]
    BY <1>2 DEF RefreshTapHold
  <2>2. u.layers \in Seq(ShownLayer) /\ u.key \in Key
    BY <1>2 DEF Shown, Window
  <2>3. u.layers[u.layer].keys[u.key] \in Text
    BY <2>2, ShownKey DEF Shown
  <2>4. /\ shown.tap \in Text
        /\ shown.hold \in Nat /\ shown.hold <= Len(Modifiers) + LayersListed
    BY <2>2, <2>3, TapHoldTyped
  <2>5. Len(Modifiers) + LayersListed \in Nat
    BY ModifierList DEF LayersListed
  <2>6. shown.hold \in 0 .. Len(Modifiers) + LayersListed
    <3> HIDE DEF shown
    <3> QED BY <2>4, <2>5
  <2> HIDE DEF shown
  <2> QED BY <2>1, <2>4, <2>6 DEF Shown, Window
<1> QED BY <1>1, <1>2

LEMMA RefreshShown ==
  ASSUME NEW u, Shown(u)
  PROVE  /\ Shown(Refresh(u))
         /\ Refresh(u).layers = u.layers /\ Refresh(u).layer = u.layer /\ Refresh(u).key = u.key
         /\ u.key # None => Refresh(u).entry = u.layers[u.layer].keys[u.key]
<1> DEFINE text == IF u.key = None THEN Plain(Empty) ELSE u.layers[u.layer].keys[u.key]
           v == [u EXCEPT !.entry = text]
<1>1. text \in Text
  <2>1. CASE u.key = None
    BY <2>1, PlainTyped, CatalogTyped
  <2>2. CASE u.key # None
    <3>1. u.key \in Key
      BY <2>2 DEF Shown, Window
    <3> QED BY <2>2, <3>1, ShownKey DEF Shown
  <2> QED BY <2>1, <2>2
<1>2. Shown(v) /\ v.entry = text
  <2> HIDE DEF text
  <2> QED BY <1>1 DEF Shown, Window
<1>3. Refresh(u) = RefreshTapHold(v)
  BY DEF Refresh
<1>4. v.layers = u.layers /\ v.layer = u.layer /\ v.key = u.key
  BY DEF Shown, Window
<1> DEFINE w == RefreshTapHold(v)
<1>5. /\ Shown(w) /\ w.layers = v.layers /\ w.layer = v.layer
      /\ w.key = v.key /\ w.entry = v.entry
  <2> HIDE DEF v
  <2> QED BY <1>2, RefreshTapHoldShown
<1> HIDE DEF v, w
<1> QED BY <1>2, <1>3, <1>4, <1>5 DEF w

LEMMA StaysShown ==
  /\ \A u : Shown(u) => Shown(RefreshTapHold(u))
  /\ \A u : Shown(u) => Shown(Refresh(u))
BY RefreshTapHoldShown, RefreshShown

\* collect_editor.
LEMMA CollectShown ==
  ASSUME NEW u, Shown(u)
  PROVE  /\ Shown(Collect(u))
         /\ Collect(u).layer = u.layer /\ Collect(u).key = u.key /\ Collect(u).entry = u.entry
         /\ DOMAIN Collect(u).layers = DOMAIN u.layers
         /\ \A i \in DOMAIN u.layers : Collect(u).layers[i].name = u.layers[i].name
<1>1. CASE u.key = None \/ ~ Collects(u)
  BY <1>1 DEF Collect, Shown, Window
<1>2. CASE u.key # None /\ Collects(u)
  <2>1. u.key \in Key /\ u.entry \in Text
    BY <1>2 DEF Shown, Window
  <2>2. Collect(u) = SetKey(u, u.entry)
    BY <1>2 DEF Collect
  <2> QED BY <2>1, <2>2, SetKeyShown
<1> QED BY <1>1, <1>2

-----------------------------------------------------------------------------
(* Configurations and keyboards.                                             *)

LEMMA ConfigLayer ==
  ASSUME NEW c, IsConfig(c), NEW i \in DOMAIN c.layers
  PROVE  /\ c.layers[i] \in FileLayer
         /\ c.layers[i].id \in Word /\ c.layers[i].name \in LayerName
         /\ \A k \in Key : c.layers[i].keys[k] \in Text
<1>1. c.layers[i] \in FileLayer
  <2>1. c.layers \in Seq(FileLayer)
    BY DEF IsConfig
  <2> QED BY <2>1, LenProperties, ElementOfSeq
<1> QED BY <1>1 DEF FileLayer

\* A configuration has layers.
LEMMA ConfigLen ==
  ASSUME NEW c, IsConfig(c)
  PROVE  /\ c.layers \in Seq(FileLayer) /\ Len(c.layers) \in Nat /\ Len(c.layers) > 0
         /\ DOMAIN c.layers = 1 .. Len(c.layers)
<1>1. c.layers \in Seq(FileLayer) /\ c.layers # <<>>
  BY DEF IsConfig
<1>2. Len(c.layers) # 0
  BY <1>1, EmptySeq
<1> QED BY <1>1, <1>2, LenProperties

\* A configuration, field by field.
LEMMA ConfigForm ==
  ASSUME NEW c, IsConfig(c)
  PROVE  \E l, m : m \in Macros /\ \E q, t \in Nat : c = [layers |-> l, quick |-> q, tapping |-> t, macros |-> m]
BY DEF IsConfig

LEMMA ConfigOf ==
  ASSUME NEW l \in Seq(FileLayer), l # <<>>, NEW q \in Nat, NEW t \in Nat, NEW m \in Macros, NEW c,
         c = [layers |-> l, quick |-> q, tapping |-> t, macros |-> m]
  PROVE  IsConfig(c) /\ c.layers = l /\ c.macros = m
BY DEF IsConfig

\* A sequence as long as one that is not empty is not empty.
LEMMA AsLong ==
  ASSUME NEW L, NEW M, NEW s \in Seq(L), NEW t \in Seq(M), Len(s) > 0, DOMAIN t = DOMAIN s
  PROVE  t # <<>> /\ Len(t) = Len(s)
<1>1. /\ Len(s) \in Nat /\ DOMAIN s = 1 .. Len(s)
      /\ Len(t) \in Nat /\ DOMAIN t = 1 .. Len(t)
  BY LenProperties
<1>2. 1 .. Len(s) = 1 .. Len(t)
  BY <1>1
<1>3. Len(t) = Len(s)
  <2>1. Len(s) \in 1 .. Len(s)
    BY <1>1
  <2>2. Len(t) >= Len(s)
    BY <1>1, <1>2, <2>1
  <2>3. Len(t) \in 1 .. Len(t)
    BY <1>1, <2>2
  <2> QED BY <1>1, <1>2, <2>2, <2>3
<1> QED BY <1>3, EmptySeq

LEMMA LoadLayersTyped ==
  ASSUME NEW c, IsConfig(c)
  PROVE  /\ LoadLayers(c) \in Seq(ShownLayer) /\ Len(LoadLayers(c)) = Len(c.layers)
         /\ DOMAIN LoadLayers(c) = DOMAIN c.layers
         /\ \A i \in DOMAIN c.layers : LoadLayers(c)[i].name = c.layers[i].name
<1>1. \A i \in DOMAIN c.layers :
         [name |-> c.layers[i].name, keys |-> c.layers[i].keys] \in ShownLayer
  <2>1. \A i \in DOMAIN c.layers : c.layers[i] \in FileLayer
    BY ConfigLayer
  <2> QED BY <2>1 DEF FileLayer, ShownLayer
<1> DEFINE t == LoadLayers(c)
<1>2. t = [i \in DOMAIN c.layers |-> t[i]] /\ \A i \in DOMAIN c.layers : t[i] \in ShownLayer
  BY <1>1 DEF LoadLayers
<1>3. c.layers \in Seq(FileLayer)
  BY ConfigLen
<1>4. t \in Seq(ShownLayer) /\ Len(t) = Len(c.layers) /\ DOMAIN t = DOMAIN c.layers
  <2> HIDE DEF t
  <2> QED BY <1>2, <1>3, MappedSeq
<1> QED BY <1>4 DEF LoadLayers

\* What the editor writes into the file it has read.
LEMMA SavedTyped ==
  ASSUME NEW c, IsConfig(c), Shown(ui), DOMAIN ui.layers = DOMAIN c.layers, SettingsValid(ui)
  PROVE  /\ IsConfig(Saved(c)) /\ DOMAIN Saved(c).layers = DOMAIN c.layers
         /\ \A i \in DOMAIN c.layers :
              /\ Saved(c).layers[i].id = c.layers[i].id /\ Saved(c).layers[i].name = ui.layers[i].name
              /\ \A k \in Key :
                    Saved(c).layers[i].keys[k] = Canonical(ui.layers[i].keys[k], ui.layers)
<1> DEFINE keys(i) == [k \in Key |-> Canonical(ui.layers[i].keys[k], ui.layers)]
           row(i) == [c.layers[i] EXCEPT !.name = ui.layers[i].name, !.keys = keys(i)]
           layers == [i \in DOMAIN c.layers |-> row(i)]
<1>1. \A i \in DOMAIN c.layers : keys(i) \in [Key -> Text] /\ ui.layers[i].name \in LayerName
  <2> TAKE i \in DOMAIN c.layers
  <2>1. NamesOf(ui.layers) \subseteq LayerName
    BY ShownNames
  <2>2. \A k \in Key : ui.layers[i].keys[k] \in Text /\ ui.layers[i].name \in LayerName
    BY ShownKey
  <2>3. \A k \in Key : Canonical(ui.layers[i].keys[k], ui.layers) \in Text
    BY <2>1, <2>2, CanonicalTyped
  <2>4. ui.layers[i].name \in LayerName
    BY <2>1 DEF NamesOf
  <2> QED BY <2>3, <2>4
<1>2. \A i \in DOMAIN c.layers : /\ row(i) \in FileLayer
                                 /\ row(i).id = c.layers[i].id /\ row(i).name = ui.layers[i].name
                                 /\ row(i).keys = keys(i)
  <2>1. \A i \in DOMAIN c.layers : c.layers[i] \in FileLayer
    BY ConfigLayer
  <2> HIDE DEF keys
  <2> QED BY <1>1, <2>1 DEF FileLayer
<1>3. layers \in Seq(FileLayer) /\ Len(layers) = Len(c.layers) /\ DOMAIN layers = DOMAIN c.layers
  <2> HIDE DEF row
  <2>1. layers = [i \in DOMAIN c.layers |-> layers[i]] /\ \A i \in DOMAIN c.layers : layers[i] = row(i)
    OBVIOUS
  <2>2. c.layers \in Seq(FileLayer)
    BY ConfigLen
  <2>3. \A i \in DOMAIN c.layers : layers[i] \in FileLayer
    BY <1>2, <2>1
  <2> HIDE DEF layers
  <2> QED BY <2>1, <2>2, <2>3, MappedSeq
<1>4. layers # <<>>
  <2> HIDE DEF layers
  <2> QED BY <1>3, ConfigLen, AsLong
<1>5. ui.quick \in Nat /\ ui.tapping \in Nat
  BY DEF Shown, Window, SettingsValid
<1>6. Saved(c) = [c EXCEPT !.layers = layers, !.quick = ui.quick, !.tapping = ui.tapping]
  BY DEF Saved
<1> HIDE DEF row
<1>7. \A i \in DOMAIN c.layers : layers[i] = row(i)
  OBVIOUS
<1> HIDE DEF layers
<1>8. PICK l, m : m \in Macros /\ \E q, t \in Nat :
              c = [layers |-> l, quick |-> q, tapping |-> t, macros |-> m]
  BY ConfigForm
<1>9. Saved(c) = [layers |-> layers, quick |-> ui.quick, tapping |-> ui.tapping, macros |-> m]
  <2>1. PICK q \in Nat, t \in Nat : c = [layers |-> l, quick |-> q, tapping |-> t, macros |-> m]
    BY <1>8
  <2> QED BY <1>6, <2>1
<1>10. IsConfig(Saved(c)) /\ Saved(c).layers = layers
  BY <1>3, <1>4, <1>5, <1>8, <1>9, ConfigOf
<1>11. \A i \in DOMAIN c.layers : \A k \in Key :
          layers[i].keys[k] = Canonical(ui.layers[i].keys[k], ui.layers)
  <2> TAKE i \in DOMAIN c.layers
  <2> TAKE k \in Key
  <2>1. keys(i)[k] = Canonical(ui.layers[i].keys[k], ui.layers)
    OBVIOUS
  <2> HIDE DEF keys
  <2>2. layers[i].keys = keys(i)
    BY <1>2, <1>7
  <2> QED BY <2>1, <2>2
<1> HIDE DEF keys
<1> QED BY <1>2, <1>3, <1>7, <1>10, <1>11

\* What snapshot-live writes into the configuration it has loaded.
LEMMA DescribedTyped ==
  ASSUME NEW c, IsConfig(c), NEW kb, IsStored(kb), Len(c.layers) <= LayerCount
  PROVE  /\ IsConfig(Described(c, kb)) /\ DOMAIN Described(c, kb).layers = DOMAIN c.layers
         /\ Described(c, kb).macros = DecodeMacros(kb.buffer)
         /\ \A i \in DOMAIN c.layers :
              /\ Described(c, kb).layers[i].id = c.layers[i].id
              /\ Described(c, kb).layers[i].name = c.layers[i].name
              /\ \A k \in Key : /\ kb.keys[i][k] \in U16
                                /\ Described(c, kb).layers[i].keys[k] = Describe(kb.keys[i][k], c.layers)
<1> DEFINE keys(i) == [k \in Key |-> Describe(kb.keys[i][k], c.layers)]
           layers == [i \in DOMAIN c.layers |-> [c.layers[i] EXCEPT !.keys = keys(i)]]
<1>1. LayerCount \in Nat /\ c.layers \in Seq(FileLayer) /\ DOMAIN c.layers = 1 .. Len(c.layers)
  BY ConfigLen, EditorAssumption DEF U8
<1>2. \A i \in DOMAIN c.layers : \A k \in Key : kb.keys[i][k] \in U16 /\ kb.keys[i][k] \in Nat
  <2>1. \A i \in DOMAIN c.layers : i \in 1 .. LayerCount
    BY <1>1, ConfigLen
  <2>2. kb.keys \in [1 .. LayerCount -> [Key -> U16]]
    BY DEF IsStored, StoredKeys
  <2>3. \A l \in 1 .. LayerCount : \A k \in Key : kb.keys[l][k] \in U16
    BY <2>2
  <2>4. \A n \in U16 : n \in Nat
    BY DEF U16
  <2> QED BY <2>1, <2>3, <2>4
<1>3. \A i \in DOMAIN c.layers : keys(i) \in [Key -> Text]
  <2>1. \A i \in DOMAIN c.layers : c.layers[i].id \in Word
    BY ConfigLayer
  <2>2. \A i \in DOMAIN c.layers : \A k \in Key : Describe(kb.keys[i][k], c.layers) \in Text
    BY <1>1, <1>2, <2>1, DescribeTyped
  <2> QED BY <2>2
<1>4. \A i \in DOMAIN c.layers : c.layers[i] \in FileLayer
  BY ConfigLayer
<1>5. \A i \in DOMAIN c.layers : layers[i] \in FileLayer
  <2> HIDE DEF keys
  <2> QED BY <1>3, <1>4 DEF FileLayer
<1>6. layers \in Seq(FileLayer) /\ Len(layers) = Len(c.layers) /\ DOMAIN layers = DOMAIN c.layers
  <2>1. layers = [i \in DOMAIN c.layers |-> layers[i]]
    OBVIOUS
  <2> HIDE DEF layers
  <2> QED BY <1>1, <1>5, <2>1, MappedSeq
<1>7. layers # <<>>
  <2> HIDE DEF layers
  <2> QED BY <1>6, ConfigLen, AsLong
<1>8. Described(c, kb) = [c EXCEPT !.layers = layers, !.macros = DecodeMacros(kb.buffer)]
  BY DEF Described
<1>9. \A i \in DOMAIN c.layers : /\ layers[i].id = c.layers[i].id /\ layers[i].name = c.layers[i].name
                                 /\ layers[i].keys = keys(i)
  BY <1>4 DEF FileLayer
<1> DEFINE macros == DecodeMacros(kb.buffer)
<1> HIDE DEF layers, macros
<1>10. PICK l, m : m \in Macros /\ \E q, t \in Nat :
              c = [layers |-> l, quick |-> q, tapping |-> t, macros |-> m]
  BY ConfigForm
<1>11. PICK q \in Nat, t \in Nat : c = [layers |-> l, quick |-> q, tapping |-> t, macros |-> m]
  BY <1>10
<1>12. Described(c, kb) = [layers |-> layers, quick |-> q, tapping |-> t, macros |-> macros]
  BY <1>8, <1>11 DEF macros
<1>13. macros \in Macros
  <2>1. kb.buffer \in Buffer
    BY DEF IsStored
  <2> QED BY <2>1, DecodedMacros DEF macros, Macros
<1>14. IsConfig(Described(c, kb)) /\ Described(c, kb).layers = layers /\ Described(c, kb).macros = macros
  BY <1>6, <1>7, <1>12, <1>13, ConfigOf
<1> QED BY <1>2, <1>6, <1>9, <1>14 DEF macros

\* What a configuration that validates makes the keyboard store.
LEMMA EntriesTyped ==
  ASSUME NEW c, IsConfig(c), Accepts(c)
  PROVE  Entries(c) \in StoredKeys
<1>1. Len(c.layers) <= \hff /\ c.layers \in Seq(FileLayer)
  BY ConfigLen, EditorAssumption DEF Accepts, U8
<1>2. \A i \in DOMAIN c.layers : \A k \in Key : Resolve(c.layers[i].keys[k], c.layers) \in U16
  <2> TAKE i \in DOMAIN c.layers
  <2> TAKE k \in Key
  <2>1. c.layers[i].keys[k] \in Text
    BY ConfigLayer
  <2>2. Resolved(Resolve(c.layers[i].keys[k], c.layers))
    BY <1>1, <2>1, ResolveTyped
  <2>3. Resolve(c.layers[i].keys[k], c.layers) # NoCode
    BY DEF Accepts
  <2> QED BY <2>2, <2>3 DEF Resolved, U16
<1>3. Code["KC_TRNS"] \in U16
  <2>1. "KC_TRNS" \in Name
    BY CatalogAssumption
  <2> QED BY <2>1, CatalogTyped DEF U16
<1> QED BY <1>2, <1>3 DEF Entries, StoredKeys

\* An edit by hand of one key, or of the last layer.
LEMMA KeyEdited ==
  ASSUME NEW c, IsConfig(c), NEW i \in DOMAIN c.layers, NEW k \in Key, NEW text \in Text,
         NEW d, d = [c EXCEPT !.layers[i].keys[k] = text]
  PROVE  /\ IsConfig(d) /\ DOMAIN d.layers = DOMAIN c.layers
         /\ \A j \in DOMAIN c.layers :
               d.layers[j].id = c.layers[j].id /\ d.layers[j].name = c.layers[j].name
<1> DEFINE new == [c.layers[i] EXCEPT !.keys = [@ EXCEPT ![k] = text]]
           layers == [c.layers EXCEPT ![i] = new]
<1>1. c.layers \in Seq(FileLayer) /\ i \in 1 .. Len(c.layers)
  BY ConfigLen
<1>2. c.layers[i] \in FileLayer
  BY ConfigLayer
<1>3. new \in FileLayer /\ new.id = c.layers[i].id /\ new.name = c.layers[i].name
  BY <1>2 DEF FileLayer
<1> HIDE DEF new
<1>4. layers \in Seq(FileLayer) /\ Len(layers) = Len(c.layers)
  BY <1>1, <1>3, ExceptSeq
<1>5. /\ DOMAIN layers = DOMAIN c.layers
      /\ \A j \in DOMAIN c.layers : layers[j].id = c.layers[j].id /\ layers[j].name = c.layers[j].name
  BY <1>3
<1>6. d = [c EXCEPT !.layers = layers]
  BY DEF new
<1> HIDE DEF layers
<1>7. layers # <<>>
  BY <1>4, <1>5, ConfigLen, AsLong
<1>8. PICK l, m : m \in Macros /\ \E q, t \in Nat :
              c = [layers |-> l, quick |-> q, tapping |-> t, macros |-> m]
  BY ConfigForm
<1>9. PICK q \in Nat, t \in Nat : c = [layers |-> l, quick |-> q, tapping |-> t, macros |-> m]
  BY <1>8
<1>10. d = [layers |-> layers, quick |-> q, tapping |-> t, macros |-> m]
  BY <1>6, <1>9
<1>11. IsConfig(d) /\ d.layers = layers
  <2>1. q \in Nat /\ t \in Nat /\ m \in Macros
    BY <1>8, <1>9
  <2>2. d.layers = layers /\ d.quick = q /\ d.tapping = t /\ d.macros = m
    BY <1>10
  <2> QED BY <1>4, <1>7, <1>10, <2>1, <2>2 DEF IsConfig
<1> QED BY <1>5, <1>11

Dropped(c) == [c EXCEPT !.layers = Front(@)]

LEMMA LayerDropped ==
  ASSUME NEW c, IsConfig(c), Len(c.layers) > 1
  PROVE  /\ IsConfig(Dropped(c)) /\ DOMAIN Dropped(c).layers \subseteq DOMAIN c.layers
         /\ \A j \in DOMAIN Dropped(c).layers : /\ Dropped(c).layers[j].id = c.layers[j].id
                                                /\ Dropped(c).layers[j].name = c.layers[j].name
<1> DEFINE d == Dropped(c)
           layers == SubSeq(c.layers, 1, Len(c.layers) - 1)
<1>1. c.layers \in Seq(FileLayer) /\ Len(c.layers) \in Nat /\ DOMAIN c.layers = 1 .. Len(c.layers)
  BY ConfigLen
<1>2. \A i \in 1 .. Len(c.layers) - 1 : c.layers[i] \in FileLayer
  BY <1>1, ConfigLayer
<1>3. /\ layers \in Seq(FileLayer) /\ Len(layers) = Len(c.layers) - 1
      /\ \A i \in 1 .. Len(layers) : layers[i] = c.layers[i]
  BY <1>1, <1>2, SubSeqProperties
<1>4. d = [c EXCEPT !.layers = layers]
  BY DEF Dropped, Front
<1> HIDE DEF layers, d
<1>5. DOMAIN layers = 1 .. Len(layers) /\ layers # <<>>
  BY <1>1, <1>3, LenProperties, EmptySeq
<1>6. PICK l, m : m \in Macros /\ \E q, t \in Nat :
              c = [layers |-> l, quick |-> q, tapping |-> t, macros |-> m]
  BY ConfigForm
<1>7. PICK q \in Nat, t \in Nat : c = [layers |-> l, quick |-> q, tapping |-> t, macros |-> m]
  BY <1>6
<1>8. d = [layers |-> layers, quick |-> q, tapping |-> t, macros |-> m]
  BY <1>4, <1>7
<1>9. IsConfig(d) /\ d.layers = layers
  BY <1>3, <1>5, <1>6, <1>7, <1>8, ConfigOf
<1>10. DOMAIN layers \subseteq DOMAIN c.layers
  BY <1>1, <1>3, <1>5
<1> QED BY <1>3, <1>5, <1>9, <1>10 DEF d

-----------------------------------------------------------------------------
(* Types.                                                                    *)

LEMMA EditorInvInit == Init => EditorInv
<1> SUFFICES ASSUME Init PROVE EditorInv
  OBVIOUS
<1>1. PICK start \in Starts :
        /\ file = [by |-> "disk", config |-> start.config]
        /\ keyboard = start.keyboard
        /\ ui = [layers |-> LoadLayers(start.config), layer |-> 1, key |-> None,
                 entry |-> Plain(Empty), tap |-> Plain(Empty), hold |-> 0,
                 quick |-> start.config.quick, tapping |-> start.config.tapping]
        /\ inputs = start.inputs /\ snapshots = start.snapshots
  BY DEF Init
<1> DEFINE c == start.config
<1>2. /\ IsConfig(c) /\ IsStored(start.keyboard)
      /\ start.inputs \in 0 .. MaxInputs /\ start.snapshots \in 0 .. 1
  BY EditorAssumption
<1>3. LoadLayers(c) \in Seq(ShownLayer) /\ 1 \in DOMAIN LoadLayers(c)
  BY <1>2, LoadLayersTyped, ConfigLen
<1>4. c.quick \in Nat /\ c.tapping \in Nat
  BY <1>2 DEF IsConfig
<1>5. Plain(Empty) \in Text /\ 0 \in 0 .. Len(Modifiers) + LayersListed
  BY PlainTyped, CatalogTyped, ModifierList DEF LayersListed
<1>6. ui \in Window /\ ui.layer \in DOMAIN ui.layers
  BY <1>1, <1>3, <1>4, <1>5 DEF Window
<1>7. /\ tmp = [by |-> "nobody", config |-> Torn] /\ live = FALSE /\ next = [p \in Proc |-> None]
      /\ at = [p \in Proc |-> "idle"]
  BY DEF Init, NoFile
<1>8. /\ at \in [Proc -> {"idle", "read", "open", "write", "rename", "apply"}]
      /\ \A p \in Proc : at[p] = "idle"
      /\ target \in [Proc -> {"tmp", "file", "gone"}]
  BY <1>7 DEF Init
<1>9. /\ file = [by |-> file.by, config |-> file.config] /\ IsConfig(file.config)
      /\ tmp = [by |-> tmp.by, config |-> tmp.config] /\ tmp.by = "nobody" /\ tmp.config = Torn
  BY <1>1, <1>2, <1>7
<1> QED BY <1>1, <1>2, <1>6, <1>7, <1>8, <1>9 DEF EditorInv, TypeOK, Proc

\* A handler that only changes what the window shows.
LEMMA ShowsWindow ==
  ASSUME EditorInv, at["editor"] # "read", Shown(ui'),
         inputs' \in 0 .. MaxInputs, UNCHANGED <<file, tmp, target, keyboard, at, next, read, live, snapshots>>
  PROVE  EditorInv'
<1> USE DEF EditorInv, TypeOK
<1>1. (IsConfig(file.config))' <=> IsConfig(file.config)
  BY DEF IsConfig
<1>2. (IsConfig(tmp.config))' <=> IsConfig(tmp.config)
  BY DEF IsConfig
<1>3. \A p \in Proc : (IsConfig(next[p]))' <=> IsConfig(next[p])
  BY DEF IsConfig
<1>4. (IsStored(keyboard))' <=> IsStored(keyboard)
  BY DEF IsStored
<1> QED BY <1>1, <1>2, <1>3, <1>4 DEF Shown

\* One step of the file or the keyboard, by either process.
LEMMA MovesFile ==
  ASSUME EditorInv, UNCHANGED <<ui, inputs>>, snapshots' \in 0 .. 1, live' \in BOOLEAN,
         file' = [by |-> file'.by, config |-> file'.config], file'.config = Torn \/ IsConfig(file'.config),
         tmp' = [by |-> tmp'.by, config |-> tmp'.config], tmp'.by \in Proc \cup {"nobody"},
         tmp'.config = Torn \/ IsConfig(tmp'.config), target' \in [Proc -> {"tmp", "file", "gone"}],
         IsStored(keyboard'), at' \in [Proc -> {"idle", "read", "open", "write", "rename", "apply"}],
         at'["editor"] = "read" => at["editor"] = "read", next' = [p \in Proc |-> next'[p]],
         \A p \in Proc : at'[p] \in {"open", "write", "rename"} => IsConfig(next'[p])
  PROVE  EditorInv'
<1>1. (IsConfig(file.config))' <=> IsConfig(file'.config)
  BY DEF IsConfig
<1>2. (IsConfig(tmp.config))' <=> IsConfig(tmp'.config)
  BY DEF IsConfig
<1>3. \A p \in Proc : (IsConfig(next[p]))' <=> IsConfig(next'[p])
  BY DEF IsConfig
<1>4. (IsStored(keyboard))' <=> IsStored(keyboard')
  BY DEF IsStored
<1>5. (SettingsValid(ui))' <=> SettingsValid(ui)
  BY DEF SettingsValid
<1> QED BY <1>1, <1>2, <1>3, <1>4, <1>5 DEF EditorInv, TypeOK
\* The window's handlers.
LEMMA WindowStep ==
  ASSUME EditorInv,
         Type \/ TypeTerm \/ Assign \/ Select \/ Shift \/ Validate \/ Apply \/ ApplyTapHold \/ Reload
  PROVE  EditorInv'
<1>1. Shown(ui) /\ inputs \in 0 .. MaxInputs /\ MaxInputs \in Nat
  BY EditorAssumption DEF EditorInv, TypeOK, Shown
<1>2. Shown(Collect(ui)) /\ Collect(ui).layer = ui.layer /\ DOMAIN Collect(ui).layers = DOMAIN ui.layers
  BY <1>1, CollectShown
<1>3. ASSUME NEW u, Idle, Show(u), Shown(u)
      PROVE  EditorInv'
  BY <1>1, <1>3, ShowsWindow DEF Show, external, Idle
<1>4. ASSUME NEW u, Idle, Change(u), Shown(u)
      PROVE  EditorInv'
  BY <1>1, <1>4, ShowsWindow DEF Change, Input, Idle
<1>5. \A text \in Typed : text \in Text
  BY EditorAssumption
<1>6. CASE Type
  <2>1. \A text \in Typed : Shown([ui EXCEPT !.entry = text]) /\ Shown([ui EXCEPT !.tap = text])
    BY <1>1, <1>5 DEF Shown, Window
  <2>2. \A hold \in 0 .. Len(Modifiers) + LayersListed : Shown([ui EXCEPT !.hold = hold])
    BY <1>1 DEF Shown, Window
  <2> QED BY <1>4, <1>6, <2>1, <2>2 DEF Type
<1>7. CASE TypeTerm
  <2>1. \A t \in Terms \cup {Bad} : Shown([ui EXCEPT !.quick = t])
    BY <1>1, EditorAssumption DEF Shown, Window
  <2> QED BY <1>4, <1>7, <2>1 DEF TypeTerm
<1>8. ASSUME NEW text \in Text, ui.key # None
      PROVE  Shown(RefreshTapHold([SetKey(ui, text) EXCEPT !.entry = text]))
  <2>1. ui.key \in Key
    BY <1>1, <1>8 DEF Shown, Window
  <2>2. Shown(SetKey(ui, text))
    BY <1>1, <2>1, SetKeyShown
  <2> DEFINE u == SetKey(ui, text)
  <2>3. Shown([u EXCEPT !.entry = text])
    <3> HIDE DEF u
    <3>1. Shown(u)
      BY <2>2 DEF u
    <3> QED BY <3>1 DEF Shown, Window
  <2> DEFINE v == [u EXCEPT !.entry = text]
  <2>4. Shown(RefreshTapHold(v))
    <3> HIDE DEF v
    <3>1. Shown(v)
      BY <2>3 DEF v
    <3> QED BY <3>1, StaysShown
  <2> QED BY <2>4
<1>9. CASE Assign
  BY <1>4, <1>5, <1>8, <1>9 DEF Assign
<1>10. CASE Select
  <2>1. PICK k \in Key : Show(Refresh([Collect(ui) EXCEPT !.key = k]))
    BY <1>10 DEF Select
  <2> DEFINE u == [Collect(ui) EXCEPT !.key = k]
  <2>2. Shown(u)
    BY <1>2 DEF Shown, Window
  <2>3. Shown(Refresh(u))
    <3> HIDE DEF u
    <3> QED BY <2>2, StaysShown
  <2> QED BY <1>3, <1>10, <2>1, <2>3 DEF Select
<1>11. CASE Shift
  <2>1. PICK l \in DOMAIN ui.layers : Show(Refresh([Collect(ui) EXCEPT !.layer = l]))
    BY <1>11 DEF Shift
  <2> DEFINE u == [Collect(ui) EXCEPT !.layer = l]
  <2>2. l \in Nat
    BY <1>1, LenProperties DEF Shown, Window
  <2>3. Shown(u)
    BY <1>2, <2>2 DEF Shown, Window
  <2>4. Shown(Refresh(u))
    <3> HIDE DEF u
    <3> QED BY <2>3, StaysShown
  <2> QED BY <1>3, <1>11, <2>1, <2>4 DEF Shift
<1>12. CASE Validate
  BY <1>2, <1>3, <1>12 DEF Validate
<1>13. CASE Apply
  BY <1>2, <1>3, <1>13, StaysShown DEF Apply
<1>14. CASE ApplyTapHold
  <2> DEFINE text == Assigned(ui.tap, ui.hold, ui.layers)
  <2>1. text \in Text
    BY <1>1, ShownNames, AssignedTyped DEF Shown, Window
  <2>2. ui.key # None /\ Show(RefreshTapHold([SetKey(ui, text) EXCEPT !.entry = text])) /\ Idle
    BY <1>14 DEF ApplyTapHold
  <2> HIDE DEF text
  <2> QED BY <1>3, <1>8, <2>1, <2>2
<1>15. CASE Reload
  <2>1. CASE file.config = Torn
    BY <1>2, <1>3, <1>15, <2>1 DEF Reload
  <2>2. CASE file.config # Torn
    <3> DEFINE c == file.config
               l == IF ui.layer <= Len(c.layers) THEN ui.layer ELSE Len(c.layers)
               u == [ui EXCEPT !.layers = LoadLayers(c), !.layer = l, !.quick = c.quick,
                               !.tapping = c.tapping]
    <3>1. IsConfig(c) /\ c.quick \in Nat /\ c.tapping \in Nat
      BY <2>2 DEF EditorInv, TypeOK, IsConfig
    <3>2. LoadLayers(c) \in Seq(ShownLayer) /\ DOMAIN LoadLayers(c) = 1 .. Len(c.layers)
      BY <3>1, LoadLayersTyped, ConfigLen
    <3>3. ui.layer \in Nat /\ ui.layer >= 1 /\ Len(c.layers) \in Nat /\ Len(c.layers) > 0
      BY <1>1, <3>1, ConfigLen, LenProperties DEF Shown, Window
    <3>4. l \in Nat /\ l \in DOMAIN LoadLayers(c)
      BY <3>2, <3>3
    <3>5. Show(Refresh(u)) /\ Idle
      BY <1>15, <2>2 DEF Reload
    <3>6. Shown(u)
      <4> HIDE DEF l, c
      <4> QED BY <1>1, <3>1, <3>2, <3>4 DEF Shown, Window
    <3>7. Shown(Refresh(u))
      <4> HIDE DEF u
      <4> QED BY <3>6, StaysShown
    <3> QED BY <1>3, <3>5, <3>7
  <2> QED BY <2>1, <2>2
<1> QED BY <1>6, <1>7, <1>9, <1>10, <1>11, <1>12, <1>13, <1>14, <1>15
\* What the type invariant says of the files, the keyboard and the processes.
LEMMA PartsTyped ==
  ASSUME EditorInv
  PROVE  /\ file = [by |-> file.by, config |-> file.config]
         /\ file.config = Torn \/ IsConfig(file.config)
         /\ tmp = [by |-> tmp.by, config |-> tmp.config] /\ tmp.by \in Proc \cup {"nobody"}
         /\ tmp.config = Torn \/ IsConfig(tmp.config)
         /\ target \in [Proc -> {"tmp", "file", "gone"}]
         /\ IsStored(keyboard) /\ Shown(ui) /\ live \in BOOLEAN /\ snapshots \in 0 .. 1
         /\ at \in [Proc -> {"idle", "read", "open", "write", "rename", "apply"}]
         /\ next = [p \in Proc |-> next[p]]
         /\ \A p \in Proc : at[p] \in {"open", "write", "rename"} => IsConfig(next[p])
         /\ "editor" \in Proc /\ "snapshot" \in Proc
BY DEF EditorInv, TypeOK, Shown, Proc

\* What a process writes into the file it has open, in whichever place that is.
LEMMA WriteDoes ==
  ASSUME NEW p \in Proc, Write(p)
  PROVE  /\ at[p] = "write" /\ at' = [at EXCEPT ![p] = "rename"]
         /\ target' = [target EXCEPT ![p] = "gone"]
         /\ UNCHANGED <<keyboard, ui, next, read, live, inputs, snapshots>>
         /\ \E bytes : /\ bytes = [by |-> bytes.by, config |-> bytes.config]
                       /\ bytes.by = p /\ bytes.config \in {Torn, next[p]}
                       /\ \/ file' = bytes /\ UNCHANGED tmp
                          \/ tmp' = bytes /\ UNCHANGED file
                          \/ UNCHANGED <<file, tmp>>
<1> DEFINE whole == [by |-> p, config |-> next[p]]
           torn == [by |-> p, config |-> Torn]
<1>1. \A f : Over(p, f) \subseteq {whole, torn}
  BY DEF Over
<1>2. \A bytes \in {whole, torn} : /\ bytes = [by |-> bytes.by, config |-> bytes.config]
                                  /\ bytes.by = p /\ bytes.config \in {Torn, next[p]}
  OBVIOUS
<1> HIDE DEF whole, torn
<1>3. \/ file' \in {whole, torn} /\ UNCHANGED tmp
      \/ tmp' \in {whole, torn} /\ UNCHANGED file
      \/ UNCHANGED <<file, tmp>>
  <2>1. \/ tmp' \in Over(p, tmp) /\ UNCHANGED file
        \/ file' \in Over(p, file) /\ UNCHANGED tmp
        \/ UNCHANGED <<file, tmp>>
    BY DEF Write
  <2> QED BY <1>1, <2>1
<1>4. whole \in {whole, torn}
  OBVIOUS
<1>5. \E bytes \in {whole, torn} : \/ file' = bytes /\ UNCHANGED tmp
                                   \/ tmp' = bytes /\ UNCHANGED file
                                   \/ UNCHANGED <<file, tmp>>
  BY <1>3, <1>4
<1>6. /\ at[p] = "write" /\ at' = [at EXCEPT ![p] = "rename"]
      /\ target' = [target EXCEPT ![p] = "gone"]
      /\ UNCHANGED <<keyboard, ui, next, read, live, inputs, snapshots>>
  BY DEF Write
<1> QED BY <1>2, <1>5, <1>6

\* The save of the editor.
LEMMA SaveStep == ASSUME EditorInv, Save PROVE EditorInv'
<1>1. Shown(ui') /\ ui' = Collect(ui)
  BY PartsTyped, CollectShown DEF Save
<1>2. /\ \/ /\ SettingsValid(ui') /\ at' = [at EXCEPT !["editor"] = "read"] /\ live' \in BOOLEAN
         \/ UNCHANGED <<at, live>> /\ at["editor"] = "idle"
      /\ UNCHANGED <<file, tmp, target, keyboard, next, read, inputs, snapshots>>
  BY DEF Save, Idle
<1>3. /\ at' \in [Proc -> {"idle", "read", "open", "write", "rename", "apply"}] /\ live' \in BOOLEAN
      /\ \A p \in Proc : at'[p] \in {"open", "write", "rename"} => at[p] = at'[p]
  BY <1>2, PartsTyped
<1>4. at'["editor"] = "read" => SettingsValid(ui')
  BY <1>2, PartsTyped
<1>5. (SettingsValid(ui))' <=> SettingsValid(ui')
  BY DEF SettingsValid
<1>6. (IsConfig(file.config))' <=> IsConfig(file.config)
  BY <1>2 DEF IsConfig
<1>7. (IsConfig(tmp.config))' <=> IsConfig(tmp.config)
  BY <1>2 DEF IsConfig
<1>8. \A p \in Proc : (IsConfig(next[p]))' <=> IsConfig(next[p])
  BY <1>2 DEF IsConfig
<1>9. (IsStored(keyboard))' <=> IsStored(keyboard)
  BY <1>2 DEF IsStored
<1> QED BY <1>1, <1>2, <1>3, <1>4, <1>5, <1>6, <1>7, <1>8, <1>9 DEF EditorInv, TypeOK, Shown

LEMMA ReadBackStep == ASSUME EditorInv, ReadBack PROVE EditorInv'
<1>1. at["editor"] = "read" /\ UNCHANGED <<file, tmp, target, keyboard, ui, read, inputs, snapshots>>
  BY DEF ReadBack
<1>2. CASE file.config = Torn \/ Len(file.config.layers) # Len(ui.layers)
  <2>1. at' = [at EXCEPT !["editor"] = "idle"] /\ live' = FALSE /\ UNCHANGED next
    BY <1>2 DEF ReadBack
  <2>2. /\ at' \in [Proc -> {"idle", "read", "open", "write", "rename", "apply"}]
        /\ at'["editor"] = "idle" /\ \A p \in Proc : p # "editor" => at'[p] = at[p]
    BY <2>1, PartsTyped
  <2> QED BY <1>1, <2>1, <2>2, PartsTyped, MovesFile
<1>3. CASE file.config # Torn /\ Len(file.config.layers) = Len(ui.layers)
  <2>1. /\ next' = [next EXCEPT !["editor"] = Saved(file.config)]
        /\ at' = [at EXCEPT !["editor"] = "open"] /\ UNCHANGED live
    BY <1>3 DEF ReadBack
  <2>2. IsConfig(file.config) /\ SettingsValid(ui) /\ Shown(ui)
    BY <1>1, <1>3, PartsTyped DEF EditorInv
  <2>3. DOMAIN ui.layers = DOMAIN file.config.layers
    BY <1>3, <2>2, ConfigLen, LenProperties DEF Shown, Window
  <2>4. IsConfig(Saved(file.config))
    BY <2>2, <2>3, SavedTyped
  <2>5. /\ at' \in [Proc -> {"idle", "read", "open", "write", "rename", "apply"}]
        /\ at'["editor"] = "open" /\ \A p \in Proc : p # "editor" => at'[p] = at[p]
    BY <2>1, PartsTyped
  <2>6. /\ next' = [p \in Proc |-> next'[p]] /\ next'["editor"] = Saved(file.config)
        /\ \A p \in Proc : p # "editor" => next'[p] = next[p]
    BY <2>1, PartsTyped
  <2>7. \A p \in Proc : at'[p] \in {"open", "write", "rename"} => IsConfig(next'[p])
    BY <2>4, <2>5, <2>6, PartsTyped
  <2> QED BY <1>1, <2>1, <2>5, <2>6, <2>7, PartsTyped, MovesFile
<1> QED BY <1>2, <1>3

\* The steps that replace the file, of either process.
LEMMA OpenStep == ASSUME EditorInv, NEW p \in Proc, Open(p) PROVE EditorInv'
<1>1. /\ at[p] = "open" /\ tmp' = [by |-> p, config |-> Torn] /\ at' = [at EXCEPT ![p] = "write"]
      /\ target' = [target EXCEPT ![p] = "tmp"]
      /\ UNCHANGED <<file, keyboard, ui, next, read, live, inputs, snapshots>>
  BY DEF Open
<1>2. /\ at' \in [Proc -> {"idle", "read", "open", "write", "rename", "apply"}]
      /\ at'[p] = "write" /\ \A q \in Proc : q # p => at'[q] = at[q]
  BY <1>1, PartsTyped
<1>3. tmp' = [by |-> tmp'.by, config |-> tmp'.config] /\ tmp'.by \in Proc /\ tmp'.config = Torn
  BY <1>1
<1>4. at'["editor"] = "read" => at["editor"] = "read"
  BY <1>2, PartsTyped
<1>5. \A q \in Proc : at'[q] \in {"open", "write", "rename"} => IsConfig(next'[q])
  BY <1>1, <1>2, PartsTyped
<1>6. target' \in [Proc -> {"tmp", "file", "gone"}]
  BY <1>1, PartsTyped
<1> QED BY <1>1, <1>2, <1>3, <1>4, <1>5, <1>6, PartsTyped, MovesFile

LEMMA WriteStep == ASSUME EditorInv, NEW p \in Proc, Write(p) PROVE EditorInv'
<1>1. PICK bytes :
        /\ at[p] = "write" /\ at' = [at EXCEPT ![p] = "rename"]
        /\ target' = [target EXCEPT ![p] = "gone"]
        /\ UNCHANGED <<keyboard, ui, next, read, live, inputs, snapshots>>
        /\ bytes = [by |-> bytes.by, config |-> bytes.config]
        /\ bytes.by = p /\ bytes.config \in {Torn, next[p]}
        /\ \/ file' = bytes /\ UNCHANGED tmp
           \/ tmp' = bytes /\ UNCHANGED file
           \/ UNCHANGED <<file, tmp>>
  BY WriteDoes
<1>2. /\ at' \in [Proc -> {"idle", "read", "open", "write", "rename", "apply"}]
      /\ at'[p] = "rename" /\ \A q \in Proc : q # p => at'[q] = at[q]
  BY <1>1, PartsTyped
<1>3. IsConfig(next[p])
  BY <1>1, PartsTyped
<1>4. /\ bytes = [by |-> bytes.by, config |-> bytes.config] /\ bytes.by \in Proc
      /\ bytes.config = Torn \/ IsConfig(bytes.config)
  BY <1>1, <1>3
<1>5. /\ file' = [by |-> file'.by, config |-> file'.config]
      /\ file'.config = Torn \/ IsConfig(file'.config)
      /\ tmp' = [by |-> tmp'.by, config |-> tmp'.config] /\ tmp'.by \in Proc \cup {"nobody"}
      /\ tmp'.config = Torn \/ IsConfig(tmp'.config)
  <2>1. CASE file' = bytes /\ UNCHANGED tmp
    BY <1>4, <2>1, PartsTyped
  <2>2. CASE tmp' = bytes /\ UNCHANGED file
    BY <1>4, <2>2, PartsTyped
  <2>3. CASE UNCHANGED <<file, tmp>>
    BY <2>3, PartsTyped
  <2> QED BY <1>1, <2>1, <2>2, <2>3
<1>6. at'["editor"] = "read" => at["editor"] = "read"
  BY <1>2, PartsTyped
<1>7. \A q \in Proc : at'[q] \in {"open", "write", "rename"} => IsConfig(next'[q])
  BY <1>1, <1>2, <1>3, PartsTyped
<1>8. target' \in [Proc -> {"tmp", "file", "gone"}]
  BY <1>1, PartsTyped
<1> QED BY <1>1, <1>2, <1>5, <1>6, <1>7, <1>8, PartsTyped, MovesFile

LEMMA RenameStep == ASSUME EditorInv, NEW p \in Proc, Rename(p) PROVE EditorInv'
<1>1. /\ at[p] = "rename" /\ at' = [at EXCEPT ![p] = at'[p]] /\ at'[p] \in {"apply", "idle"}
      /\ next' = [next EXCEPT ![p] = None] /\ live' = (live /\ p = "snapshot")
      /\ UNCHANGED <<keyboard, ui, read, inputs, snapshots>>
      /\ \/ tmp = NoFile /\ UNCHANGED <<file, tmp>>
         \/ tmp # NoFile /\ file' = tmp /\ tmp' = NoFile
  <2>1. /\ at[p] = "rename"
        /\ at' = [at EXCEPT ![p] = IF p = "editor" /\ live /\ tmp # NoFile THEN "apply" ELSE "idle"]
        /\ next' = [next EXCEPT ![p] = None] /\ live' = (live /\ p = "snapshot")
        /\ UNCHANGED <<keyboard, ui, read, inputs, snapshots>>
        /\ IF tmp = NoFile THEN UNCHANGED <<file, tmp>> ELSE file' = tmp /\ tmp' = NoFile
    BY DEF Rename
  <2>2. at'[p] = IF p = "editor" /\ live /\ tmp # NoFile THEN "apply" ELSE "idle"
    BY <2>1, PartsTyped
  <2> QED BY <2>1, <2>2
<1>2. /\ at' \in [Proc -> {"idle", "read", "open", "write", "rename", "apply"}]
      /\ \A q \in Proc : q # p => at'[q] = at[q]
  BY <1>1, PartsTyped
<1>3. next' = [q \in Proc |-> next'[q]] /\ \A q \in Proc : q # p => next'[q] = next[q]
  BY <1>1, PartsTyped
<1>4. /\ file' = [by |-> file'.by, config |-> file'.config]
      /\ file'.config = Torn \/ IsConfig(file'.config)
      /\ tmp' = [by |-> tmp'.by, config |-> tmp'.config] /\ tmp'.by \in Proc \cup {"nobody"}
      /\ tmp'.config = Torn \/ IsConfig(tmp'.config)
  <2>1. CASE tmp = NoFile /\ UNCHANGED <<file, tmp>>
    BY <2>1, PartsTyped
  <2>2. CASE tmp # NoFile /\ file' = tmp /\ tmp' = NoFile
    <3>1. /\ NoFile = [by |-> NoFile.by, config |-> NoFile.config] /\ NoFile.by = "nobody"
          /\ NoFile.config = Torn
      BY DEF NoFile
    <3> QED BY <2>2, <3>1, PartsTyped
  <2> QED BY <1>1, <2>1, <2>2
<1>5. at'["editor"] = "read" => at["editor"] = "read"
  BY <1>1, <1>2, PartsTyped
<1>6. \A q \in Proc : at'[q] \in {"open", "write", "rename"} => IsConfig(next'[q])
  BY <1>1, <1>2, <1>3, PartsTyped
<1>7. live' \in BOOLEAN
  BY <1>1
<1>8. target' \in [Proc -> {"tmp", "file", "gone"}]
  <2>1. \/ target' = target
        \/ target' = [q \in Proc |-> IF target[q] = "tmp" THEN "file" ELSE "gone"]
    BY DEF Rename
  <2> QED BY <2>1, PartsTyped
<1> QED BY <1>1, <1>2, <1>3, <1>4, <1>5, <1>6, <1>7, <1>8, PartsTyped, MovesFile
\* The apply the editor waits for, whole or in part.
LEMMA ApplyStep == ASSUME EditorInv, ApplyDone \/ ApplyFails PROVE EditorInv'
<1>1. /\ at["editor"] = "apply" /\ at' = [at EXCEPT !["editor"] = "idle"]
      /\ UNCHANGED <<file, tmp, target, ui, next, read, live, inputs, snapshots>>
  BY DEF ApplyDone, ApplyFails
<1>2. /\ at' \in [Proc -> {"idle", "read", "open", "write", "rename", "apply"}]
      /\ at'["editor"] = "idle" /\ \A q \in Proc : q # "editor" => at'[q] = at[q]
  BY <1>1, PartsTyped
<1>3. Accepts(file.config) => Entries(file.config) \in StoredKeys
  BY PartsTyped, EntriesTyped DEF Accepts
<1>4. /\ keyboard = [keys |-> keyboard.keys, buffer |-> keyboard.buffer]
      /\ keyboard.keys \in StoredKeys /\ keyboard.buffer \in Buffer
  BY PartsTyped DEF IsStored
<1>5. IsStored(keyboard')
  <2>1. CASE ApplyDone
    <3>1. Accepts(file.config)
          /\ keyboard' = [keys |-> Entries(file.config), buffer |-> EncodeMacros(file.config.macros)]
      BY <2>1 DEF ApplyDone
    <3> DEFINE buffer == EncodeMacros(file.config.macros)
    <3>2. buffer \in Buffer
      <4>1. file.config.macros \in Seq(Seq(U8))
        BY <3>1, PartsTyped DEF Accepts, IsConfig, Macros
      <4>2. buffer # NoBuffer
        BY <2>1 DEF ApplyDone
      <4> QED BY <4>1, <4>2, EncodeTyped
    <3> HIDE DEF buffer
    <3>3. keyboard' = [keys |-> Entries(file.config), buffer |-> buffer]
      BY <3>1 DEF buffer
    <3> QED BY <1>3, <3>1, <3>2, <3>3 DEF IsStored
  <2>2. CASE ApplyFails
    <3> DEFINE new == EncodeMacros(file.config.macros)
               Keys(done) == [l \in 1 .. LayerCount |-> [k \in Key |->
                  IF <<l, k>> \in done THEN Entries(file.config)[l][k] ELSE keyboard.keys[l][k]]]
               Bytes(n) == [i \in 1 .. BufferSize |-> IF i <= n THEN new[i] ELSE keyboard.buffer[i]]
    <3>1. PICK done \in SUBSET ((1 .. LayerCount) \X Key), n \in 0 .. BufferSize :
            /\ done # {} \/ n > 0 => Accepts(file.config)
            /\ n > 0 => new # NoBuffer
            /\ keyboard' = [keys |-> Keys(done), buffer |-> Bytes(n)]
      BY <2>2 DEF ApplyFails
    <3>2. Keys(done) \in StoredKeys
      <4>1. \A l \in 1 .. LayerCount : \A k \in Key : keyboard.keys[l][k] \in U16
        BY <1>4 DEF StoredKeys
      <4>2. \A l \in 1 .. LayerCount : \A k \in Key :
               <<l, k>> \in done => Entries(file.config)[l][k] \in U16
        BY <1>3, <3>1 DEF StoredKeys
      <4> QED BY <4>1, <4>2 DEF StoredKeys
    <3>3. Bytes(n) \in Buffer
      <4>1. CASE n = 0
        <5>1. \A i \in 1 .. BufferSize : ~ (i <= n)
          BY <4>1, CatalogAssumption
        <5> QED BY <1>4, <5>1 DEF Buffer
      <4>2. CASE n # 0
        <5>1. n > 0
          BY <4>2, CatalogAssumption
        <5>2. file.config.macros \in Seq(Seq(U8))
          BY <3>1, <5>1, PartsTyped DEF Accepts, IsConfig, Macros
        <5>3. new \in Buffer
          BY <3>1, <5>1, <5>2, EncodeTyped
        <5> HIDE DEF new
        <5> QED BY <1>4, <5>3 DEF Buffer
      <4> QED BY <4>1, <4>2
    <3> HIDE DEF Keys, Bytes
    <3>4. keyboard'.keys \in StoredKeys /\ keyboard'.buffer \in Buffer
      BY <3>1, <3>2, <3>3
    <3> QED BY <3>1, <3>4 DEF IsStored
  <2> QED BY <2>1, <2>2
<1>6. \A q \in Proc : at'[q] \in {"open", "write", "rename"} => IsConfig(next'[q])
  BY <1>1, <1>2, PartsTyped
<1> QED BY <1>1, <1>2, <1>5, <1>6, PartsTyped, MovesFile

LEMMA SnapshotStep == ASSUME EditorInv, Snapshot PROVE EditorInv'
<1> DEFINE new == Described(file.config, keyboard)
<1>1. /\ snapshots > 0 /\ snapshots' = snapshots - 1 /\ Accepts(file.config)
      /\ next' = [next EXCEPT !["snapshot"] = new] /\ at' = [at EXCEPT !["snapshot"] = "open"]
      /\ UNCHANGED <<file, tmp, target, keyboard, ui, live, inputs>>
  BY DEF Snapshot
<1>2. IsConfig(new)
  <2>1. IsConfig(file.config) /\ IsStored(keyboard)
    BY <1>1, PartsTyped DEF Accepts
  <2>2. Len(file.config.layers) <= LayerCount
    BY <1>1, <2>1, ConfigLen, EditorAssumption DEF Accepts, U8
  <2> QED BY <2>1, <2>2, DescribedTyped
<1> HIDE DEF new
<1>3. /\ at' \in [Proc -> {"idle", "read", "open", "write", "rename", "apply"}]
      /\ at'["snapshot"] = "open" /\ \A q \in Proc : q # "snapshot" => at'[q] = at[q]
  BY <1>1, PartsTyped
<1>4. /\ next' = [q \in Proc |-> next'[q]] /\ next'["snapshot"] = new
      /\ \A q \in Proc : q # "snapshot" => next'[q] = next[q]
  BY <1>1, PartsTyped
<1>5. \A q \in Proc : at'[q] \in {"open", "write", "rename"} => IsConfig(next'[q])
  BY <1>2, <1>3, <1>4, PartsTyped
<1>6. snapshots' \in 0 .. 1
  BY <1>1, PartsTyped
<1> QED BY <1>1, <1>3, <1>4, <1>5, <1>6, PartsTyped, MovesFile

\* What an edit by hand makes of a file.
LEMMA EditedFile ==
  ASSUME EditorInv, EditByHand
  PROVE  /\ file.config # Torn /\ IsConfig(file.config) /\ inputs' \in 0 .. MaxInputs
         /\ file' = [by |-> "hand", config |-> file'.config] /\ IsConfig(file'.config)
         /\ DOMAIN file'.config.layers \subseteq DOMAIN file.config.layers
         /\ \A j \in DOMAIN file'.config.layers :
               /\ file'.config.layers[j].id = file.config.layers[j].id
               /\ file'.config.layers[j].name = file.config.layers[j].name
         /\ UNCHANGED <<tmp, keyboard, ui, at, next, read, live, snapshots>>
<1>1. /\ file.config # Torn /\ inputs > 0 /\ inputs' = inputs - 1
      /\ UNCHANGED <<tmp, keyboard, ui, at, next, read, live, snapshots>>
  BY DEF EditByHand, Input
<1>2. inputs' \in 0 .. MaxInputs
  BY <1>1, EditorAssumption DEF EditorInv, TypeOK
<1>3. IsConfig(file.config)
  BY <1>1, PartsTyped
<1>4. CASE \E i \in DOMAIN file.config.layers, k \in Key, text \in Typed :
              file' = [by |-> "hand", config |-> [file.config EXCEPT !.layers[i].keys[k] = text]]
  <2>1. PICK i \in DOMAIN file.config.layers, k \in Key, text \in Typed :
              file' = [by |-> "hand", config |-> [file.config EXCEPT !.layers[i].keys[k] = text]]
    BY <1>4
  <2> DEFINE d == [file.config EXCEPT !.layers[i].keys[k] = text]
  <2>2. text \in Text
    BY EditorAssumption
  <2>3. /\ IsConfig(d) /\ DOMAIN d.layers = DOMAIN file.config.layers
        /\ \A j \in DOMAIN file.config.layers :
              d.layers[j].id = file.config.layers[j].id /\ d.layers[j].name = file.config.layers[j].name
    BY <1>3, <2>2, KeyEdited
  <2>4. file' = [by |-> "hand", config |-> d]
    BY <2>1
  <2> HIDE DEF d
  <2> QED BY <1>1, <1>2, <1>3, <2>3, <2>4
<1>5. CASE /\ Len(file.config.layers) > 1
           /\ file' = [by |-> "hand", config |-> [file.config EXCEPT !.layers = Front(@)]]
  <2>1. file' = [by |-> "hand", config |-> Dropped(file.config)]
    BY <1>5 DEF Dropped
  <2> QED BY <1>1, <1>2, <1>3, <1>5, <2>1, LayerDropped
<1> QED BY <1>4, <1>5 DEF EditByHand

LEMMA EditByHandStep == ASSUME EditorInv, EditByHand PROVE EditorInv'
<1>1. /\ inputs' \in 0 .. MaxInputs /\ IsConfig(file'.config)
      /\ file' = [by |-> "hand", config |-> file'.config]
      /\ UNCHANGED <<tmp, keyboard, ui, at, next, read, live, snapshots>>
  BY EditedFile
<1>2. file' = [by |-> file'.by, config |-> file'.config]
  BY <1>1
<1>3. (IsConfig(file.config))' <=> IsConfig(file'.config)
  BY DEF IsConfig
<1>4. (IsConfig(tmp.config))' <=> IsConfig(tmp.config)
  BY <1>1 DEF IsConfig
<1>5. \A p \in Proc : (IsConfig(next[p]))' <=> IsConfig(next[p])
  BY <1>1 DEF IsConfig
<1>6. (IsStored(keyboard))' <=> IsStored(keyboard)
  BY <1>1 DEF IsStored
<1>7. (SettingsValid(ui))' <=> SettingsValid(ui)
  BY <1>1 DEF SettingsValid
<1>8. target' \in [Proc -> {"tmp", "file", "gone"}]
  <2>1. target' \in {target, [q \in Proc |-> IF target[q] = "file" THEN "gone" ELSE target[q]]}
    BY DEF EditByHand
  <2> QED BY <2>1, PartsTyped
<1> QED BY <1>1, <1>2, <1>3, <1>4, <1>5, <1>6, <1>7, <1>8 DEF EditorInv, TypeOK

LEMMA EditorInvStep == EditorInv /\ [Next]_vars => EditorInv'
<1> SUFFICES ASSUME EditorInv, [Next]_vars PROVE EditorInv'
  OBVIOUS
<1>1. CASE Type \/ TypeTerm \/ Assign \/ Select \/ Shift \/ Validate \/ Apply \/ ApplyTapHold \/ Reload
  BY <1>1, WindowStep
<1>2. CASE Save
  BY <1>2, SaveStep
<1>3. CASE ReadBack
  BY <1>3, ReadBackStep
<1>4. CASE ApplyDone \/ ApplyFails
  BY <1>4, ApplyStep
<1>5. CASE Snapshot
  BY <1>5, SnapshotStep
<1>6. CASE EditByHand
  BY <1>6, EditByHandStep
<1>7. CASE \E p \in Proc : Open(p) \/ Write(p) \/ Rename(p)
  BY <1>7, OpenStep, WriteStep, RenameStep
<1>8. CASE UNCHANGED vars
  BY <1>8, ShowsWindow, PartsTyped, MovesFile DEF vars
<1> QED BY <1>1, <1>2, <1>3, <1>4, <1>5, <1>6, <1>7, <1>8 DEF Next

\* Whatever is typed, edited, saved, reloaded and written in between, the
\* files hold configurations or are cut short, what the window shows and
\* selects is there to be shown, a process that replaces the file has a whole
\* configuration for it, and the keyboard stores keycodes.
THEOREM EditorInvariant == Spec => []EditorInv
<1>1. Init => EditorInv
  BY EditorInvInit
<1>2. EditorInv /\ [Next]_vars => EditorInv'
  BY EditorInvStep
<1> QED BY <1>1, <1>2, PTL DEF Spec

\* The type invariant, for any catalog, layers and keys.
THEOREM TypeCorrect == Spec => []TypeOK
<1>1. EditorInv => TypeOK
  BY DEF EditorInv
<1> QED BY <1>1, EditorInvariant, PTL
-----------------------------------------------------------------------------
(* What is typed survives.                                                   *)

\* A key of the layer shown, and what SetKey makes of the layers.
LEMMA SetKeyReads ==
  ASSUME NEW u, Shown(u), u.key \in Key, NEW text
  PROVE  SetKey(u, text).layers[u.layer].keys[u.key] = text
<1>1. u.layers \in Seq(ShownLayer) /\ u.layer \in 1 .. Len(u.layers)
  BY LenProperties DEF Shown, Window
<1>2. u.layers[u.layer] \in ShownLayer
  BY <1>1, ElementOfSeq
<1> DEFINE new == [u.layers[u.layer] EXCEPT !.keys = [@ EXCEPT ![u.key] = text]]
<1>3. new.keys[u.key] = text
  BY <1>2 DEF ShownLayer
<1>4. SetKey(u, text).layers = [u.layers EXCEPT ![u.layer] = new]
  BY DEF SetKey, Shown, Window
<1> HIDE DEF new
<1>5. u.layer \in DOMAIN u.layers
  BY DEF Shown
<1> QED BY <1>3, <1>4, <1>5

\* Writing what a key holds changes no layer.
LEMMA SetKeySame ==
  ASSUME NEW u, Shown(u), u.key \in Key, u.entry = u.layers[u.layer].keys[u.key]
  PROVE  SetKey(u, u.entry).layers = u.layers
<1>1. u.layers \in Seq(ShownLayer) /\ u.layer \in 1 .. Len(u.layers) /\ DOMAIN u.layers = 1 .. Len(u.layers)
  BY LenProperties DEF Shown, Window
<1>2. u.layers[u.layer] \in ShownLayer
  BY <1>1, ElementOfSeq
<1> DEFINE new == [u.layers[u.layer] EXCEPT !.keys = [@ EXCEPT ![u.key] = u.entry]]
<1>3. new = u.layers[u.layer]
  <2>1. PICK n, keys : u.layers[u.layer] = [name |-> n, keys |-> keys] /\ keys \in [Key -> Text]
    BY <1>2 DEF ShownLayer
  <2>2. [keys EXCEPT ![u.key] = u.entry] = keys
    BY <2>1
  <2> QED BY <2>1, <2>2
<1>4. SetKey(u, u.entry).layers = [u.layers EXCEPT ![u.layer] = new]
  BY DEF SetKey, Shown, Window
<1>5. [u.layers EXCEPT ![u.layer] = u.layers[u.layer]] = u.layers
  <2>1. u.layers \in [1 .. Len(u.layers) -> ShownLayer]
    BY <1>1, LenProperties
  <2> QED BY <2>1
<1> HIDE DEF new
<1> QED BY <1>3, <1>4, <1>5

\* A window whose entry shows the selected key, or that has none selected,
\* collects what it has.
LEMMA CollectSame ==
  ASSUME NEW u, Shown(u), u.key # None => u.entry = u.layers[u.layer].keys[u.key]
  PROVE  Collect(u).layers = u.layers
<1>1. CASE u.key = None \/ ~ Collects(u)
  BY <1>1 DEF Collect
<1>2. CASE u.key # None /\ Collects(u)
  <2>1. u.key \in Key
    BY <1>2 DEF Shown, Window
  <2>2. SetKey(u, u.entry).layers = u.layers
    BY <1>2, <2>1, SetKeySame
  <2> QED BY <1>2, <2>2 DEF Collect
<1> QED BY <1>1, <1>2

\* A window that is refreshed collects what it has.
LEMMA RefreshCollects ==
  ASSUME NEW u, Shown(u)
  PROVE  Collect(Refresh(u)).layers = u.layers
<1> DEFINE w == Refresh(u)
<1>1. /\ Shown(w) /\ w.layers = u.layers /\ w.layer = u.layer /\ w.key = u.key
      /\ u.key # None => w.entry = u.layers[u.layer].keys[u.key]
  BY RefreshShown
<1> HIDE DEF w
<1>2. Collect(w).layers = w.layers
  BY <1>1, CollectSame
<1> QED BY <1>1, <1>2 DEF w

\* A window that has collected has nothing else to collect.
LEMMA CollectAgain ==
  ASSUME NEW u, Shown(u), NEW w, Shown(w), w.layers = Collect(u).layers, w.layer = u.layer,
         w.key = u.key, w.entry = u.entry
  PROVE  Collect(w).layers = Collect(u).layers
<1> DEFINE c == Collect(u)
<1>3. w.layers = c.layers
  OBVIOUS
<1>4. CASE u.key = None
  <2>1. Collect(w) = w
    BY <1>3, <1>4 DEF Collect
  <2> QED BY <1>3, <2>1
<1>5. CASE u.key # None /\ Collects(u)
  <2>1. c.layers[u.layer].keys[u.key] = u.entry
    <3>1. u.key \in Key
      BY <1>5 DEF Shown, Window
    <3> QED BY <1>5, <3>1, SetKeyReads DEF Collect
  <2> HIDE DEF c
  <2>2. Collect(w).layers = w.layers
    BY <1>3, <2>1, CollectSame
  <2> QED BY <1>3, <2>2 DEF c
<1>6. CASE u.key # None /\ ~ Collects(u)
  <2>1. c.layers = u.layers
    BY <1>6 DEF Collect
  <2>2. ~ Collects(w)
    BY <1>3, <1>6, <2>1 DEF Collects
  <2>3. Collect(w) = w
    BY <2>2 DEF Collect
  <2> QED BY <1>3, <2>3
<1> QED BY <1>4, <1>5, <1>6

\* One step of the window, of the files or of the keyboard.
LEMMA EditsSurviveStep ==
  ASSUME EditorInv, [Next]_vars, ~ Reload, ~ ApplyTapHold, inputs' = inputs
  PROVE  Collect(ui').layers = Collect(ui).layers
<1>1. Shown(ui) /\ inputs \in Nat
  BY EditorAssumption, PartsTyped DEF EditorInv, TypeOK
<1>2. /\ Shown(Collect(ui)) /\ DOMAIN Collect(ui).layers = DOMAIN ui.layers
      /\ Collect(ui).layer = ui.layer /\ Collect(ui).key = ui.key /\ Collect(ui).entry = ui.entry
  BY <1>1, CollectShown
<1>3. CASE ui' = ui
  BY <1>3
<1>4. ~ Type /\ ~ TypeTerm /\ ~ Assign
  <2>1. \A u : ~ Change(u)
    BY <1>1 DEF Change, Input
  <2> QED BY <2>1 DEF Type, TypeTerm, Assign
<1>5. CASE Select
  <2>1. PICK k \in Key : ui' = Refresh([Collect(ui) EXCEPT !.key = k])
    BY <1>5 DEF Select, Show
  <2> DEFINE c == Collect(ui)
             u == [c EXCEPT !.key = k]
  <2>2. Shown(u) /\ u.layers = c.layers
    <3> HIDE DEF c
    <3>1. Shown(c)
      BY <1>2 DEF c
    <3> QED BY <3>1 DEF Shown, Window
  <2>3. Collect(Refresh(u)).layers = u.layers
    <3> HIDE DEF u
    <3> QED BY <2>2, RefreshCollects
  <2> QED BY <2>1, <2>2, <2>3
<1>6. CASE Shift
  <2>1. PICK l \in DOMAIN ui.layers : ui' = Refresh([Collect(ui) EXCEPT !.layer = l])
    BY <1>6 DEF Shift, Show
  <2> DEFINE c == Collect(ui)
             u == [c EXCEPT !.layer = l]
  <2>2. Shown(u) /\ u.layers = c.layers
    <3> HIDE DEF c
    <3>1. Shown(c) /\ l \in DOMAIN c.layers /\ l \in Nat
      BY <1>1, <1>2, LenProperties DEF c, Shown, Window
    <3> QED BY <3>1 DEF Shown, Window
  <2>3. Collect(Refresh(u)).layers = u.layers
    <3> HIDE DEF u
    <3> QED BY <2>2, RefreshCollects
  <2> QED BY <2>1, <2>2, <2>3
<1>7. CASE ui' = Collect(ui)
  <2> DEFINE c == Collect(ui)
  <2>1. Collect(c).layers = c.layers
    BY <1>1, <1>2, CollectAgain
  <2> QED BY <1>7, <2>1
<1>8. CASE Apply
  <2> DEFINE w == RefreshTapHold(Collect(ui))
  <2>1. /\ Shown(w) /\ w.layers = Collect(ui).layers /\ w.layer = ui.layer
        /\ w.key = ui.key /\ w.entry = ui.entry
    BY <1>2, RefreshTapHoldShown
  <2>2. ui' = w
    BY <1>8 DEF Apply, Show
  <2> HIDE DEF w
  <2> QED BY <1>1, <2>1, <2>2, CollectAgain
<1>9. ReadBack \/ ApplyDone \/ ApplyFails \/ Snapshot \/ EditByHand \/ UNCHANGED vars
        \/ (\E p \in Proc : Open(p) \/ Write(p) \/ Rename(p)) => ui' = ui
  BY DEF ReadBack, ApplyDone, ApplyFails, Snapshot, EditByHand, vars, Open, Write, Rename
<1>10. Validate \/ Save => ui' = Collect(ui)
  BY DEF Validate, Save, Show
<1> QED BY <1>3, <1>4, <1>5, <1>6, <1>7, <1>8, <1>9, <1>10 DEF Next

\* What is typed for one key is not lost on the way to another.
THEOREM EditsSurvived == Spec => EditsSurvive
<1>1. EditorInv /\ [Next]_vars =>
        [~Reload /\ ~ApplyTapHold /\ inputs' = inputs => Collect(ui').layers = Collect(ui).layers]_vars
  BY EditsSurviveStep
<1> QED BY <1>1, EditorInvariant, PTL DEF Spec, EditsSurvive
-----------------------------------------------------------------------------
(* A snapshot keeps the keys it has read.                                    *)

LEMMA DescribedKeeps ==
  ASSUME NEW c, IsConfig(c), Len(c.layers) <= LayerCount, NEW kb, IsStored(kb), Accepts(Described(c, kb))
  PROVE  KeysKept(Described(c, kb), kb)
<1> DEFINE layers == c.layers
           others == Described(c, kb).layers
<1>1. /\ others \in Seq(FileLayer) /\ DOMAIN others = DOMAIN layers /\ layers \in Seq(FileLayer)
      /\ \A i \in DOMAIN layers :
            /\ others[i].id = layers[i].id
            /\ \A k \in Key : /\ kb.keys[i][k] \in U16
                              /\ others[i].keys[k] = Describe(kb.keys[i][k], layers)
  BY DescribedTyped, ConfigLen
<1>2. /\ \A i, j \in DOMAIN others : others[i].id = others[j].id => i = j
      /\ \A i \in DOMAIN others : \A k \in Key : Resolve(others[i].keys[k], others) # NoCode
  BY DEF Accepts
<1> SUFFICES ASSUME \A i, j \in DOMAIN others : others[i].id = others[j].name => i = j,
                    NEW i \in DOMAIN others, NEW k \in Key
             PROVE  Resolve(others[i].keys[k], others) = kb.keys[i][k]
  BY DEF KeysKept
<1> HIDE DEF layers, others
<1>3. \A m, n \in DOMAIN layers : others[m].id \in {others[n].id, others[n].name} => m = n
  BY <1>1, <1>2
<1>4. Resolve(Describe(kb.keys[i][k], layers), others) # NoCode /\ kb.keys[i][k] \in U16
  BY <1>1, <1>2
<1>5. Resolve(Describe(kb.keys[i][k], layers), others) = kb.keys[i][k]
  BY <1>1, <1>3, <1>4, DescribeResolves
<1> QED BY <1>1, <1>5

\* A snapshot keeps the macro buffer it has read.
LEMMA DescribedKeepsMacros ==
  ASSUME NEW c, IsConfig(c), Len(c.layers) <= LayerCount, NEW kb, IsStored(kb)
  PROVE  MacrosKept(Described(c, kb), kb)
<1> SUFFICES ASSUME Tidy(kb.buffer) PROVE EncodeMacros(DecodeMacros(kb.buffer)) = kb.buffer
  BY DescribedTyped DEF MacrosKept
<1>1. kb.buffer \in Buffer
  BY DEF IsStored
<1>2. Len(kb.buffer) = BufferSize /\ DOMAIN kb.buffer = 1 .. BufferSize
  BY <1>1, BufferLen
<1>3. /\ kb.buffer[BufferSize] = 0
      /\ \A p \in 1 .. BufferSize : kb.buffer[p] # 0 => Nuls(kb.buffer, p) < Capacity
  BY <1>2 DEF Tidy, Last
<1> QED BY <1>1, <1>3, MacrosBack

LEMMA SnapshotInvStep == ASSUME EditorInv, SnapshotInv, [Next]_vars PROVE SnapshotInv'
<1> DEFINE s == "snapshot"
<1>1. /\ (KeysKept(next["snapshot"], read))' <=> KeysKept(next'["snapshot"], read')
      /\ (MacrosKept(next["snapshot"], read))' <=> MacrosKept(next'["snapshot"], read')
  BY DEF KeysKept, MacrosKept
<1>2. ASSUME UNCHANGED <<file, tmp, next, read>>,
             at'["snapshot"] = at["snapshot"] \/ at'["snapshot"] \in {"idle", "read", "apply"}
      PROVE  SnapshotInv'
  BY <1>1, <1>2 DEF SnapshotInv
<1>3. CASE Type \/ TypeTerm \/ Assign \/ Select \/ Shift \/ Validate \/ Apply \/ ApplyTapHold \/ Reload
  BY <1>2, <1>3 DEF Type, TypeTerm, Assign, Select, Shift, Validate, Apply, ApplyTapHold, Reload,
                    Show, Change, external
<1>4. CASE Save \/ ApplyDone \/ ApplyFails
  <2>1. UNCHANGED <<file, tmp, next, read>>
        /\ (at' = at \/ \E step : at' = [at EXCEPT !["editor"] = step])
    BY <1>4 DEF Save, ApplyDone, ApplyFails
  <2>2. at'["snapshot"] = at["snapshot"]
    BY <2>1, PartsTyped
  <2> QED BY <1>2, <2>1, <2>2
<1>5. CASE ReadBack
  <2>1. /\ UNCHANGED <<file, tmp, read>>
        /\ at'["snapshot"] = at["snapshot"] /\ next'["snapshot"] = next["snapshot"]
    BY <1>5, PartsTyped DEF ReadBack
  <2> QED BY <1>1, <2>1 DEF SnapshotInv
<1>6. CASE Snapshot
  <2>1. /\ Accepts(file.config) /\ Accepts(Described(file.config, keyboard))
        /\ next'["snapshot"] = Described(file.config, keyboard) /\ read' = keyboard
        /\ at'["snapshot"] = "open"
    BY <1>6, PartsTyped DEF Snapshot
  <2>2. IsConfig(file.config) /\ IsStored(keyboard)
    BY <2>1, PartsTyped DEF Accepts
  <2>3. Len(file.config.layers) <= LayerCount
    BY <2>1, <2>2, ConfigLen, EditorAssumption DEF Accepts, U8
  <2>4. KeysKept(next'["snapshot"], read') /\ MacrosKept(next'["snapshot"], read')
    BY <2>1, <2>2, <2>3, DescribedKeeps, DescribedKeepsMacros
  <2> QED BY <1>1, <2>1, <2>4 DEF SnapshotInv
<1>7. CASE EditByHand
  <2>1. /\ UNCHANGED <<tmp, at, next, read>> /\ file'.by = "hand"
    BY <1>7, EditedFile
  <2> QED BY <1>1, <2>1 DEF SnapshotInv
<1>8. ASSUME NEW p \in Proc, Open(p)
      PROVE  SnapshotInv'
  <2>1. /\ at[p] = "open" /\ tmp' = [by |-> p, config |-> Torn] /\ UNCHANGED <<file, next, read>>
        /\ at' = [at EXCEPT ![p] = "write"]
    BY <1>8 DEF Open
  <2>2. tmp' # NoFile /\ tmp'.config = Torn
    BY <2>1 DEF NoFile, Proc
  <2>3. at'["snapshot"] = IF p = "snapshot" THEN "write" ELSE at["snapshot"]
    BY <2>1, PartsTyped
  <2> QED BY <1>1, <2>1, <2>2, <2>3 DEF SnapshotInv
<1>9. ASSUME NEW p \in Proc, Write(p)
      PROVE  SnapshotInv'
  <2>1. PICK bytes :
          /\ at[p] = "write" /\ at' = [at EXCEPT ![p] = "rename"] /\ UNCHANGED <<next, read>>
          /\ bytes.by = p /\ bytes.config \in {Torn, next[p]}
          /\ \/ file' = bytes /\ UNCHANGED tmp
             \/ tmp' = bytes /\ UNCHANGED file
             \/ UNCHANGED <<file, tmp>>
    BY <1>9, WriteDoes
  <2>2. at'["snapshot"] = IF p = "snapshot" THEN "rename" ELSE at["snapshot"]
    BY <2>1, PartsTyped
  <2>3. bytes # NoFile
    BY <2>1 DEF NoFile, Proc
  <2> QED BY <1>1, <2>1, <2>2, <2>3 DEF SnapshotInv
<1>10. ASSUME NEW p \in Proc, Rename(p)
       PROVE  SnapshotInv'
  <2>1. /\ at[p] = "rename" /\ next' = [next EXCEPT ![p] = None] /\ UNCHANGED read
        /\ at' = [at EXCEPT ![p] = IF p = "editor" /\ live /\ tmp # NoFile THEN "apply" ELSE "idle"]
        /\ \/ tmp = NoFile /\ UNCHANGED <<file, tmp>>
           \/ file' = tmp /\ tmp' = NoFile
    BY <1>10 DEF Rename
  <2>2. CASE p = "snapshot"
    <3>1. at'["snapshot"] = "idle"
      BY <2>1, <2>2, PartsTyped
    <3> QED BY <1>1, <3>1 DEF SnapshotInv
  <2>3. CASE p # "snapshot"
    <3>1. at'["snapshot"] = at["snapshot"] /\ next'["snapshot"] = next["snapshot"]
      BY <2>1, <2>3, PartsTyped
    <3>2. NoFile.by # "snapshot"
      BY DEF NoFile
    <3> QED BY <1>1, <2>1, <3>1, <3>2 DEF SnapshotInv
  <2> QED BY <2>2, <2>3
<1>11. CASE UNCHANGED vars
  BY <1>2, <1>11 DEF vars
<1> QED BY <1>3, <1>4, <1>5, <1>6, <1>7, <1>8, <1>9, <1>10, <1>11 DEF Next

\* While snapshot-live writes, what it is about to write keeps the keys and
\* macros it has read, and nothing else is in the files under its name.
THEOREM SnapshotInvariant == Spec => []SnapshotInv
<1>1. Init => SnapshotInv
  <2>1. Init => at["snapshot"] = "idle"
    BY DEF Init, Proc
  <2> QED BY <2>1 DEF SnapshotInv
<1>2. EditorInv /\ SnapshotInv /\ [Next]_vars => SnapshotInv'
  BY SnapshotInvStep
<1> QED BY <1>1, <1>2, EditorInvariant, PTL DEF Spec

\* A snapshot is what the keyboard holds: what snapshot-live has put in the
\* file resolves, key by key, to the codes that it read, and its macros fill
\* the buffer that it read.
THEOREM SnapshotKeeps == Spec => SnapshotIsFaithful
<1> DEFINE Done == Rename("snapshot") /\ file'.by = "snapshot" /\ file'.config # Torn =>
                      KeysKept(file'.config, read) /\ MacrosKept(file'.config, read)
<1>1. EditorInv /\ SnapshotInv /\ [Next]_vars => [Done]_vars
  <2> SUFFICES ASSUME EditorInv, SnapshotInv, Rename("snapshot"), file'.by = "snapshot",
                      file'.config # Torn
               PROVE  KeysKept(file'.config, read) /\ MacrosKept(file'.config, read)
    OBVIOUS
  <2>1. /\ at["snapshot"] = "rename"
        /\ \/ tmp = NoFile /\ UNCHANGED <<file, tmp>>
           \/ file' = tmp
    BY DEF Rename
  <2>2. file'.config = next["snapshot"]
    BY <2>1 DEF SnapshotInv
  <2> QED BY <2>1, <2>2 DEF SnapshotInv
<1> QED BY <1>1, EditorInvariant, SnapshotInvariant, PTL DEF Spec, SnapshotIsFaithful
-----------------------------------------------------------------------------
(* The replacement of the file.                                              *)

LEMMA WholeInit == ASSUME ~IsConfig(Torn), Init PROVE WholeInv
<1>1. PICK start \in Starts : file = [by |-> "disk", config |-> start.config]
  BY DEF Init
<1>2. at = [p \in Proc |-> "idle"]
  BY DEF Init
<1>3. IsConfig(start.config)
  BY EditorAssumption
<1> QED BY <1>1, <1>2, <1>3 DEF WholeInv

LEMMA WholeStep ==
  ASSUME ~IsConfig(Torn), EditorInv, WholeInv, ~Overlap, ~Overlap', [Next]_vars
  PROVE  WholeInv'
<1>1. ASSUME UNCHANGED <<file, tmp, target>>,
             \A p \in Proc : at'[p] \in {"write", "rename"} => at'[p] = at[p] /\ next'[p] = next[p]
      PROVE  WholeInv'
  BY <1>1 DEF WholeInv
<1>2. CASE Type \/ TypeTerm \/ Assign \/ Select \/ Shift \/ Validate \/ Apply \/ ApplyTapHold \/ Reload
  BY <1>1, <1>2 DEF Type, TypeTerm, Assign, Select, Shift, Validate, Apply, ApplyTapHold, Reload,
                    Show, Change, external
<1>3. CASE Save \/ ApplyDone \/ ApplyFails
  <2>1. UNCHANGED <<file, tmp, target, next>>
        /\ (at' = at \/ \E step \in {"idle", "read"} : at' = [at EXCEPT !["editor"] = step])
    BY <1>3 DEF Save, ApplyDone, ApplyFails
  <2>2. \A p \in Proc : at'[p] = at[p] \/ at'[p] \in {"idle", "read"}
    BY <2>1, PartsTyped
  <2> QED BY <1>1, <2>1, <2>2
<1>4. CASE ReadBack \/ Snapshot
  <2>1. PICK q \in Proc : /\ UNCHANGED <<file, tmp, target>>
                          /\ \E step \in {"idle", "open"} : at' = [at EXCEPT ![q] = step]
                          /\ next' = next \/ \E config : next' = [next EXCEPT ![q] = config]
    BY <1>4 DEF ReadBack, Snapshot, Proc
  <2>2. \A p \in Proc : IF p = q THEN at'[p] \in {"idle", "open"}
                        ELSE at'[p] = at[p] /\ next'[p] = next[p]
    BY <2>1, PartsTyped
  <2> QED BY <1>1, <2>1, <2>2
<1>5. CASE EditByHand
  <2>1. /\ UNCHANGED <<tmp, at, next>> /\ IsConfig(file'.config)
    BY <1>5, EditedFile
  <2>2. \A p \in Proc : target[p] = "tmp" => target'[p] = "tmp"
    BY <1>5 DEF EditByHand
  <2> QED BY <2>1, <2>2 DEF WholeInv
<1>6. ASSUME NEW p \in Proc, Open(p)
      PROVE  WholeInv'
  <2>1. /\ tmp' = [by |-> p, config |-> Torn] /\ UNCHANGED <<file, next>>
        /\ at' = [at EXCEPT ![p] = "write"] /\ target' = [target EXCEPT ![p] = "tmp"]
    BY <1>6 DEF Open
  <2>2. at'[p] = "write" /\ target'[p] = "tmp" /\ \A q \in Proc : q # p => at'[q] \notin {"write", "rename"}
    BY <2>1, PartsTyped DEF Overlap, Proc
  <2> QED BY <2>1, <2>2 DEF WholeInv
<1>7. ASSUME NEW p \in Proc, Write(p)
      PROVE  WholeInv'
  <2>1. at[p] = "write" /\ tmp = [by |-> p, config |-> Torn] /\ target[p] = "tmp"
    BY <1>7 DEF Write, WholeInv
  <2>2. Over(p, tmp) = {[by |-> p, config |-> next[p]]}
    BY <2>1 DEF Over
  <2>3. /\ tmp' = [by |-> p, config |-> next[p]] /\ UNCHANGED <<file, next>>
        /\ at' = [at EXCEPT ![p] = "rename"]
    BY <1>7, <2>1, <2>2 DEF Write
  <2>4. at'[p] = "rename" /\ \A q \in Proc : q # p => at'[q] \notin {"write", "rename"}
    BY <2>3, PartsTyped DEF Overlap, Proc
  <2> QED BY <2>1, <2>3, <2>4 DEF WholeInv
<1>8. ASSUME NEW p \in Proc, Rename(p)
      PROVE  WholeInv'
  <2>1. /\ at[p] = "rename" /\ tmp = [by |-> p, config |-> next[p]] /\ IsConfig(next[p])
    BY <1>8 DEF Rename, WholeInv, EditorInv
  <2>2. tmp # NoFile
    BY <2>1 DEF NoFile, Proc
  <2>3. file' = tmp /\ \E step \in {"apply", "idle"} : at' = [at EXCEPT ![p] = step]
    BY <1>8, <2>2 DEF Rename
  <2>4. \A q \in Proc : at'[q] \notin {"write", "rename"}
    BY <1>8, <2>1, <2>3, PartsTyped DEF Overlap, Proc
  <2> QED BY <2>1, <2>3, <2>4 DEF WholeInv
<1>9. CASE UNCHANGED vars
  BY <1>1, <1>9 DEF vars
<1> QED BY <1>2, <1>3, <1>4, <1>5, <1>6, <1>7, <1>8, <1>9 DEF Next

LEMMA AtOnceStep ==
  ASSUME ~IsConfig(Torn), EditorInv, WholeInv, [Next]_vars, file' # file
  PROVE  EditByHand \/ \E p \in Proc : Rename(p) /\ file' = [by |-> p, config |-> next[p]]
<1>1. ASSUME NEW p \in Proc, Write(p)
      PROVE  FALSE
  <2>1. target[p] = "tmp"
    BY <1>1 DEF WholeInv, Write
  <2> QED BY <1>1, <2>1 DEF Write
<1>2. ASSUME NEW p \in Proc, Rename(p)
      PROVE  file' = [by |-> p, config |-> next[p]]
  <2>1. tmp = [by |-> p, config |-> next[p]]
    BY <1>2 DEF Rename, WholeInv
  <2> QED BY <1>2, <2>1 DEF Rename
<1>3. EditByHand \/ \E p \in Proc : Write(p) \/ Rename(p)
  BY DEF Next, vars, Type, TypeTerm, Assign, Select, Shift, Validate, Apply, ApplyTapHold, Reload,
         Show, Change, external, Save, ReadBack, ApplyDone, ApplyFails, Snapshot, Open
<1> QED BY <1>1, <1>2, <1>3

\* As long as the editor and snapshot-live do not write the temporary file at
\* the same time, the file is whole at any time, and save_configuration and
\* snapshot_live_command replace it in one step by what they were to write.
THEOREM ReplacementIsOneStep ==
  ~IsConfig(Torn) => (Spec /\ []~Overlap => []WholeInv /\ ReplacedAtOnce)
<1> SUFFICES ASSUME ~IsConfig(Torn)
             PROVE  Spec /\ []~Overlap => []WholeInv /\ ReplacedAtOnce
  OBVIOUS
<1> DEFINE Once == file' # file =>
              EditByHand \/ \E p \in Proc : Rename(p) /\ file' = [by |-> p, config |-> next[p]]
<1>1. Init => WholeInv
  BY WholeInit
<1>2. EditorInv /\ WholeInv /\ ~Overlap /\ (~Overlap)' /\ [Next]_vars => WholeInv'
  BY WholeStep
<1>3. EditorInv /\ WholeInv /\ [Next]_vars => [Once]_vars
  BY AtOnceStep
<1> QED BY <1>1, <1>2, <1>3, EditorInvariant, PTL DEF Spec, ReplacedAtOnce
-----------------------------------------------------------------------------
(* Layers keep their names.                                                  *)

LEMMA NamesInit == Init => NamesInv
<1> SUFFICES ASSUME Init PROVE NamesInv
  OBVIOUS
<1>1. PICK start \in Starts :
        file = [by |-> "disk", config |-> start.config] /\ ui.layers = LoadLayers(start.config)
  BY DEF Init
<1>2. tmp.config = Torn /\ \A p \in Proc : at[p] = "idle"
  BY DEF Init, NoFile
<1>3. NamedLike(LoadLayers(start.config), start.config.layers)
  BY EditorAssumption, LoadLayersTyped DEF NamedLike
<1>4. NamedLike(start.config.layers, start.config.layers)
  BY DEF NamedLike
<1>5. file.config = start.config
  BY <1>1
<1>6. NamesKept(start.config.layers)
  BY <1>1, <1>2, <1>3, <1>4, <1>5 DEF NamesKept
<1> QED BY <1>6 DEF NamesInv

\* What the window shows after a step it showed before, by name, or has loaded.
LEMMA WindowNames ==
  ASSUME EditorInv, [Next]_vars
  PROVE  \/ /\ DOMAIN ui'.layers = DOMAIN ui.layers
            /\ \A i \in DOMAIN ui.layers : ui'.layers[i].name = ui.layers[i].name
         \/ /\ file.config # Torn /\ DOMAIN ui'.layers = DOMAIN file.config.layers
            /\ \A i \in DOMAIN file.config.layers : ui'.layers[i].name = file.config.layers[i].name
<1> DEFINE Kept(l) == /\ DOMAIN l = DOMAIN ui.layers
                      /\ \A i \in DOMAIN ui.layers : l[i].name = ui.layers[i].name
<1>1. Shown(ui)
  BY PartsTyped
<1>2. /\ Shown(Collect(ui)) /\ Kept(Collect(ui).layers)
      /\ Collect(ui).layer = ui.layer /\ Collect(ui).key = ui.key
  BY <1>1, CollectShown
<1> DEFINE c == Collect(ui)
<1>3. CASE ui' = ui \/ ui'.layers = ui.layers
  BY <1>3
<1>4. CASE Type \/ TypeTerm
  <2>1. /\ \A x : [ui EXCEPT !.entry = x].layers = ui.layers /\ [ui EXCEPT !.tap = x].layers = ui.layers
        /\ \A x : [ui EXCEPT !.hold = x].layers = ui.layers /\ [ui EXCEPT !.quick = x].layers = ui.layers
    BY <1>1 DEF Shown, Window
  <2>2. ui'.layers = ui.layers
    <3>1. CASE Type
      BY <2>1, <3>1 DEF Type, Change
    <3>2. CASE TypeTerm
      BY <2>1, <3>2 DEF TypeTerm, Change
    <3> QED BY <1>4, <3>1, <3>2
  <2> QED BY <2>2
<1>5. ASSUME NEW text \in Text, ui.key # None,
             ui' = RefreshTapHold([SetKey(ui, text) EXCEPT !.entry = text])
      PROVE  Kept(ui'.layers)
  <2> DEFINE u == SetKey(ui, text)
             v == [u EXCEPT !.entry = text]
  <2>1. ui.key \in Key
    BY <1>1, <1>5 DEF Shown, Window
  <2>2. Shown(u) /\ Kept(u.layers)
    BY <1>1, <2>1, SetKeyShown
  <2>3. Shown(v) /\ v.layers = u.layers
    <3> HIDE DEF u, Kept
    <3> QED BY <2>2 DEF Shown, Window
  <2>4. RefreshTapHold(v).layers = v.layers
    <3> HIDE DEF v, Kept
    <3> QED BY <2>3, RefreshTapHoldShown
  <2>5. ui'.layers = u.layers
    BY <1>5, <2>3, <2>4
  <2> HIDE DEF u, v, Kept
  <2> QED BY <2>2, <2>5
<1>6. CASE Assign
  BY <1>5, <1>6, EditorAssumption DEF Assign, Change
<1>7. CASE ApplyTapHold
  <2> DEFINE text == Assigned(ui.tap, ui.hold, ui.layers)
  <2>1. text \in Text
    BY <1>1, ShownNames, AssignedTyped DEF Shown, Window
  <2>2. ui.key # None /\ ui' = RefreshTapHold([SetKey(ui, text) EXCEPT !.entry = text])
    BY <1>7 DEF ApplyTapHold, Show
  <2> HIDE DEF text
  <2> QED BY <1>5, <2>1, <2>2
<1>8. ASSUME NEW u, Shown(u), u.layers = c.layers, ui' = Refresh(u) \/ ui' = RefreshTapHold(u) \/ ui' = u
      PROVE  Kept(ui'.layers)
  <2>1. Refresh(u).layers = u.layers /\ RefreshTapHold(u).layers = u.layers
    BY <1>8, RefreshShown, RefreshTapHoldShown
  <2> QED BY <1>2, <1>8, <2>1
<1>9. CASE Select \/ Shift
  <2>1. \A x : [c EXCEPT !.key = x].layers = c.layers /\ [c EXCEPT !.layer = x].layers = c.layers
    BY <1>2 DEF Shown, Window
  <2>2. \A k \in Key : Shown([c EXCEPT !.key = k])
    BY <1>2 DEF Shown, Window
  <2>3. \A l \in DOMAIN ui.layers : Shown([c EXCEPT !.layer = l])
    <3>1. \A l \in DOMAIN ui.layers : l \in Nat /\ l \in DOMAIN c.layers
      BY <1>1, <1>2, LenProperties DEF Shown, Window
    <3> QED BY <1>2, <3>1 DEF Shown, Window
  <2>4. \/ \E k \in Key : ui' = Refresh([c EXCEPT !.key = k])
        \/ \E l \in DOMAIN ui.layers : ui' = Refresh([c EXCEPT !.layer = l])
    BY <1>9 DEF Select, Shift, Show
  <2> HIDE DEF c
  <2> QED BY <1>8, <2>1, <2>2, <2>3, <2>4
<1>10. CASE Validate \/ Apply \/ Save
  BY <1>2, <1>8, <1>10 DEF Validate, Apply, Save, Show
<1>11. CASE Reload
  <2>1. CASE file.config = Torn
    BY <1>2, <1>8, <1>11, <2>1 DEF Reload, Show
  <2>2. CASE file.config # Torn
    <3> DEFINE f == file.config
               l == IF ui.layer <= Len(f.layers) THEN ui.layer ELSE Len(f.layers)
               u == [ui EXCEPT !.layers = LoadLayers(f), !.layer = l, !.quick = f.quick,
                               !.tapping = f.tapping]
    <3>1. IsConfig(f) /\ f.quick \in Nat /\ f.tapping \in Nat
      BY <2>2, PartsTyped DEF IsConfig
    <3>2. /\ LoadLayers(f) \in Seq(ShownLayer) /\ DOMAIN LoadLayers(f) = 1 .. Len(f.layers)
          /\ DOMAIN LoadLayers(f) = DOMAIN f.layers
          /\ \A i \in DOMAIN f.layers : LoadLayers(f)[i].name = f.layers[i].name
      BY <3>1, LoadLayersTyped, ConfigLen
    <3>3. ui.layer \in Nat /\ ui.layer >= 1 /\ Len(f.layers) \in Nat /\ Len(f.layers) > 0
      BY <1>1, <3>1, ConfigLen, LenProperties DEF Shown, Window
    <3>4. l \in Nat /\ l \in DOMAIN LoadLayers(f)
      BY <3>2, <3>3
    <3>5. ui' = Refresh(u)
      BY <1>11, <2>2 DEF Reload, Show
    <3>6. Shown(u) /\ u.layers = LoadLayers(f)
      <4> HIDE DEF l, f
      <4> QED BY <1>1, <3>1, <3>2, <3>4 DEF Shown, Window
    <3>7. Refresh(u).layers = LoadLayers(f)
      <4> HIDE DEF u
      <4> QED BY <3>6, RefreshShown
    <3> QED BY <2>2, <3>2, <3>5, <3>7
  <2> QED BY <2>1, <2>2
<1>12. ReadBack \/ ApplyDone \/ ApplyFails \/ Snapshot \/ EditByHand \/ UNCHANGED vars
         \/ (\E p \in Proc : Open(p) \/ Write(p) \/ Rename(p)) => ui' = ui
  BY DEF ReadBack, ApplyDone, ApplyFails, Snapshot, EditByHand, vars, Open, Write, Rename
<1> QED BY <1>3, <1>4, <1>6, <1>7, <1>9, <1>10, <1>11, <1>12 DEF Next

LEMMA NamesStep ==
  ASSUME EditorInv, [Next]_vars, NEW begun, NamesKept(begun)
  PROVE  NamesKept(begun)'
<1> DEFINE Kept(l) == NamedLike(l, begun)
<1>1. /\ Kept(ui.layers)
      /\ file.config # Torn => Kept(file.config.layers)
      /\ tmp.config # Torn => Kept(tmp.config.layers)
      /\ \A p \in Proc : at[p] \in {"open", "write", "rename"} => Kept(next[p].layers)
  BY DEF NamesKept
<1>2. Kept(ui'.layers)
  <2>1. CASE /\ DOMAIN ui'.layers = DOMAIN ui.layers
             /\ \A i \in DOMAIN ui.layers : ui'.layers[i].name = ui.layers[i].name
    BY <1>1, <2>1 DEF NamedLike
  <2>2. CASE /\ file.config # Torn /\ DOMAIN ui'.layers = DOMAIN file.config.layers
             /\ \A i \in DOMAIN file.config.layers : ui'.layers[i].name = file.config.layers[i].name
    BY <1>1, <2>2 DEF NamedLike
  <2> QED BY <2>1, <2>2, WindowNames
<1>3. NamesKept(begun)' <=>
        /\ Kept(ui'.layers)
        /\ file'.config # Torn => Kept(file'.config.layers)
        /\ tmp'.config # Torn => Kept(tmp'.config.layers)
        /\ \A p \in Proc : at'[p] \in {"open", "write", "rename"} => Kept(next'[p].layers)
  BY DEF NamesKept, NamedLike
<1> HIDE DEF Kept
<1>4. ASSUME UNCHANGED <<file, tmp, next>>,
             \A p \in Proc : at'[p] \in {"open", "write", "rename"} => at[p] \in {"open", "write", "rename"}
      PROVE  NamesKept(begun)'
  BY <1>1, <1>2, <1>3, <1>4
<1>5. CASE Type \/ TypeTerm \/ Assign \/ Select \/ Shift \/ Validate \/ Apply \/ ApplyTapHold \/ Reload
  BY <1>4, <1>5 DEF Type, TypeTerm, Assign, Select, Shift, Validate, Apply, ApplyTapHold, Reload,
                    Show, Change, external
<1>6. CASE Save \/ ApplyDone \/ ApplyFails
  <2>1. /\ UNCHANGED <<file, tmp, next>>
        /\ at' = at \/ \E step \in {"read", "idle"} : at' = [at EXCEPT !["editor"] = step]
    BY <1>6 DEF Save, ApplyDone, ApplyFails
  <2>2. \A p \in Proc : at'[p] = at[p] \/ at'[p] \in {"read", "idle"}
    BY <2>1, PartsTyped
  <2> QED BY <1>4, <2>1, <2>2
<1>7. CASE ReadBack
  <2>1. at["editor"] = "read" /\ UNCHANGED <<file, tmp>>
    BY <1>7 DEF ReadBack
  <2>2. CASE file.config = Torn \/ Len(file.config.layers) # Len(ui.layers)
    <3>1. at' = [at EXCEPT !["editor"] = "idle"] /\ UNCHANGED next
      BY <1>7, <2>2 DEF ReadBack
    <3>2. \A p \in Proc : at'[p] = at[p] \/ at'[p] = "idle"
      BY <3>1, PartsTyped
    <3> QED BY <1>4, <2>1, <3>1, <3>2
  <2>3. CASE file.config # Torn /\ Len(file.config.layers) = Len(ui.layers)
    <3>1. /\ next' = [next EXCEPT !["editor"] = Saved(file.config)]
          /\ at' = [at EXCEPT !["editor"] = "open"]
      BY <1>7, <2>3 DEF ReadBack
    <3>2. IsConfig(file.config) /\ SettingsValid(ui) /\ Shown(ui)
      BY <2>1, <2>3, PartsTyped DEF EditorInv
    <3>3. DOMAIN ui.layers = DOMAIN file.config.layers
      BY <2>3, <3>2, ConfigLen, LenProperties DEF Shown, Window
    <3>4. Kept(Saved(file.config).layers)
      BY <1>1, <3>2, <3>3, SavedTyped DEF Kept, NamedLike
    <3>5. \A p \in Proc : \/ p = "editor" /\ next'[p] = Saved(file.config)
                          \/ at'[p] = at[p] /\ next'[p] = next[p]
      BY <3>1, PartsTyped
    <3> QED BY <1>1, <1>2, <1>3, <2>1, <3>4, <3>5
  <2> QED BY <2>2, <2>3
<1>8. CASE Snapshot
  <2> DEFINE new == Described(file.config, keyboard)
  <2>1. /\ Accepts(file.config) /\ next' = [next EXCEPT !["snapshot"] = new]
        /\ at' = [at EXCEPT !["snapshot"] = "open"] /\ UNCHANGED <<file, tmp>>
    BY <1>8 DEF Snapshot
  <2>2. IsConfig(file.config) /\ IsStored(keyboard)
    BY <2>1, PartsTyped DEF Accepts
  <2>3. Len(file.config.layers) <= LayerCount
    BY <2>1, <2>2, ConfigLen, EditorAssumption DEF Accepts, U8
  <2>4. file.config # Torn
    BY <2>1 DEF Accepts
  <2>5. Kept(new.layers)
    BY <1>1, <2>2, <2>3, <2>4, DescribedTyped DEF Kept, NamedLike
  <2> HIDE DEF new
  <2>6. \A p \in Proc : \/ p = "snapshot" /\ next'[p] = new
                        \/ at'[p] = at[p] /\ next'[p] = next[p]
    BY <2>1, PartsTyped
  <2> QED BY <1>1, <1>2, <1>3, <2>1, <2>5, <2>6
<1>9. CASE EditByHand
  <2>1. Kept(file'.config.layers) /\ UNCHANGED <<tmp, at, next>>
    BY <1>1, <1>9, EditedFile DEF Kept, NamedLike
  <2> QED BY <1>1, <1>2, <1>3, <2>1
<1>10. ASSUME NEW p \in Proc, Open(p)
       PROVE  NamesKept(begun)'
  <2>1. /\ at[p] = "open" /\ tmp' = [by |-> p, config |-> Torn] /\ at' = [at EXCEPT ![p] = "write"]
        /\ UNCHANGED <<file, next>>
    BY <1>10 DEF Open
  <2>2. \A q \in Proc : at'[q] = at[q] \/ (q = p /\ at[q] = "open")
    BY <2>1, PartsTyped
  <2>3. tmp'.config = Torn
    BY <2>1
  <2> QED BY <1>1, <1>2, <1>3, <2>1, <2>2, <2>3
<1>11. ASSUME NEW p \in Proc, Write(p)
       PROVE  NamesKept(begun)'
  <2>1. PICK bytes :
          /\ at[p] = "write" /\ at' = [at EXCEPT ![p] = "rename"] /\ UNCHANGED next
          /\ bytes.config \in {Torn, next[p]}
          /\ \/ file' = bytes /\ UNCHANGED tmp
             \/ tmp' = bytes /\ UNCHANGED file
             \/ UNCHANGED <<file, tmp>>
    BY <1>11, WriteDoes
  <2>2. bytes.config = Torn \/ Kept(bytes.config.layers)
    BY <1>1, <2>1
  <2>3. \A q \in Proc : at'[q] = at[q] \/ (q = p /\ at[q] = "write")
    BY <2>1, PartsTyped
  <2>4. /\ file'.config # Torn => Kept(file'.config.layers)
        /\ tmp'.config # Torn => Kept(tmp'.config.layers)
    BY <1>1, <2>1, <2>2
  <2> QED BY <1>1, <1>2, <1>3, <2>1, <2>3, <2>4
<1>12. ASSUME NEW p \in Proc, Rename(p)
       PROVE  NamesKept(begun)'
  <2>1. /\ next' = [next EXCEPT ![p] = None]
        /\ at' = [at EXCEPT ![p] = IF p = "editor" /\ live /\ tmp # NoFile THEN "apply" ELSE "idle"]
        /\ \/ tmp = NoFile /\ UNCHANGED <<file, tmp>>
           \/ file' = tmp /\ tmp' = NoFile
    BY <1>12 DEF Rename
  <2>2. \A q \in Proc : \/ at'[q] = at[q] /\ next'[q] = next[q]
                        \/ at'[q] \in {"apply", "idle"}
    BY <2>1, PartsTyped
  <2>3. NoFile.config = Torn
    BY DEF NoFile
  <2> QED BY <1>1, <1>2, <1>3, <2>1, <2>2, <2>3
<1>13. CASE UNCHANGED vars
  BY <1>4, <1>13 DEF vars
<1> QED BY <1>5, <1>6, <1>7, <1>8, <1>9, <1>10, <1>11, <1>12, <1>13 DEF Next

\* Wherever layers are written, shown or about to be written, they have the
\* names they had at the start.
THEOREM NamesInvariant == Spec => []NamesInv
<1>1. Init => NamesInv
  BY NamesInit
<1>2. EditorInv /\ NamesInv /\ [Next]_vars => NamesInv'
  <2> SUFFICES ASSUME EditorInv, NamesInv, [Next]_vars PROVE NamesInv'
    OBVIOUS
  <2>1. PICK start \in Starts : NamesKept(start.config.layers)
    BY DEF NamesInv
  <2>2. NamesKept(start.config.layers)'
    BY <2>1, NamesStep
  <2> QED BY <2>2 DEF NamesInv
<1> QED BY <1>1, <1>2, EditorInvariant, PTL DEF Spec
-----------------------------------------------------------------------------
(* The tap-hold editor gives a key back as it was.                           *)

\* What the entry shows of a text and the button takes for its tap.
LEMMA TapBack ==
  ASSUME NEW x \in Name, \A n \in Name : LegendOf[n] = Legend(x) => Code[n] = Code[x],
         TapCode(Legend(x)) # Empty
  PROVE  Basic(TapCode(Legend(x))) = Basic(x)
<1>1. \A n \in Name : Legend(n) = Legend(x) => Code[n] = Code[x]
  BY DEF LegendOf
<1> QED BY <1>1, LegendBack DEF Basic

\* A text whose tap resolves has a basic keycode for it.
LEMMA TapNamed == ASSUME NEW x, Basic(x) # NoCode PROVE x \in Name
BY DEF Basic

\* What the tap-hold editor's button makes of a key as it is shown.
GivenBack(text, shown) == Assigned(TapHoldOf(text, shown).tap, TapHoldOf(text, shown).hold, shown)

LEMMA HeldModifierBack ==
  ASSUME NEW text \in Text, NEW shown \in Seq(ShownLayer), NEW layers \in Seq(FileLayer),
         HeldModifier(text) # 0, Resolve(text, layers) # NoCode, ~ Lossy(text, layers),
         GivenBack(text, shown) # NoText
  PROVE  Resolve(GivenBack(text, shown), layers) = Resolve(text, layers)
<1> DEFINE again == GivenBack(text, shown)
           h == HeldModifier(text)
           y == TapCode(Legend(text.tap))
           S == {m \in DOMAIN Modifiers :
                    text.call = Modifiers[m].call \/ (text.call = "MT" /\ text.hold = {Modifiers[m].mod})}
<1>1. h \in S
  <2>1. S \in SUBSET Nat
    BY ModifierList
  <2>2. h = FirstOf(S)
    BY DEF HeldModifier
  <2> HIDE DEF S
  <2> QED BY <2>1, <2>2, FirstTyped
<1>2. /\ h \in Nat /\ h > 0 /\ h < FirstLayer /\ h \in 1 .. 4
      /\ text.call = Modifiers[h].call \/ (text.call = "MT" /\ text.hold = {Modifiers[h].mod})
  BY <1>1, ModifierList
<1>3. TapHoldOf(text, shown).tap = Plain(Legend(text.tap)) /\ TapHoldOf(text, shown).hold = h
  BY DEF TapHoldOf
<1> DEFINE tap == Plain(Legend(text.tap))
<1>4. tap.call = "plain" /\ tap.tap = Legend(text.tap)
  BY DEF Plain
<1> HIDE DEF h, S
<1>5. again = Assigned(tap, h, shown)
  BY <1>3 DEF GivenBack
<1>6. again # NoText
  OBVIOUS
<1> HIDE DEF tap, again
<1>7. again = Call(Modifiers[h].call, {}, y) /\ y # Empty
  <2>1. TapCode(tap.tap) = y
    BY <1>4
  <2> HIDE DEF y
  <2> QED BY <1>2, <1>4, <1>5, <1>6, <2>1 DEF Assigned
<1>8. Resolve(text, layers) = ModTap({Modifiers[h].mod}, Basic(text.tap))
  <2>1. Modifiers[h].call \in DOMAIN ModTapOf /\ ModTapOf[Modifiers[h].call] = Modifiers[h].mod
    BY <1>2, ModifierList
  <2> QED BY <1>2, <2>1, ResolveModTap
<1>9. Basic(text.tap) # NoCode
  BY <1>8 DEF ModTap
<1>10. Basic(y) = Basic(text.tap)
  <2>1. text.tap \in Name
    BY <1>9, TapNamed
  <2>2. \A n \in Name : LegendOf[n] = Legend(text.tap) => Code[n] = Code[text.tap]
    BY DEF Lossy
  <2> QED BY <1>7, <2>1, <2>2, TapBack
<1>11. Resolve(again, layers) = ModTap({Modifiers[h].mod}, Basic(y))
  <2> HIDE DEF y
  <2>1. again.call = Modifiers[h].call /\ again.tap = y /\ again.hold = {}
    BY <1>7 DEF Call
  <2>2. Modifiers[h].call \in DOMAIN ModTapOf /\ ModTapOf[Modifiers[h].call] = Modifiers[h].mod
    BY <1>2, ModifierList
  <2> QED BY <2>1, <2>2, ResolveModTap
<1> QED BY <1>8, <1>10, <1>11 DEF again

\* The layer a layer-tap refers to is the one the list shows, and the list's
\* name of it refers to it again.
LEMMA LayerListed ==
  ASSUME NEW shown \in Seq(ShownLayer), NEW layers \in Seq(FileLayer), DOMAIN shown = DOMAIN layers,
         \A i \in DOMAIN layers : shown[i].name = layers[i].name, WellNamed(layers),
         NEW ref, ref \notin NamesOf(layers), NEW j \in DOMAIN layers, j <= LayersListed,
         LayerOf(ref, layers) = j
  PROVE  /\ ListedLayer(ref, shown) = j
         /\ LayerOf(Identifier[shown[j].name], layers) = j
<1>1. \A i \in DOMAIN layers : i \in Nat /\ i > 0
  BY LenProperties
<1>2. \A i \in DOMAIN layers : /\ layers[i].id = Identifier[layers[i].name]
                               /\ layers[i].name \notin DOMAIN Number
                               /\ layers[i].name \in LayerName
  <2>1. \A i \in DOMAIN layers : layers[i] \in FileLayer
    BY LenProperties, ElementOfSeq
  <2> QED BY <2>1 DEF WellNamed, FileLayer
<1>3. \A i \in DOMAIN layers : layers[i].id \notin DOMAIN Number
  BY <1>2, LabelsTyped, CatalogTyped
<1>4. \A i, m \in DOMAIN layers : layers[i].id \in {layers[m].id, layers[m].name} => i = m
  BY DEF WellNamed
<1>5. LayerOf(Identifier[shown[j].name], layers) = j
  <2>1. Identifier[shown[j].name] = layers[j].id
    BY <1>2
  <2>2. LayerOf(layers[j].id, layers) = j
    BY <1>4, LayerOfOnly
  <2> QED BY <2>1, <2>2
<1>6. CASE ref \in DOMAIN Number
  <2>1. ~ \E i \in DOMAIN layers : ref \in {layers[i].id, layers[i].name}
    BY <1>2, <1>3, <1>6
  <2>2. j = Number[ref] + 1
    BY <1>6, <2>1, LayerOfNumber
  <2>3. ListedLayer(ref, shown) = j
    BY <1>6, <2>2 DEF ListedLayer
  <2> QED BY <1>5, <2>3
<1>7. CASE ref \notin DOMAIN Number
  <2>1. \E i \in DOMAIN layers : ref \in {layers[i].id, layers[i].name}
    BY <1>1, <1>7, LayerOfNumber
  <2>2. ref \in {layers[j].id, layers[j].name}
    BY <2>1, LayerOfBorne
  <2>3. layers[j].id = ref
    BY <2>2 DEF NamesOf
  <2> DEFINE found == {i \in DOMAIN shown : i <= LayersListed /\ Identifier[shown[i].name] = ref}
  <2>4. found = {j}
    <3>1. \A i \in DOMAIN layers : Identifier[shown[i].name] = layers[i].id
      BY <1>2
    <3>2. \A i \in DOMAIN layers : Identifier[shown[i].name] = ref => i = j
      BY <1>4, <2>3, <3>1
    <3>3. Identifier[shown[j].name] = ref
      BY <2>3, <3>1
    <3> QED BY <3>2, <3>3
  <2>5. FirstOf({j}) = j
    <3>1. {j} \in SUBSET Nat /\ {j} # {}
      BY <1>1
    <3>2. FirstOf({j}) \in {j}
      BY <3>1, FirstIsLeast
    <3> QED BY <3>2
  <2>6. ListedLayer(ref, shown) = FirstOf(found)
    BY <1>7 DEF ListedLayer
  <2> QED BY <1>5, <2>4, <2>5, <2>6
<1> QED BY <1>6, <1>7

LEMMA HeldLayerBack ==
  ASSUME NEW text \in Text, NEW shown \in Seq(ShownLayer), NEW layers \in Seq(FileLayer),
         DOMAIN shown = DOMAIN layers, \A i \in DOMAIN layers : shown[i].name = layers[i].name,
         HeldModifier(text) = 0, IsLayerTap(text), Resolve(text, layers) # NoCode, ~ Lossy(text, layers),
         GivenBack(text, shown) # NoText
  PROVE  Resolve(GivenBack(text, shown), layers) = Resolve(text, layers)
<1> DEFINE again == GivenBack(text, shown)
           y == TapCode(Legend(text.tap))
<1>1. text.call = "LT"
  BY DEF IsLayerTap
<1>2. PICK ref : text.hold = {ref}
  BY <1>1 DEF Text, LayerCalls
<1>3. (CHOOSE r \in text.hold : TRUE) = ref
  BY <1>2
<1> DEFINE j == LayerOf(ref, layers)
<1>4. WellNamed(layers) /\ ref \notin NamesOf(layers) /\ j \in DOMAIN layers /\ j \in 1 .. LayersListed
  BY <1>1, <1>2 DEF Lossy
<1>5. LayersListed = 16 /\ j \in Nat /\ j > 0 /\ j <= LayersListed
  <2>1. LayersListed = 16
    BY DEF LayersListed
  <2> HIDE DEF j
  <2>2. \A n \in Nat : \A m \in 1 .. n : m \in Nat /\ m > 0 /\ m <= n
    OBVIOUS
  <2> QED BY <1>4, <2>1, <2>2
<1>6. ListedLayer(ref, shown) = j /\ LayerOf(Identifier[shown[j].name], layers) = j
  <2> HIDE DEF j
  <2> QED BY <1>4, <1>5, LayerListed DEF j
<1> HIDE DEF j
<1>7. /\ TapHoldOf(text, shown).tap = Plain(Legend(text.tap))
      /\ TapHoldOf(text, shown).hold = HoldOfLayer(j)
  BY <1>3, <1>6 DEF TapHoldOf
<1>8. HoldOfLayer(j) = j + 4 /\ FirstLayer = 5
  BY <1>5, ModifierList DEF HoldOfLayer
<1> DEFINE tap == Plain(Legend(text.tap))
<1>9. tap.call = "plain" /\ tap.tap = Legend(text.tap)
  BY DEF Plain
<1> HIDE DEF tap
<1>10. again = Assigned(tap, j + 4, shown)
  BY <1>7, <1>8 DEF tap, GivenBack
<1>11. again # NoText
  OBVIOUS
<1> HIDE DEF again
<1>12. again = Call("LT", {Identifier[shown[j].name]}, y) /\ y # Empty
  <2>1. TapCode(tap.tap) = y
    BY <1>9
  <2> DEFINE h == j + 4
  <2>2. ~ (h <= 0) /\ ~ (h < FirstLayer) /\ h - FirstLayer + 1 = j /\ j \in DOMAIN shown
    BY <1>4, <1>5, <1>8
  <2> HIDE DEF y, h
  <2>3. again = Assigned(tap, h, shown)
    BY <1>10 DEF h
  <2>4. again = IF y = Empty THEN NoText ELSE Call("LT", {Identifier[shown[j].name]}, y)
    BY <1>9, <1>11, <2>1, <2>2, <2>3 DEF Assigned
  <2> QED BY <1>11, <2>4
<1>13. Resolve(text, layers) = LayerTap(j, Basic(text.tap))
  BY <1>1, <1>2, ResolveCall DEF j
<1>14. Basic(text.tap) # NoCode
  BY <1>13 DEF LayerTap
<1>15. Basic(y) = Basic(text.tap)
  <2>1. text.tap \in Name
    BY <1>14, TapNamed
  <2>2. \A n \in Name : LegendOf[n] = Legend(text.tap) => Code[n] = Code[text.tap]
    BY DEF Lossy
  <2> QED BY <1>12, <2>1, <2>2, TapBack
<1>16. Resolve(again, layers) = LayerTap(j, Basic(y))
  <2> DEFINE id == Identifier[shown[j].name]
  <2> HIDE DEF y, id
  <2>1. again.call = "LT" /\ again.hold = {id} /\ again.tap = y
    BY <1>12 DEF Call, id
  <2>2. Resolve(again, layers) = LayerTap(LayerOf(id, layers), Basic(again.tap))
    BY <2>1, ResolveCall
  <2> QED BY <1>6, <2>1, <2>2 DEF id
<1> QED BY <1>13, <1>15, <1>16 DEF again

\* Any other text is shown as it is, or not at all.
LEMMA NoHoldBack ==
  ASSUME NEW text, NEW shown, HeldModifier(text) = 0, ~ IsLayerTap(text),
         GivenBack(text, shown) # NoText
  PROVE  GivenBack(text, shown) = text
<1> DEFINE again == GivenBack(text, shown)
           modifier == FirstOf({m \in DOMAIN Modifiers : text = Plain(Modifiers[m].label)})
           layer == FirstOf({i \in DOMAIN shown : text = Plain(shown[i].name)})
<1>1. TapHoldOf(text, shown) =
        IF modifier # 0 THEN [tap |-> Plain(Empty), hold |-> modifier]
        ELSE IF layer \in 1 .. LayersListed THEN [tap |-> Plain(Empty), hold |-> HoldOfLayer(layer)]
        ELSE [tap |-> text, hold |-> 0]
  BY DEF TapHoldOf
<1> HIDE DEF modifier, layer
<1> DEFINE th == TapHoldOf(text, shown)
<1>2. th.tap = Plain(Empty) \/ (th.tap = text /\ th.hold = 0)
  BY <1>1
<1> HIDE DEF th
<1>3. again = Assigned(th.tap, th.hold, shown)
  BY DEF th, GivenBack
<1>4. th.tap # Plain(Empty)
  BY <1>3 DEF Assigned
<1>5. again = text
  BY <1>2, <1>3, <1>4 DEF Assigned
<1> QED BY <1>5

\* In all three cases the button gives the keycode back, or the text is lossy.
LEMMA TapHoldBack ==
  ASSUME NEW text \in Text, NEW shown \in Seq(ShownLayer), NEW layers \in Seq(FileLayer),
         DOMAIN shown = DOMAIN layers, \A i \in DOMAIN layers : shown[i].name = layers[i].name,
         Resolve(text, layers) # NoCode, GivenBack(text, shown) # NoText, ~ Lossy(text, layers)
  PROVE  Resolve(GivenBack(text, shown), layers) = Resolve(text, layers)
<1>1. CASE HeldModifier(text) # 0
  BY <1>1, HeldModifierBack
<1>2. CASE HeldModifier(text) = 0 /\ IsLayerTap(text)
  BY <1>2, HeldLayerBack
<1>3. CASE HeldModifier(text) = 0 /\ ~ IsLayerTap(text)
  BY <1>3, NoHoldBack
<1> QED BY <1>1, <1>2, <1>3

\* Pressing the tap-hold editor's button on a key nobody has changed leaves
\* its keycode what it was, for every label, layer and catalog.
THEOREM TapHoldGivesBack == Spec => []TapHoldUntouched
<1>1. EditorInv /\ NamesInv => TapHoldUntouched
  <2> SUFFICES ASSUME EditorInv, NamesInv, NEW i \in DOMAIN ui.layers, NEW k \in Key,
                      NEW text, text = ui.layers[i].keys[k],
                      NEW layers, layers = IF file.config = Torn THEN <<>> ELSE file.config.layers,
                      Len(layers) = Len(ui.layers), Resolve(text, layers) # NoCode,
                      GivenBack(text, ui.layers) # NoText, ~ Lossy(text, layers)
               PROVE  Resolve(GivenBack(text, ui.layers), layers) = Resolve(text, layers)
    BY DEF TapHoldUntouched, GivenBack
  <2>1. Shown(ui) /\ ui.layers \in Seq(ShownLayer) /\ text \in Text
    BY PartsTyped, ShownKey DEF Shown, Window
  <2>2. file.config # Torn
    <3>1. Len(ui.layers) # 0
      BY <2>1, LenProperties
    <3> QED BY <3>1
  <2>3. IsConfig(file.config) /\ layers = file.config.layers
    BY <2>2, PartsTyped
  <2>4. layers \in Seq(FileLayer) /\ DOMAIN ui.layers = DOMAIN layers
    BY <2>1, <2>3, ConfigLen, LenProperties
  <2>5. \A n \in DOMAIN layers : ui.layers[n].name = layers[n].name
    <3>1. PICK start \in Starts : NamesKept(start.config.layers)
      BY DEF NamesInv
    <3> QED BY <2>2, <2>3, <2>4, <3>1 DEF NamesKept, NamedLike
  <2> QED BY <2>1, <2>4, <2>5, TapHoldBack
<1> QED BY <1>1, EditorInvariant, NamesInvariant, PTL
-----------------------------------------------------------------------------
(* What the editor writes for a key is, on the keyboard, what it shows.      *)

\* A keycode taps the keycode it is the code of, and what the editor writes
\* for one of its labels taps a keycode with that label for its legend.
LEMMA TapsName == ASSUME NEW x \in Name PROVE TapsFor(Code[x], x)
BY DEF TapsFor

LEMMA TapsLabel ==
  ASSUME NEW x \in Aliases \cup DOMAIN Alnum,
         NEW y, y = IF TapCode(x) # Empty THEN TapCode(x) ELSE Find(x, Symbols, x)
  PROVE  y \in Name /\ TapsFor(Code[y], x)
<1> DEFINE spelled == {<<"TRNS", "___">>, <<"NO", "---">>}
           l == IF x = "TRNS" THEN "___" ELSE IF x = "NO" THEN "---" ELSE x
<1>1. y \in Name /\ x \notin Name /\ Legend(y) = l
  BY LabelWritten
<1>2. Find(x, spelled, x) = l
  <2> DEFINE rows == {p \in spelled : p[1] = x}
  <2>1. Find(x, spelled, x) = IF rows = {} THEN x ELSE (CHOOSE p \in rows : TRUE)[2]
    BY DEF Find
  <2>2. CASE x = "TRNS" \/ x = "NO"
    <3> DEFINE p == <<x, l>>
    <3>1. rows = {p} /\ p[2] = l
      BY <2>2
    <3>2. (CHOOSE q \in {p} : TRUE) = p
      OBVIOUS
    <3> HIDE DEF rows, p, l
    <3> QED BY <2>1, <3>1, <3>2
  <2>3. CASE x # "TRNS" /\ x # "NO"
    <3>1. ~ \E p \in spelled : p[1] = x
      BY <2>3
    <3>2. Find(x, spelled, x) = x
      <4> HIDE DEF spelled
      <4> QED BY <3>1, FindNone
    <3> QED BY <2>3, <3>2
  <2> QED BY <2>2, <2>3
<1> HIDE DEF l
<1>3. LegendOf[y] = l
  BY <1>1 DEF LegendOf
<1> QED BY <1>1, <1>2, <1>3 DEF TapsFor

\* A modifier shown as held is the one the keycode holds.
LEMMA DoesModifier ==
  ASSUME NEW text, NEW shown, NEW layers, HeldModifier(text) # 0,
         NEW code, code = Resolve(text, layers), code # NoCode
  PROVE  Does(code, text, shown)
<1> DEFINE h == HeldModifier(text)
           S == {m \in DOMAIN Modifiers :
                    text.call = Modifiers[m].call \/ (text.call = "MT" /\ text.hold = {Modifiers[m].mod})}
<1>1. h \in S
  <2>1. S \in SUBSET Nat
    BY ModifierList
  <2>2. h = FirstOf(S)
    BY DEF HeldModifier
  <2> HIDE DEF S
  <2> QED BY <2>1, <2>2, FirstTyped
<1>2. /\ h \in 1 .. 4
      /\ text.call = Modifiers[h].call \/ (text.call = "MT" /\ text.hold = {Modifiers[h].mod})
  BY <1>1, ModifierList
<1>3. TapHoldOf(text, shown).hold = h
  BY DEF TapHoldOf
<1> HIDE DEF h, S
<1> DEFINE mod == Modifiers[h].mod
<1>4. Modifiers[h].call \in DOMAIN ModTapOf /\ ModTapOf[Modifiers[h].call] = mod
  BY <1>2, ModifierList
<1>5. mod \in DOMAIN ModBits /\ ModBits[mod] \in Nat
  BY <1>4, ModifierBits DEF ModTapOf
<1>6. code = ModTap({mod}, Basic(text.tap))
  BY <1>2, <1>4, ResolveModTap
<1> HIDE DEF mod
<1>7. Mask({mod}) = ModBits[mod]
  BY <1>5, MaskOfOne
<1>8. Basic(text.tap) # NoCode
  BY <1>6 DEF ModTap
<1>9. text.tap \in Name /\ Basic(text.tap) = Code[text.tap] /\ Code[text.tap] <= \hff /\ Code[text.tap] \in Nat
  BY <1>8, CatalogTyped DEF Basic
<1>10. code = \h2000 + \h100 * ModBits[mod] + Code[text.tap]
  BY <1>5, <1>6, <1>7, <1>8, <1>9 DEF ModTap
<1>11. code \div \h100 = \h20 + ModBits[mod] /\ code % \h100 = Code[text.tap]
  <2> DEFINE bits == ModBits[mod]
             c == Code[text.tap]
  <2> HIDE DEF bits, c
  <2>1. bits \in Nat /\ c \in Nat /\ c <= \hff /\ code = \h2000 + \h100 * bits + c
    BY <1>5, <1>9, <1>10 DEF bits, c
  <2> QED BY <2>1 DEF bits, c
<1> QED BY <1>3, <1>9, <1>11, TapsName DEF Does, mod, h

\* A layer the list shows for a reference is the one it refers to.
LEMMA ListedRefers ==
  ASSUME NEW shown \in Seq(ShownLayer), NEW layers \in Seq(FileLayer), DOMAIN shown = DOMAIN layers,
         \A i \in DOMAIN layers : shown[i].name = layers[i].name, WellNamed(layers),
         NEW ref, ListedLayer(ref, shown) # 0
  PROVE  LayerOf(ref, layers) = ListedLayer(ref, shown)
<1> DEFINE j == ListedLayer(ref, shown)
<1>1. \A i \in DOMAIN layers : /\ layers[i].id = Identifier[layers[i].name]
                               /\ layers[i].name \notin DOMAIN Number
                               /\ layers[i].id \notin DOMAIN Number
  <2>1. \A i \in DOMAIN layers : layers[i] \in FileLayer
    BY LenProperties, ElementOfSeq
  <2>2. \A i \in DOMAIN layers : /\ layers[i].id = Identifier[layers[i].name]
                                 /\ layers[i].name \notin DOMAIN Number
                                 /\ layers[i].name \in LayerName
    BY <2>1 DEF WellNamed, FileLayer
  <2> QED BY <2>2, LabelsTyped, CatalogTyped
<1>2. CASE ref \in DOMAIN Number
  <2>1. ~ \E i \in DOMAIN layers : ref \in {layers[i].id, layers[i].name}
    BY <1>1, <1>2
  <2>2. j = Number[ref] + 1
    BY <1>2 DEF ListedLayer
  <2> QED BY <1>2, <2>1, <2>2, LayerOfNumber
<1>3. CASE ref \notin DOMAIN Number
  <2> DEFINE found == {i \in DOMAIN shown : i <= LayersListed /\ Identifier[shown[i].name] = ref}
  <2>1. j = FirstOf(found)
    BY <1>3 DEF ListedLayer
  <2>2. found \in SUBSET Nat
    BY LenProperties
  <2>3. j \in found
    <3> HIDE DEF found
    <3> QED BY <2>1, <2>2, FirstTyped
  <2>4. j \in DOMAIN layers /\ layers[j].id = ref
    BY <1>1, <2>3
  <2>5. \A i, m \in DOMAIN layers : layers[i].id \in {layers[m].id, layers[m].name} => i = m
    BY DEF WellNamed
  <2> HIDE DEF j, found
  <2> QED BY <2>4, <2>5, LayerOfOnly DEF j
<1> QED BY <1>2, <1>3

\* A layer-tap is shown with a layer only by way of the list.
LEMMA LayerTapShown ==
  ASSUME NEW text \in Text, NEW shown \in Seq(ShownLayer), HeldModifier(text) = 0, text.call = "LT",
         TapHoldOf(text, shown).hold >= FirstLayer, NEW ref, text.hold = {ref}
  PROVE  LET j == ListedLayer(ref, shown)
         IN  /\ j \in DOMAIN shown /\ j \in Nat /\ 0 < j /\ j <= 16
             /\ TapHoldOf(text, shown).hold = FirstLayer + j - 1
<1> DEFINE modifier == FirstOf({m \in DOMAIN Modifiers : text = Plain(Modifiers[m].label)})
           layer == FirstOf({i \in DOMAIN shown : text = Plain(shown[i].name)})
           j == ListedLayer(ref, shown)
<1>1. (CHOOSE r \in text.hold : TRUE) = ref
  OBVIOUS
<1>2. TapHoldOf(text, shown) =
        IF IsLayerTap(text) THEN [tap |-> Plain(Legend(text.tap)), hold |-> HoldOfLayer(j)]
        ELSE IF modifier # 0 THEN [tap |-> Plain(Empty), hold |-> modifier]
        ELSE IF layer \in 1 .. LayersListed THEN [tap |-> Plain(Empty), hold |-> HoldOfLayer(layer)]
        ELSE [tap |-> text, hold |-> 0]
  BY <1>1 DEF TapHoldOf
<1>3. \A x : text # Plain(x)
  BY DEF Plain
<1>4. modifier = 0 /\ layer = 0
  <2>1. {m \in DOMAIN Modifiers : text = Plain(Modifiers[m].label)} = {}
    BY <1>3
  <2>2. {i \in DOMAIN shown : text = Plain(shown[i].name)} = {}
    BY <1>3
  <2> QED BY <2>1, <2>2 DEF FirstOf
<1>5. ~ (0 \in 1 .. LayersListed) /\ FirstLayer = 5
  BY ModifierList DEF LayersListed
<1> HIDE DEF modifier, layer, j
<1>6. IsLayerTap(text) /\ TapHoldOf(text, shown).hold = HoldOfLayer(j)
  BY <1>2, <1>4, <1>5
<1>7. j \in {0} \cup DOMAIN shown /\ j \in Nat /\ j <= 16
  BY <1>6, ListedTyped DEF j, LayersListed
<1>8. j # 0
  BY <1>5, <1>6 DEF HoldOfLayer
<1> QED BY <1>6, <1>7, <1>8 DEF HoldOfLayer, j

\* A layer shown as held is the one the keycode holds.
LEMMA DoesLayerTap ==
  ASSUME NEW text \in Text, NEW shown \in Seq(ShownLayer), NEW layers \in Seq(FileLayer),
         DOMAIN shown = DOMAIN layers, \A i \in DOMAIN layers : shown[i].name = layers[i].name,
         WellNamed(layers), HeldModifier(text) = 0, text.call = "LT",
         TapHoldOf(text, shown).hold >= FirstLayer,
         NEW code, code = Resolve(text, layers), code # NoCode
  PROVE  Does(code, text, shown)
<1>1. PICK ref : text.hold = {ref}
  BY DEF Text, LayerCalls
<1> DEFINE j == ListedLayer(ref, shown)
           hold == TapHoldOf(text, shown).hold
<1>2. j \in Nat /\ 0 < j /\ j <= 16 /\ hold = FirstLayer + j - 1 /\ FirstLayer = 5
  BY <1>1, LayerTapShown, ModifierList
<1>3. LayerOf(ref, layers) = j
  <2>1. j # 0
    BY <1>2
  <2> QED BY <2>1, ListedRefers
<1> HIDE DEF j, hold
<1>4. code = LayerTap(j, Basic(text.tap))
  BY <1>1, <1>3, ResolveCall
<1>5. Basic(text.tap) # NoCode
  BY <1>4 DEF LayerTap
<1>6. text.tap \in Name /\ Basic(text.tap) = Code[text.tap] /\ Code[text.tap] <= \hff /\ Code[text.tap] \in Nat
  BY <1>5, CatalogTyped DEF Basic
<1>7. WithBit(j - 1, \h40) = \h40 + j - 1
  <2>1. j \in Nat /\ 0 < j /\ j <= 16
    BY <1>2
  <2>2. (j - 1) \div \h40 = 0
    BY <2>1
  <2> QED BY <2>1, <2>2 DEF WithBit, HasBit
<1>8. code = \h100 * (\h40 + j - 1) + Code[text.tap]
  <2>1. code = \h100 * WithBit(j - 1, \h40) + Basic(text.tap)
    BY <1>2, <1>4, <1>5 DEF LayerTap
  <2> QED BY <1>6, <1>7, <2>1
<1>9. code \div \h100 = \h40 + hold - FirstLayer /\ code % \h100 = Code[text.tap]
  <2> DEFINE c == Code[text.tap]
             b == \h40 + j - 1
  <2> HIDE DEF c, b
  <2>1. c \in Nat /\ c <= \hff /\ b \in Nat /\ code = \h100 * b + c
    BY <1>2, <1>6, <1>8 DEF c, b
  <2>2. (\h100 * b + c) \div \h100 = b /\ (\h100 * b + c) % \h100 = c
    BY ONLY <2>1
  <2>3. b = \h40 + hold - FirstLayer
    BY <1>2 DEF b
  <2> QED BY <2>1, <2>2, <2>3 DEF c
<1> QED BY <1>6, <1>9, TapsName DEF Does, hold

\* A key labelled with a layer's name is a momentary switch to that layer.
LEMMA DoesLayer ==
  ASSUME NEW text \in Text, NEW shown \in Seq(ShownLayer), NEW layers \in Seq(FileLayer),
         DOMAIN shown = DOMAIN layers, \A i \in DOMAIN layers : shown[i].name = layers[i].name,
         WellNamed(layers), NamesOf(layers) \cap Name = {}, Len(layers) <= 32,
         text.call = "plain", NEW i \in DOMAIN shown, text.tap = shown[i].name,
         NEW code, code = Resolve(Canonical(text, shown), layers)
  PROVE  code = \h5220 + i - 1
<1>1. i \in Nat /\ 0 < i /\ i <= 32
  BY LenProperties
<1>2. \A m, n \in DOMAIN layers : /\ layers[m].id = Identifier[layers[m].name]
                                  /\ layers[m].id \in {layers[n].id, layers[n].name} => m = n
  BY DEF WellNamed
<1>3. LayerOf(layers[i].id, layers) = i
  BY <1>2, LayerOfOnly
<1>4. LayerOf(text.tap, layers) = i
  <2>1. \A m \in DOMAIN layers : text.tap \in {layers[m].id, layers[m].name} => m = i
    <3> TAKE m \in DOMAIN layers
    <3>1. text.tap = layers[i].name
      OBVIOUS
    <3>2. text.tap = layers[m].id => m = i
      BY <1>2, <3>1
    <3>3. ASSUME text.tap = layers[m].name
          PROVE  m = i
      <4>1. layers[m].id = Identifier[layers[m].name] /\ layers[i].id = Identifier[layers[i].name]
        BY <1>2
      <4>2. layers[m].id = layers[i].id
        BY <3>1, <3>3, <4>1
      <4> QED BY <1>2, <4>2
    <3> QED BY <3>2, <3>3
  <2> QED BY <2>1, LayerOfOnly
<1>5. code = Momentary(i)
  <2>1. CASE text.tap \in Prefixed \cup {"("}
    <3>1. Canonical(text, shown) = text
      BY <2>1 DEF Canonical
    <3>2. text.tap \notin Name
      BY DEF NamesOf
    <3>3. \E m \in DOMAIN layers : text.tap \in {layers[m].id, layers[m].name}
      OBVIOUS
    <3> QED BY <1>4, <3>1, <3>2, <3>3, ResolvePlain
  <2>2. CASE text.tap \notin Prefixed \cup {"("}
    <3> DEFINE mo == Call("MO", {Identifier[text.tap]}, Empty)
    <3>1. text.tap \in NamesOf(shown)
      BY DEF NamesOf
    <3>2. Canonical(text, shown) = mo
      BY <2>2, <3>1 DEF Canonical
    <3>3. mo.call = "MO" /\ mo.hold = {layers[i].id} /\ mo.tap = Empty
      BY <1>2 DEF Call
    <3> HIDE DEF mo
    <3>4. code = IF LayerOf(layers[i].id, layers) > 0 THEN Momentary(LayerOf(layers[i].id, layers)) ELSE NoCode
      BY <3>2, <3>3, ResolveCall
    <3> QED BY <1>1, <1>3, <3>4
  <2> QED BY <2>1, <2>2
<1>6. WithBit(i - 1, \h20) = \h20 + i - 1
  BY <1>1 DEF WithBit, HasBit
<1> QED BY <1>1, <1>5, <1>6 DEF Momentary

\* Any other label is written as a keycode with that legend.
LEMMA DoesLabel ==
  ASSUME NEW text \in Text, NEW shown \in Seq(ShownLayer), NEW layers \in Seq(FileLayer),
         DOMAIN shown = DOMAIN layers, \A i \in DOMAIN layers : shown[i].name = layers[i].name,
         \A i \in DOMAIN layers : layers[i].id \in LayerId,
         text.call = "plain", text.tap \notin NamesOf(shown), ValidLabel(text, shown),
         NEW code, code = Resolve(Canonical(text, shown), layers), code # NoCode
  PROVE  TapsFor(code, text.tap)
<1> DEFINE x == text.tap
<1>1. x \in Aliases \cup DOMAIN Alnum \cup Prefixed
  BY DEF ValidLabel
<1>2. CASE x \in Prefixed \cup {"("}
  <2>1. Canonical(text, shown) = text
    BY <1>2 DEF Canonical
  <2>2. ~ \E i \in DOMAIN layers : x \in {layers[i].id, layers[i].name}
    <3>1. \A i \in DOMAIN layers : x # layers[i].id
      BY <1>2, LabelAssumption
    <3>2. \A i \in DOMAIN layers : x # layers[i].name
      BY DEF NamesOf
    <3> QED BY <3>1, <3>2
  <2>3. x \in Name /\ code = Code[x]
    BY <2>1, <2>2, ResolvePlain
  <2> QED BY <2>3, TapsName
<1>3. CASE x \notin Prefixed \cup {"("}
  <2> DEFINE y == IF TapCode(x) # Empty THEN TapCode(x) ELSE Find(x, Symbols, x)
  <2>1. Canonical(text, shown) = Plain(y)
    BY <1>3 DEF Canonical
  <2>2. y \in Name /\ TapsFor(Code[y], x)
    BY <1>1, <1>3, TapsLabel
  <2> HIDE DEF y
  <2>3. Plain(y).call = "plain" /\ Plain(y).tap = y
    BY DEF Plain
  <2>4. code = Code[y]
    BY <2>1, <2>2, <2>3, ResolvePlain
  <2> QED BY <2>2, <2>4
<1> QED BY <1>2, <1>3

\* What a key is written as resolves to a keycode that does what it shows.
LEMMA ShownIsDone ==
  ASSUME NEW text \in Text, NEW shown \in Seq(ShownLayer), NEW layers \in Seq(FileLayer),
         DOMAIN shown = DOMAIN layers, \A i \in DOMAIN layers : shown[i].name = layers[i].name,
         \A i \in DOMAIN layers : layers[i].id \in LayerId,
         WellNamed(layers), NamesOf(layers) \cap Name = {}, Len(layers) <= 32, ValidLabel(text, shown),
         NEW code, code = Resolve(Canonical(text, shown), layers), code # NoCode
  PROVE  Does(code, text, shown)
<1> DEFINE named == {i \in DOMAIN shown : text.call = "plain" /\ text.tap = shown[i].name}
<1>1. text.call # "plain" => Canonical(text, shown) = text
  BY DEF Canonical
<1>2. CASE HeldModifier(text) # 0
  <2>1. text.call # "plain"
    <3> SUFFICES ASSUME text.call = "plain" PROVE HeldModifier(text) = 0
      BY <1>2
    <3>1. \A m \in DOMAIN Modifiers : Modifiers[m].call # "plain"
      BY ModifierList, CallsApart
    <3>2. {m \in DOMAIN Modifiers :
              text.call = Modifiers[m].call \/ (text.call = "MT" /\ text.hold = {Modifiers[m].mod})} = {}
      BY <3>1
    <3> QED BY <3>2 DEF HeldModifier, FirstOf
  <2> QED BY <1>1, <1>2, <2>1, DoesModifier
<1>3. CASE HeldModifier(text) = 0 /\ TapHoldOf(text, shown).hold >= FirstLayer /\ text.call = "LT"
  BY <1>1, <1>3, DoesLayerTap
<1>4. CASE /\ HeldModifier(text) = 0 /\ ~ (TapHoldOf(text, shown).hold >= FirstLayer /\ text.call = "LT")
           /\ named # {}
  <2>1. PICK i \in DOMAIN shown : text.call = "plain" /\ text.tap = shown[i].name
    BY <1>4
  <2>2. code = \h5220 + i - 1
    BY <2>1, DoesLayer
  <2> QED BY <1>4, <2>1, <2>2 DEF Does
<1>5. CASE /\ HeldModifier(text) = 0 /\ ~ (TapHoldOf(text, shown).hold >= FirstLayer /\ text.call = "LT")
           /\ named = {}
  <2>1. text.call = "plain" => TapsFor(code, text.tap)
    <3> SUFFICES ASSUME text.call = "plain" PROVE TapsFor(code, text.tap)
      OBVIOUS
    <3>1. text.tap \notin NamesOf(shown)
      BY <1>5 DEF NamesOf
    <3> QED BY <3>1, DoesLabel
  <2> QED BY <1>5, <2>1 DEF Does
<1> QED BY <1>2, <1>3, <1>4, <1>5

\* With the window as it was, what the parts of SaveInv are about has its
\* value in the next state.
LEMMA SaveMoves ==
  ASSUME UNCHANGED ui,
         at'["editor"] # "idle" => LayersValid(ui),
         at'["editor"] \in {"open", "write", "rename"} => WritesShown(next'["editor"]),
         tmp'.by = "editor" =>
            at'["editor"] \in {"write", "rename"} /\ tmp'.config \in {Torn, next'["editor"]},
         at'["editor"] = "apply" /\ file'.by = "editor" =>
            file'.config = Torn \/ WritesShown(file'.config)
  PROVE  SaveInv'
<1>1. (LayersValid(ui))' <=> LayersValid(ui)
  BY DEF LayersValid
<1>2. (WritesShown(next["editor"]))' <=> WritesShown(next'["editor"])
  BY DEF WritesShown
<1>3. (WritesShown(file.config))' <=> WritesShown(file'.config)
  BY DEF WritesShown
<1> QED BY <1>1, <1>2, <1>3 DEF SaveInv

\* Between saves nothing of the editor's is in its temporary file.
LEMMA SaveEnds == ASSUME at'["editor"] = "idle", tmp'.by # "editor" PROVE SaveInv'
BY DEF SaveInv

LEMMA SaveInvStep == ASSUME EditorInv, SaveInv, [Next]_vars PROVE SaveInv'
<1>1. NoFile.by # "editor"
  BY DEF NoFile
<1>2. CASE Type \/ TypeTerm \/ Assign \/ Select \/ Shift \/ Validate \/ Apply \/ ApplyTapHold \/ Reload
  <2>1. at["editor"] = "idle" /\ UNCHANGED <<tmp, at>>
    BY <1>2 DEF Type, TypeTerm, Assign, Select, Shift, Validate, Apply, ApplyTapHold, Reload,
                Show, Change, external, Idle
  <2>2. tmp.by # "editor"
    BY <2>1 DEF SaveInv
  <2> QED BY <2>1, <2>2, SaveEnds
<1>3. CASE Save
  <2>1. /\ at["editor"] = "idle" /\ UNCHANGED tmp
        /\ \/ LayersValid(ui') /\ at' = [at EXCEPT !["editor"] = "read"]
           \/ UNCHANGED at
    BY <1>3 DEF Save, Idle
  <2>2. tmp'.by # "editor"
    BY <2>1 DEF SaveInv
  <2>3. at'["editor"] = "idle" \/ (at'["editor"] = "read" /\ LayersValid(ui'))
    BY <2>1, PartsTyped
  <2>4. (LayersValid(ui))' <=> LayersValid(ui')
    BY DEF LayersValid
  <2> QED BY <2>2, <2>3, <2>4 DEF SaveInv
<1>4. CASE ReadBack
  <2>1. at["editor"] = "read" /\ UNCHANGED <<file, tmp, ui>>
    BY <1>4 DEF ReadBack
  <2>2. LayersValid(ui) /\ tmp'.by # "editor"
    BY <2>1 DEF SaveInv
  <2>3. CASE file.config = Torn \/ Len(file.config.layers) # Len(ui.layers)
    <3>1. at'["editor"] = "idle"
      BY <1>4, <2>3, PartsTyped DEF ReadBack
    <3> QED BY <2>2, <3>1, SaveEnds
  <2>4. CASE file.config # Torn /\ Len(file.config.layers) = Len(ui.layers)
    <3>1. at'["editor"] = "open" /\ next'["editor"] = Saved(file.config)
      BY <1>4, <2>4, PartsTyped DEF ReadBack
    <3>2. IsConfig(file.config) /\ SettingsValid(ui) /\ Shown(ui)
      BY <2>1, <2>4, PartsTyped DEF EditorInv
    <3>3. DOMAIN ui.layers = DOMAIN file.config.layers
      BY <2>4, <3>2, ConfigLen, LenProperties DEF Shown, Window
    <3>4. WritesShown(Saved(file.config))
      BY <3>2, <3>3, SavedTyped DEF WritesShown
    <3> QED BY <2>1, <2>2, <3>1, <3>4, SaveMoves
  <2> QED BY <2>3, <2>4
<1>5. CASE ApplyDone \/ ApplyFails
  <2>1. at["editor"] = "apply" /\ at' = [at EXCEPT !["editor"] = "idle"] /\ UNCHANGED tmp
    BY <1>5 DEF ApplyDone, ApplyFails
  <2>2. at'["editor"] = "idle" /\ tmp'.by # "editor"
    BY <2>1, PartsTyped DEF SaveInv
  <2> QED BY <2>2, SaveEnds
<1>6. CASE Snapshot
  <2>1. /\ UNCHANGED <<file, tmp, ui>>
        /\ at'["editor"] = at["editor"] /\ next'["editor"] = next["editor"]
    BY <1>6, PartsTyped DEF Snapshot
  <2> QED BY <2>1, SaveMoves DEF SaveInv
<1>7. CASE EditByHand
  <2>1. UNCHANGED <<tmp, ui, at, next>> /\ file'.by = "hand"
    BY <1>7, EditedFile
  <2> QED BY <2>1, SaveMoves DEF SaveInv
<1>8. ASSUME NEW p \in Proc, Open(p)
      PROVE  SaveInv'
  <2>1. /\ at[p] = "open" /\ tmp' = [by |-> p, config |-> Torn] /\ UNCHANGED <<file, ui, next>>
        /\ at' = [at EXCEPT ![p] = "write"]
    BY <1>8 DEF Open
  <2>2. at'["editor"] = IF p = "editor" THEN "write" ELSE at["editor"]
    BY <2>1, PartsTyped
  <2>3. tmp'.by = p /\ tmp'.config = Torn
    BY <2>1
  <2> QED BY <2>1, <2>2, <2>3, SaveMoves DEF SaveInv
<1>9. ASSUME NEW p \in Proc, Write(p)
      PROVE  SaveInv'
  <2>1. PICK bytes :
          /\ at[p] = "write" /\ at' = [at EXCEPT ![p] = "rename"] /\ UNCHANGED <<ui, next>>
          /\ bytes.by = p /\ bytes.config \in {Torn, next[p]}
          /\ \/ file' = bytes /\ UNCHANGED tmp
             \/ tmp' = bytes /\ UNCHANGED file
             \/ UNCHANGED <<file, tmp>>
    BY <1>9, WriteDoes
  <2>2. at'["editor"] = IF p = "editor" THEN "rename" ELSE at["editor"]
    BY <2>1, PartsTyped
  <2>3. tmp'.by = "editor" =>
           at'["editor"] \in {"write", "rename"} /\ tmp'.config \in {Torn, next'["editor"]}
    BY <2>1, <2>2 DEF SaveInv
  <2>4. at'["editor"] = "apply" /\ file'.by = "editor" => file'.config = Torn \/ WritesShown(file'.config)
    BY <2>1, <2>2 DEF SaveInv
  <2> QED BY <2>1, <2>2, <2>3, <2>4, SaveMoves DEF SaveInv
<1>10. ASSUME NEW p \in Proc, Rename(p)
       PROVE  SaveInv'
  <2>1. /\ at[p] = "rename" /\ next' = [next EXCEPT ![p] = None] /\ UNCHANGED ui
        /\ at' = [at EXCEPT ![p] = IF p = "editor" /\ live /\ tmp # NoFile THEN "apply" ELSE "idle"]
        /\ \/ tmp = NoFile /\ UNCHANGED <<file, tmp>>
           \/ tmp # NoFile /\ file' = tmp /\ tmp' = NoFile
    BY <1>10 DEF Rename
  <2>2. tmp'.by # "editor"
    BY <1>1, <2>1
  <2>3. CASE p = "editor"
    <3>1. at'["editor"] = IF live /\ tmp # NoFile THEN "apply" ELSE "idle"
      BY <2>1, <2>3, PartsTyped
    <3>2. CASE at'["editor"] = "idle"
      BY <2>2, <3>2, SaveEnds
    <3>3. CASE at'["editor"] = "apply"
      <4>1. file' = tmp
        BY <2>1, <3>1, <3>3
      <4>2. LayersValid(ui) /\ WritesShown(next["editor"])
        BY <2>1, <2>3 DEF SaveInv
      <4>3. file'.by = "editor" => file'.config = Torn \/ WritesShown(file'.config)
        BY <4>1, <4>2 DEF SaveInv
      <4> QED BY <2>1, <2>2, <3>3, <4>2, <4>3, SaveMoves
    <3> QED BY <3>1, <3>2, <3>3
  <2>4. CASE p # "editor"
    <3>1. at'["editor"] = at["editor"] /\ next'["editor"] = next["editor"]
      BY <2>1, <2>4, PartsTyped
    <3>2. at'["editor"] = "apply" /\ file'.by = "editor" => file'.config = Torn \/ WritesShown(file'.config)
      BY <2>1, <3>1 DEF SaveInv
    <3> QED BY <2>1, <2>2, <3>1, <3>2, SaveMoves DEF SaveInv
  <2> QED BY <2>3, <2>4
<1>11. CASE UNCHANGED vars
  <2>1. UNCHANGED <<file, tmp, ui, at, next>>
    BY <1>11 DEF vars
  <2> QED BY <2>1, SaveMoves DEF SaveInv
<1> QED BY <1>2, <1>3, <1>4, <1>5, <1>6, <1>7, <1>8, <1>9, <1>10, <1>11 DEF Next

\* From a save until the apply the window stays as it was, and what the editor
\* is about to write, or has written and nobody replaced, is what it shows.
THEOREM SaveInvariant == Spec => []SaveInv
<1>1. Init => SaveInv
  <2>1. Init => at["editor"] = "idle" /\ tmp.by # "editor"
    BY DEF Init, Proc, NoFile
  <2> QED BY <2>1 DEF SaveInv
<1>2. EditorInv /\ SaveInv /\ [Next]_vars => SaveInv'
  BY SaveInvStep
<1> QED BY <1>1, <1>2, EditorInvariant, PTL DEF Spec

\* "Saved and applied" is true: what the live apply brings to the keyboard
\* does on every key what the window shows for it, on a keyboard of at most
\* 32 layers; the keycode of a momentary layer has no more bits.
THEOREM SavedIsApplied == FewLayers => (Spec => AppliedIsShown)
<1> SUFFICES ASSUME FewLayers PROVE Spec => AppliedIsShown
  OBVIOUS
<1> DEFINE Done ==
      ApplyDone /\ file.by = "editor" /\ WellNamed(file.config.layers)
      /\ NamesOf(file.config.layers) \cap Name = {} =>
         \A i \in DOMAIN ui.layers : \A k \in Key :
            Does(keyboard'.keys[i][k], ui.layers[i].keys[k], ui.layers)
<1>1. EditorInv /\ SaveInv /\ [Next]_vars => [Done]_vars
  <2> SUFFICES ASSUME EditorInv, SaveInv, ApplyDone, file.by = "editor",
                      WellNamed(file.config.layers), NamesOf(file.config.layers) \cap Name = {},
                      NEW i \in DOMAIN ui.layers, NEW k \in Key
               PROVE  Does(keyboard'.keys[i][k], ui.layers[i].keys[k], ui.layers)
    OBVIOUS
  <2> DEFINE layers == file.config.layers
             shown == ui.layers
             text == ui.layers[i].keys[k]
             code == Resolve(Canonical(text, shown), layers)
  <2>1. /\ at["editor"] = "apply" /\ Accepts(file.config)
        /\ keyboard' = [keys |-> Entries(file.config), buffer |-> EncodeMacros(file.config.macros)]
    BY DEF ApplyDone
  <2>2. file.config # Torn /\ IsConfig(file.config)
    BY <2>1, PartsTyped DEF Accepts
  <2>3. WritesShown(file.config) /\ LayersValid(ui)
    BY <2>1, <2>2 DEF SaveInv
  <2>4. Shown(ui) /\ shown \in Seq(ShownLayer) /\ text \in Text
    BY PartsTyped, ShownKey DEF Shown, Window
  <2>5. layers \in Seq(FileLayer) /\ DOMAIN layers = 1 .. Len(layers) /\ Len(layers) \in Nat
    BY <2>2, ConfigLen
  <2>6. /\ DOMAIN shown = DOMAIN layers
        /\ \A n \in DOMAIN layers : shown[n].name = layers[n].name
        /\ layers[i].keys[k] = Canonical(text, shown)
    BY <2>3 DEF WritesShown
  <2>7. Len(layers) <= LayerCount /\ LayerCount \in Nat /\ LayerCount <= 32
    BY <2>1, <2>5, EditorAssumption DEF Accepts, FewLayers, U8
  <2>8. /\ \A n \in DOMAIN layers : layers[n].id \in LayerId
        /\ Resolve(layers[i].keys[k], layers) # NoCode
    BY <2>1, <2>6 DEF Accepts
  <2>9. ValidLabel(text, shown)
    BY <2>3 DEF LayersValid
  <2>10. keyboard'.keys[i][k] = code
    <3>1. i \in 1 .. LayerCount /\ i \in DOMAIN layers
      BY <2>5, <2>6, <2>7
    <3>2. Entries(file.config)[i][k] = Resolve(layers[i].keys[k], layers)
      BY <3>1 DEF Entries
    <3> QED BY <2>1, <2>6, <3>2
  <2> HIDE DEF layers, shown, text
  <2>11. code # NoCode
    BY <2>6, <2>8
  <2> HIDE DEF code
  <2>12. Does(code, text, shown)
    <3>1. WellNamed(layers) /\ NamesOf(layers) \cap Name = {} /\ Len(layers) <= 32
      BY <2>5, <2>7 DEF layers
    <3> QED BY <2>4, <2>5, <2>6, <2>8, <2>9, <2>11, <3>1, ShownIsDone DEF code
  <2> QED BY <2>10, <2>12 DEF text, shown
<1>2. EditorInv /\ SaveInv /\ [Next]_vars => [Done]_vars
  BY <1>1
<1> QED BY <1>2, EditorInvariant, SaveInvariant, PTL DEF Spec, AppliedIsShown
=============================================================================
