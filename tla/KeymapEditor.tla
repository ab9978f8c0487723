---------------------------- MODULE KeymapEditor ----------------------------
(* keymap-editor: one window over configuration.json, beside the others that *)
(* write that file, "silakka54-sync config snapshot-live --output" and       *)
(* whoever edits it by hand, and the keyboard "Apply live" brings it to.     *)
(*                                                                           *)
(* The window's handlers run one at a time and are one action each up to     *)
(* their first file operation.  Both programs replace the file by way of the *)
(* same configuration.json.tmp, in steps others may come between.            *)
EXTENDS KeyLabels

CONSTANTS
    Key,          \* the keys of a layer
    LayerCount,   \* DYNAMIC_KEYMAP_LAYER_COUNT
    Starts,       \* the configurations and keyboards to begin with
    Typed,        \* the texts a user types or an edit puts in the file
    Terms,        \* what may be typed as QUICK_TAP_TERM, or
    Bad,          \*   a text that is no number
    None, Torn,   \* no key selected, nothing to write; a file cut short
    MaxInputs     \* bounds what people type and edit

VARIABLES
    file,      \* configuration.json: its content and who wrote those bytes
    tmp,       \* configuration.json.tmp, or NoFile
    target,    \* where the file a process has open is now: "tmp", "file" or "gone"
    keyboard,  \* what the keyboard stores: a code per layer and key, and the macro buffer
    ui,        \* AppState: layers, current layer, selected key, entries, setting field
    at,        \* the step the editor and snapshot-live are at
    next,      \* the configuration each is about to write
    read,      \* what snapshot-live read from the keyboard
    live,      \* whether the editor's save is one to apply
    inputs, snapshots   \* how many inputs and runs of snapshot-live are left

vars == <<file, tmp, target, keyboard, ui, at, next, read, live, inputs, snapshots>>
external == <<file, tmp, target, keyboard, at, next, read, live, inputs, snapshots>>

Proc == {"editor", "snapshot"}
NoFile == [by |-> "nobody", config |-> Torn]

(* The layers of a file, what the window keeps of them, and what a keyboard  *)
(* stores for its layers.                                                    *)
FileLayer == [id : Word, name : LayerName, keys : [Key -> Text]]
ShownLayer == [name : LayerName, keys : [Key -> Text]]
StoredKeys == [1 .. LayerCount -> [Key -> U16]]
Window == [layers : Seq(ShownLayer), layer : Nat, key : Key \cup {None}, entry : Text, tap : Text,
           hold : 0 .. Len(Modifiers) + LayersListed, quick : Nat \cup {Bad}, tapping : Nat]

IsConfig(c) ==
    /\ c = [layers |-> c.layers, quick |-> c.quick, tapping |-> c.tapping, macros |-> c.macros]
    /\ c.layers \in Seq(FileLayer) /\ c.layers # <<>>
    /\ c.quick \in Nat /\ c.tapping \in Nat /\ c.macros \in Macros

IsStored(kb) ==
    kb = [keys |-> kb.keys, buffer |-> kb.buffer] /\ kb.keys \in StoredKeys /\ kb.buffer \in Buffer

ASSUME EditorAssumption ==
    /\ LayerCount \in U8 /\ MaxInputs \in Nat /\ Typed \subseteq Text /\ Terms \subseteq Nat
    /\ \A start \in Starts : /\ IsConfig(start.config) /\ IsStored(start.keyboard)
                             /\ start.inputs \in 0 .. MaxInputs /\ start.snapshots \in 0 .. 1

-----------------------------------------------------------------------------
(* silakka54-sync on a configuration: validate_configuration, as far as      *)
(* layers, keys, macros and terms go, and what configuration_entries makes   *)
(* of it.  A macro is ASCII.                                                 *)
Accepts(config) ==
    /\ config # Torn
    /\ Len(config.layers) \in 1 .. LayerCount
    /\ \A i \in DOMAIN config.layers : config.layers[i].id \in LayerId
    /\ \A i, j \in DOMAIN config.layers :
          \/ config.layers[i].id = config.layers[j].id
          \/ config.layers[i].name = config.layers[j].name
          => i = j
    /\ config.quick <= config.tapping
    /\ Len(config.macros) <= Capacity /\ config.macros \in Seq(Seq(1 .. \h7f))
    /\ \A i \in DOMAIN config.layers : \A k \in Key :
          Resolve(config.layers[i].keys[k], config.layers) # NoCode

Entries(config) ==
    [l \in 1 .. LayerCount |-> [k \in Key |->
        IF l \in DOMAIN config.layers THEN Resolve(config.layers[l].keys[k], config.layers)
        ELSE Code["KC_TRNS"]]]

Described(config, kb) ==
    [config EXCEPT
        !.layers = [i \in DOMAIN @ |-> [@[i] EXCEPT !.keys =
            [k \in Key |-> Describe(kb.keys[i][k], config.layers)]]],
        !.macros = DecodeMacros(kb.buffer)]

-----------------------------------------------------------------------------
(* The window.                                                               *)
LoadLayers(config) == [i \in DOMAIN config.layers |->
    [name |-> config.layers[i].name, keys |-> config.layers[i].keys]]

RefreshTapHold(u) ==
    IF u.key = None THEN [u EXCEPT !.tap = Plain(Empty), !.hold = 0]
    ELSE LET shown == TapHoldOf(u.layers[u.layer].keys[u.key], u.layers)
         IN  [u EXCEPT !.tap = shown.tap, !.hold = shown.hold]

Refresh(u) == RefreshTapHold([u EXCEPT !.entry =
    IF u.key = None THEN Plain(Empty) ELSE u.layers[u.layer].keys[u.key]])

SetKey(u, text) == [u EXCEPT !.layers[u.layer].keys[u.key] = text]

(* collect_editor: whether it succeeds, and what it leaves.                  *)
Collects(u) == u.key = None \/ (u.entry # Plain(Empty) /\ ValidLabel(u.entry, u.layers))
Collect(u) == IF u.key = None \/ ~Collects(u) THEN u ELSE SetKey(u, u.entry)

(* validate_layers, and collect_qmk_settings with validate_qmk_settings.     *)
LayersValid(u) ==
    \A i \in DOMAIN u.layers : \A k \in Key : ValidLabel(u.layers[i].keys[k], u.layers)
SettingsValid(u) == u.quick # Bad /\ u.quick <= u.tapping

Idle == at["editor"] = "idle"
Input == inputs > 0 /\ inputs' = inputs - 1
Show(u) == ui' = u /\ UNCHANGED external
Change(u) == Input /\ ui' = u /\ UNCHANGED <<file, tmp, target, keyboard, at, next, read, live, snapshots>>

Init ==
    \E start \in Starts :
        /\ file = [by |-> "disk", config |-> start.config]
        /\ keyboard = start.keyboard
        /\ ui = [layers |-> LoadLayers(start.config), layer |-> 1, key |-> None,
                 entry |-> Plain(Empty), tap |-> Plain(Empty), hold |-> 0,
                 quick |-> start.config.quick, tapping |-> start.config.tapping]
        /\ inputs = start.inputs /\ snapshots = start.snapshots
        /\ tmp = NoFile /\ target = [p \in Proc |-> "gone"]
        /\ live = FALSE /\ read = None /\ next = [p \in Proc |-> None]
        /\ at = [p \in Proc |-> "idle"]

(* What the user types or picks, unjudged until a handler collects it.       *)
Type ==
    /\ Idle /\ ui.key # None
    /\ \/ \E text \in Typed : Change([ui EXCEPT !.entry = text])
       \/ \E text \in Typed : Change([ui EXCEPT !.tap = text])
       \/ \E hold \in 0 .. Len(Modifiers) + LayersListed :
             hold < FirstLayer + Len(ui.layers) /\ Change([ui EXCEPT !.hold = hold])

TypeTerm == Idle /\ \E t \in Terms \cup {Bad} : Change([ui EXCEPT !.quick = t])

(* on_key_press and on_quick_label: a label goes straight into the key.      *)
Assign ==
    /\ Idle /\ ui.key # None
    /\ \E text \in Typed :
          /\ ValidLabel(text, ui.layers)
          /\ Change(RefreshTapHold([SetKey(ui, text) EXCEPT !.entry = text]))

(* on_button_press on a key: select_key.                                     *)
Select == Idle /\ Collects(ui) /\ \E k \in Key : Show(Refresh([Collect(ui) EXCEPT !.key = k]))

(* A mutated form: the window turns to another layer before it collects.     *)
ShiftFirst ==
    /\ Idle /\ Collects(ui)
    /\ \E l \in DOMAIN ui.layers \ {ui.layer} :
          Show(Refresh(Collect([ui EXCEPT !.layer = l])))

(* on_layer_changed.  An entry that cannot be collected keeps the layer.     *)
Shift ==
    /\ Idle /\ Collects(ui)
    /\ \E l \in DOMAIN ui.layers \ {ui.layer} : Show(Refresh([Collect(ui) EXCEPT !.layer = l]))

(* on_validate only reports, and on_apply redraws, but both collect.         *)
Validate == Idle /\ Show(Collect(ui))
Apply == Idle /\ Collects(ui) /\ Show(RefreshTapHold(Collect(ui)))

(* on_apply_tap_hold replaces key and entry; it collects nothing.            *)
ApplyTapHold ==
    /\ Idle /\ ui.key # None
    /\ LET text == Assigned(ui.tap, ui.hold, ui.layers)
       IN  /\ text # NoText
           /\ Show(RefreshTapHold([SetKey(ui, text) EXCEPT !.entry = text]))

(* A mutated form: the current layer is kept as it is.                       *)
ReloadUnclamped ==
    /\ Idle /\ Collects(ui)
    /\ Show(IF file.config = Torn THEN Collect(ui)
            ELSE LET u == [ui EXCEPT !.layers = LoadLayers(file.config),
                                     !.quick = file.config.quick, !.tapping = file.config.tapping]
                 IN  IF u.layer \in DOMAIN u.layers THEN Refresh(u) ELSE u)

(* on_reload discards the layers and fields for those on disk.               *)
Reload ==
    /\ Idle /\ Collects(ui)
    /\ Show(IF file.config = Torn THEN Collect(ui)
            ELSE Refresh([ui EXCEPT
                    !.layers = LoadLayers(file.config),
                    !.layer = IF @ <= Len(file.config.layers) THEN @ ELSE Len(file.config.layers),
                    !.quick = file.config.quick, !.tapping = file.config.tapping]))

-----------------------------------------------------------------------------
(* persist_state: on_save, and on_apply_live when it is to be applied.       *)
Save ==
    /\ Idle
    /\ ui' = Collect(ui)
    /\ IF Collects(ui) /\ LayersValid(ui') /\ SettingsValid(ui')
       THEN at' = [at EXCEPT !["editor"] = "read"] /\ live' \in BOOLEAN
       ELSE UNCHANGED <<at, live>>
    /\ UNCHANGED <<file, tmp, target, keyboard, next, read, inputs, snapshots>>

(* save_configuration writes into the file as it is now: names, keys and     *)
(* settings are the window's, everything else stays.                         *)
Saved(config) ==
    [config EXCEPT
        !.layers = [i \in DOMAIN @ |-> [@[i] EXCEPT
            !.name = ui.layers[i].name,
            !.keys = [k \in Key |-> Canonical(ui.layers[i].keys[k], ui.layers)]]],
        !.quick = ui.quick, !.tapping = ui.tapping]

ReadBack ==
    /\ at["editor"] = "read"
    /\ IF file.config = Torn \/ Len(file.config.layers) # Len(ui.layers)
       THEN at' = [at EXCEPT !["editor"] = "idle"] /\ live' = FALSE /\ UNCHANGED next
       ELSE /\ next' = [next EXCEPT !["editor"] = Saved(file.config)]
            /\ at' = [at EXCEPT !["editor"] = "open"] /\ UNCHANGED live
    /\ UNCHANGED <<file, tmp, target, keyboard, ui, read, inputs, snapshots>>

(* fs::write truncates the file, then writes it from its start; the bytes    *)
(* follow the file if the other process has moved it into place in between,  *)
(* and over bytes of the other's they leave its longer version a torn end.   *)
Open(p) ==
    /\ at[p] = "open"
    /\ tmp' = [by |-> p, config |-> Torn]
    /\ target' = [target EXCEPT ![p] = "tmp"]
    /\ at' = [at EXCEPT ![p] = "write"]
    /\ UNCHANGED <<file, keyboard, ui, next, read, live, inputs, snapshots>>

Over(p, f) ==
    LET whole == [by |-> p, config |-> next[p]]
    IN  IF f.config = Torn THEN {whole} ELSE {whole, [by |-> p, config |-> Torn]}

Write(p) ==
    /\ at[p] = "write"
    /\ \/ target[p] = "tmp" /\ tmp' \in Over(p, tmp) /\ UNCHANGED file
       \/ target[p] = "file" /\ file' \in Over(p, file) /\ UNCHANGED tmp
       \/ target[p] = "gone" /\ UNCHANGED <<file, tmp>>
    /\ target' = [target EXCEPT ![p] = "gone"]
    /\ at' = [at EXCEPT ![p] = "rename"]
    /\ UNCHANGED <<keyboard, ui, next, read, live, inputs, snapshots>>

Rename(p) ==
    /\ at[p] = "rename"
    /\ IF tmp = NoFile THEN UNCHANGED <<file, tmp, target>>
       ELSE /\ file' = tmp /\ tmp' = NoFile
            /\ target' = [q \in Proc |-> IF target[q] = "tmp" THEN "file" ELSE "gone"]
    /\ at' = [at EXCEPT ![p] = IF p = "editor" /\ live /\ tmp # NoFile THEN "apply" ELSE "idle"]
    /\ next' = [next EXCEPT ![p] = None]
    /\ live' = (live /\ p = "snapshot")
    /\ UNCHANGED <<keyboard, ui, read, inputs, snapshots>>

(* The "silakka54-sync apply" that the editor runs and waits for.            *)
ApplyDone ==
    /\ at["editor"] = "apply"
    /\ Accepts(file.config) /\ EncodeMacros(file.config.macros) # NoBuffer
    /\ keyboard' = [keys |-> Entries(file.config), buffer |-> EncodeMacros(file.config.macros)]
    /\ at' = [at EXCEPT !["editor"] = "idle"]
    /\ UNCHANGED <<file, tmp, target, ui, next, read, live, inputs, snapshots>>

(* It may fail having written some of the keys and the start of the buffer.  *)
ApplyFails ==
    /\ at["editor"] = "apply"
    /\ \E done \in SUBSET ((1 .. LayerCount) \X Key), n \in 0 .. BufferSize :
          LET buffer == EncodeMacros(file.config.macros)
          IN  /\ done # {} \/ n > 0 => Accepts(file.config)
              /\ n > 0 => buffer # NoBuffer
              /\ keyboard' = [
                    keys |-> [l \in 1 .. LayerCount |-> [k \in Key |->
                        IF <<l, k>> \in done THEN Entries(file.config)[l][k] ELSE keyboard.keys[l][k]]],
                    buffer |-> [i \in 1 .. BufferSize |->
                        IF i <= n THEN buffer[i] ELSE keyboard.buffer[i]]]
    /\ at' = [at EXCEPT !["editor"] = "idle"]
    /\ UNCHANGED <<file, tmp, target, ui, next, read, live, inputs, snapshots>>

-----------------------------------------------------------------------------
(* The others.  snapshot_live_command keeps the whole configuration it       *)
(* loaded but for keys and macros, and writes only what validates.           *)
Snapshot ==
    /\ snapshots > 0 /\ at["snapshot"] = "idle"
    /\ Accepts(file.config) /\ Accepts(Described(file.config, keyboard))
    /\ next' = [next EXCEPT !["snapshot"] = Described(file.config, keyboard)]
    /\ read' = keyboard
    /\ at' = [at EXCEPT !["snapshot"] = "open"]
    /\ snapshots' = snapshots - 1
    /\ UNCHANGED <<file, tmp, target, keyboard, ui, live, inputs>>

(* A text editor writes the file in place or puts another in its place.      *)
EditByHand ==
    /\ Input /\ file.config # Torn
    /\ LET layers == file.config.layers
       IN  \/ \E i \in DOMAIN layers, k \in Key, text \in Typed :
                file' = [by |-> "hand", config |->
                            [file.config EXCEPT !.layers[i].keys[k] = text]]
           \/ /\ Len(layers) > 1
              /\ file' = [by |-> "hand", config |-> [file.config EXCEPT !.layers = Front(@)]]
    /\ target' \in {target, [q \in Proc |-> IF target[q] = "file" THEN "gone" ELSE target[q]]}
    /\ UNCHANGED <<tmp, keyboard, ui, at, next, read, live, snapshots>>

Next ==
    \/ Type \/ TypeTerm \/ Assign \/ Select \/ Shift \/ Validate \/ Apply \/ ApplyTapHold
    \/ Reload \/ Save \/ ReadBack \/ ApplyDone \/ ApplyFails \/ Snapshot \/ EditByHand
    \/ \E p \in Proc : Open(p) \/ Write(p) \/ Rename(p)

Spec == Init /\ [][Next]_vars
-----------------------------------------------------------------------------
(* Type invariant: the files hold configurations or are cut short, the       *)
(* window's entries hold texts, the selected key and the current layer exist *)
(* in the layers shown, and the keyboard stores keycodes.                    *)
TypeOK ==
    /\ file = [by |-> file.by, config |-> file.config]
    /\ file.config = Torn \/ IsConfig(file.config)
    /\ tmp = [by |-> tmp.by, config |-> tmp.config] /\ tmp.by \in Proc \cup {"nobody"}
    /\ tmp.config = Torn \/ IsConfig(tmp.config)
    /\ target \in [Proc -> {"tmp", "file", "gone"}]
    /\ IsStored(keyboard)
    /\ ui \in Window /\ ui.layer \in DOMAIN ui.layers
    /\ at \in [Proc -> {"idle", "read", "open", "write", "rename", "apply"}]
    /\ live \in BOOLEAN /\ inputs \in 0 .. MaxInputs /\ snapshots \in 0 .. 1

(* What is typed for one key is not lost on the way to another: whatever the *)
(* window does, other than at the user's word or by Reload, it goes on       *)
(* holding every key with the text last entered for it (collect_editor in    *)
(* select_key, on_layer_changed, on_validate, on_apply, persist_state).      *)
EditsSurvive ==
    [][~Reload /\ ~ApplyTapHold /\ inputs' = inputs =>
        Collect(ui').layers = Collect(ui).layers]_vars

(* The layers a text may be written for by name: those whose id in the file  *)
(* is the identifier the editor makes of the name, and no other's id or      *)
(* name, and whose name is no number.                                        *)
WellNamed(layers) ==
    \A i, j \in DOMAIN layers :
        /\ layers[i].id = Identifier[layers[i].name] /\ layers[i].name \notin DOMAIN Number
        /\ layers[i].id \in {layers[j].id, layers[j].name} => i = j

(* What a stored code has to be for a key the window shows with this text:   *)
(* the layer or modifier it names is held, a keycode named is the one that   *)
(* is tapped, and one shown by a legend has that legend.                     *)
LegendOf == [n \in Name |-> Legend(n)]
TapsFor(code, x) ==
    \E n \in Name :
        /\ Code[n] = code
        /\ IF x \in Name THEN Code[x] = code
           ELSE LegendOf[n] = Find(x, {<<"TRNS", "___">>, <<"NO", "---">>}, x)

Does(code, text, layers) ==
    LET shown == TapHoldOf(text, layers)
        named == {i \in DOMAIN layers : text.call = "plain" /\ text.tap = layers[i].name}
    IN  IF HeldModifier(text) # 0
        THEN /\ code \div \h100 = \h20 + ModBits[Modifiers[shown.hold].mod]
             /\ TapsFor(code % \h100, text.tap)
        ELSE IF shown.hold >= FirstLayer /\ text.call = "LT"
        THEN code \div \h100 = \h40 + shown.hold - FirstLayer /\ TapsFor(code % \h100, text.tap)
        ELSE IF named # {} THEN \E i \in named : code = \h5220 + i - 1
        ELSE text.call = "plain" => TapsFor(code, text.tap)

(* "Saved and applied" is true: when the live apply succeeds and nobody else *)
(* wrote the file since the save, the keyboard does on every key what the    *)
(* window shows for it, through canonical_key, the file and resolve_keycode. *)
(* No layer is to be named like a keycode.                                   *)
AppliedIsShown ==
    [][ApplyDone /\ file.by = "editor" /\ WellNamed(file.config.layers)
       /\ NamesOf(file.config.layers) \cap Name = {} =>
        \A i \in DOMAIN ui.layers : \A k \in Key :
            Does(keyboard'.keys[i][k], ui.layers[i].keys[k], ui.layers)]_vars

(* A text the tap-hold editor cannot give back: its legend stands for other  *)
(* keycodes too (a right modifier, KC_MENU), its layer is not in the list or *)
(* in the list under a name whose identifier is not its id, or the text      *)
(* refers to the layer by its name.                                          *)
Lossy(text, layers) ==
    \/ \E n \in Name : LegendOf[n] = Legend(text.tap) /\ Code[n] # Code[text.tap]
    \/ /\ text.call = "LT"
       /\ \/ ~WellNamed(layers)
          \/ \A ref \in text.hold :
                ref \in NamesOf(layers) \/ LayerOf(ref, layers) \notin DOMAIN layers \cap 1 .. LayersListed

(* Pressing the tap-hold editor's button on a key nobody has changed leaves  *)
(* the key what it was, or is refused: what refresh_tap_hold_editor takes a  *)
(* text apart into, on_apply_tap_hold puts together to the same keycode.     *)
TapHoldUntouched ==
    \A i \in DOMAIN ui.layers : \A k \in Key :
        LET text == ui.layers[i].keys[k]
            shown == TapHoldOf(text, ui.layers)
            again == Assigned(shown.tap, shown.hold, ui.layers)
            layers == IF file.config = Torn THEN <<>> ELSE file.config.layers
        IN  Len(layers) = Len(ui.layers) /\ Resolve(text, layers) # NoCode
            /\ again # NoText
            => Resolve(again, layers) = Resolve(text, layers) \/ Lossy(text, layers)

(* A buffer whose macros are all terminated, none of them past the capacity. *)
Tidy(buffer) ==
    /\ Last(buffer) = 0
    /\ \A i \in DOMAIN buffer : buffer[i] # 0 => Nuls(buffer, i) < Capacity

(* A configuration keeps the keys and the macros that were read: applying it *)
(* would write back, key by key, the codes that were stored, and the macro   *)
(* buffer.  Layers of which one has another's id as its name are left out:   *)
(* resolve_keycode then takes the later one.                                 *)
KeysKept(config, kb) ==
    LET layers == config.layers
    IN  (\A i, j \in DOMAIN layers : layers[i].id = layers[j].name => i = j) =>
            \A i \in DOMAIN layers : \A k \in Key :
                Resolve(layers[i].keys[k], layers) = kb.keys[i][k]

MacrosKept(config, kb) == Tidy(kb.buffer) => EncodeMacros(config.macros) = kb.buffer

(* A snapshot is what the keyboard holds: when snapshot-live has replaced    *)
(* the file and its own bytes are in place, they keep what it read.          *)
SnapshotIsFaithful ==
    [][Rename("snapshot") /\ file'.by = "snapshot" /\ file'.config # Torn =>
        KeysKept(file'.config, read) /\ MacrosKept(file'.config, read)]_vars

-----------------------------------------------------------------------------
(* Strengthenings: what the proofs add to the type invariant.                *)

(* A save starts from valid settings, and a process that has begun to        *)
(* replace the file has a whole configuration to put there.                  *)
EditorInv ==
    /\ TypeOK
    /\ at["editor"] = "read" => SettingsValid(ui)
    /\ next = [p \in Proc |-> next[p]]
    /\ \A p \in Proc : at[p] \in {"open", "write", "rename"} => IsConfig(next[p])

(* What a snapshot is about to write keeps the keys and macros it has read,  *)
(* and nothing but that comes under its name while it writes.                *)
SnapshotInv ==
    /\ at["snapshot"] \in {"open", "write", "rename"} =>
          KeysKept(next["snapshot"], read) /\ MacrosKept(next["snapshot"], read)
    /\ at["snapshot"] \in {"write", "rename"} =>
          /\ tmp.by = "snapshot" => tmp.config \in {Torn, next["snapshot"]}
          /\ tmp = NoFile /\ file.by = "snapshot" => file.config \in {Torn, next["snapshot"]}

(* From its save until the apply the window stays as it was, with labels the *)
(* editor knows, and what it is about to write, or has written and nobody    *)
(* has replaced since, is what it shows.                                     *)
WritesShown(config) ==
    /\ DOMAIN config.layers = DOMAIN ui.layers
    /\ \A i \in DOMAIN ui.layers :
          /\ config.layers[i].name = ui.layers[i].name
          /\ \A k \in Key : config.layers[i].keys[k] = Canonical(ui.layers[i].keys[k], ui.layers)

SaveInv ==
    /\ at["editor"] # "idle" => LayersValid(ui)
    /\ at["editor"] \in {"open", "write", "rename"} => WritesShown(next["editor"])
    /\ tmp.by = "editor" =>
          at["editor"] \in {"write", "rename"} /\ tmp.config \in {Torn, next["editor"]}
    /\ at["editor"] = "apply" /\ file.by = "editor" =>
          file.config = Torn \/ WritesShown(file.config)

(* A momentary layer's keycode has five bits for the layer.                  *)
FewLayers == LayerCount <= 32

(* The editor and snapshot-live have both begun to write the temporary file, *)
(* and what a temporary file is for: a replacement that nobody disturbs is   *)
(* one step, from a whole file to what its process was to write.             *)
Overlap == \A p \in Proc : at[p] \in {"write", "rename"}
ReplacedAtOnce ==
    [][file' # file => \/ EditByHand
                       \/ \E p \in Proc : Rename(p) /\ file' = [by |-> p, config |-> next[p]]]_vars

(* The file is whole, and the temporary file is that of who writes it.       *)
WholeInv ==
    /\ file.config # Torn
    /\ \A p \in Proc : /\ at[p] = "write" =>
                              tmp = [by |-> p, config |-> Torn] /\ target[p] = "tmp"
                       /\ at[p] = "rename" => tmp = [by |-> p, config |-> next[p]]

(* The layers keep the names they began with, in the window, in the files    *)
(* and in what is about to be written: an edit by hand changes keys or drops *)
(* the last layer.                                                           *)
NamedLike(layers, begun) == \A i \in DOMAIN layers : layers[i].name = begun[i].name
NamesKept(begun) ==
    /\ NamedLike(ui.layers, begun)
    /\ \A f \in {file, tmp} : f.config # Torn => NamedLike(f.config.layers, begun)
    /\ \A p \in Proc : at[p] \in {"open", "write", "rename"} => NamedLike(next[p].layers, begun)
NamesInv == \E start \in Starts : NamesKept(start.config.layers)
=============================================================================
