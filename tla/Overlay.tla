------------------------------- MODULE Overlay -------------------------------
(***************************************************************************)
(* The state the keyboard-layer-viewer keeps on its GTK thread, and what   *)
(* its event handlers make of it: which keyboard's layer the overlay       *)
(* shows, whether it is visible, and when it is to hide again.             *)
(*                                                                         *)
(* Handlers are functions from one UI state to the next.  `game` stands    *)
(* for what a poll of the compositor answers: whether the suppressing      *)
(* submap is active, or NoAnswer when hyprctl fails.                       *)
(*                                                                         *)
(* A deadline is abstracted to whether it lies ahead or has passed.        *)
(***************************************************************************)
EXTENDS Naturals

CONSTANTS
    Profile,     \* keyboard profiles
    Path,        \* where keyboards are plugged in: their device nodes
    Code,        \* key codes
    Layer,       \* layer numbers a keyboard may report, 0 among them
    Layers,      \* per profile: how many layers its layout file describes
    Visible,     \* per profile: the layers the overlay is enabled for
    First,       \* the profile that is listed first
    NoAnswer     \* a poll of the compositor that failed

ASSUME OverlayAssumption ==
    /\ First \in Profile
    /\ 0 \in Layer /\ Layer \subseteq Nat
    /\ Layers \in [Profile -> Nat \ {0}]
    /\ Visible \in [Profile -> SUBSET Nat]
    /\ NoAnswer \notin BOOLEAN

\* UiState.  A profile's current layer is kept with the profile.
Ui == [active : Profile, layer : [Profile -> Nat], visible : BOOLEAN,
       autoHide : BOOLEAN, deadline : {"none", "ahead", "passed"},
       held : SUBSET (Path \X Code), suppressed : BOOLEAN]

\* clamp_layer: a layer the layout file does not describe is shown as the base.
ClampLayer(p, l) == IF l < Layers[p] THEN l ELSE 0

Enabled(u) == u.layer[u.active] \in Visible[u.active]

\* input_is_held: a key is down, or the keyboard is on another layer.
InputIsHeld(u) == u.held # {} \/ u.layer[u.active] # 0

Hide(u) == [u EXCEPT !.visible = FALSE, !.autoHide = FALSE, !.deadline = "none"]

\* update_auto_hide_deadline.
UpdateDeadline(u) ==
    IF InputIsHeld(u) THEN [u EXCEPT !.deadline = "none"]
    ELSE IF u.autoHide /\ u.visible THEN [u EXCEPT !.deadline = "ahead"]
    ELSE u

\* Mutant: a poll that fails says that no submap is active.
PolledAsInactive(u, game) == [u EXCEPT !.suppressed = game = TRUE]

\* refresh_submap_suppression: a poll that fails leaves the old value.
Polled(u, game) == IF game = NoAnswer THEN u ELSE [u EXCEPT !.suppressed = game]

\* Mutant: only the layer decides whether the overlay is shown.
ReactToLayer(u) ==
    IF ~ Enabled(u) THEN Hide(u)
    ELSE UpdateDeadline([u EXCEPT !.visible = TRUE, !.autoHide = TRUE])

\* What activity_state, set_layer and touch_profile have in common.
React(u) ==
    IF u.suppressed \/ ~ Enabled(u) THEN Hide(u)
    ELSE UpdateDeadline([u EXCEPT !.visible = TRUE, !.autoHide = TRUE])

Activity(u, game) == React(Polled(u, game))

\* set_layer: nothing happens if this layer of this profile is shown already.
SetLayer(u, p, l, game) ==
    LET v == [u EXCEPT !.active = p, !.layer[p] = ClampLayer(p, l)]
    IN IF v = u THEN u ELSE React(Polled(v, game))

\* touch_profile, which updates the deadline in every case.
Touch(u, p, game) == UpdateDeadline(React(Polled([u EXCEPT !.active = p], game)))

\* key_profile.
PressKey(u, p, key, game) == Touch([u EXCEPT !.held = @ \cup {key}], p, game)

\* Mutant: the deadline is left alone when a key is released.
ForgetKey(u, key) == [u EXCEPT !.held = @ \ {key}]

ReleaseKey(u, key) == UpdateDeadline([u EXCEPT !.held = @ \ {key}])

\* Mutant: keys of a device that is gone are removed and nothing else.
ForgetDevice(u, d) == [u EXCEPT !.held = {k \in @ : k[1] # d}]

\* input_disconnected: the keys of a device that is gone are released.
DropDevice(u, d) ==
    LET v == [u EXCEPT !.held = {k \in @ : k[1] # d}]
    IN IF v = u THEN u ELSE UpdateDeadline(v)

\* Mutant: an announcement is remembered for the next event.
RememberAnnounced(u, game) == [u EXCEPT !.suppressed = game]

\* The compositor announces a submap.
Announced(u, game) ==
    IF game THEN Hide([u EXCEPT !.suppressed = TRUE])
    ELSE [u EXCEPT !.suppressed = FALSE]

\* build_ui: no layer is shown yet that the overlay is not enabled for.
InitialUi(game, visible) ==
    [active |-> First, layer |-> [p \in Profile |-> 0],
     visible |-> visible /\ 0 \in Visible[First], autoHide |-> FALSE,
     deadline |-> "none", held |-> {}, suppressed |-> game = TRUE]

-----------------------------------------------------------------------------

\* The overlay hides by itself exactly when nobody uses it: a deadline is set
\* only while it is shown with nothing held, and whenever it was brought up by
\* input and nothing is held any more, a deadline is set.
HidesWhenUnused(u) ==
    /\ u.autoHide => u.visible
    /\ u.deadline # "none" <=> u.autoHide /\ ~ InputIsHeld(u)

\* Input brings up the overlay only outside the suppressing submap and for
\* layers it is enabled for, and it goes away when either ceases to hold.
ShownOnPurpose(u) == u.autoHide => ~ u.suppressed /\ Enabled(u)
=============================================================================
