----------------------------- MODULE LayerViewer -----------------------------
(***************************************************************************)
(* The keyboard-layer-viewer: threads that read keyboards and the Hyprland *)
(* socket, and the GTK thread that shows what they report.                 *)
(*                                                                         *)
(* A watcher starts a thread per device node of a known keyboard, unless   *)
(* one runs already: for the key events of its input device, and for the   *)
(* layer reports of its raw HID device.  All threads put what they read    *)
(* into one channel; the GTK thread drains it every 25 ms and then hides   *)
(* the overlay if its deadline has passed (Overlay has the handlers).      *)
(*                                                                         *)
(* Between the keyboard and the thread stands a buffer of the kernel.  An  *)
(* input device that overflows it drops everything but the newest event.   *)
(* A keyboard that is unplugged takes its buffers with it; its node may be *)
(* given to another keyboard before the thread has noticed.                *)
(***************************************************************************)
EXTENDS Overlay, Sequences, SequencesExt, FiniteSets

CONSTANTS
    None,        \* no keyboard
    LayerHid,    \* profiles whose keyboards report their layer
    Depth,       \* bound: what a buffer of the kernel holds
    Channel      \* bound: events in the channel

ASSUME ViewerAssumption ==
    /\ None \notin Profile
    /\ LayerHid \subseteq Profile
    /\ Depth \in Nat \ {0} /\ Channel \in Nat \ {0}

VARIABLES
    at,        \* per path: the profile of the keyboard plugged in there
    down,      \* per path: the keys that are held down
    hw,        \* per path: the layer the keyboard is on
    input,     \* per path: key events the kernel holds for its reader
    reports,   \* per path: layer reports the kernel holds for its reader
    reader,    \* per reader: the state of its thread
    channel,   \* events sent to the GTK thread and not yet handled
    ui,        \* what the GTK thread knows
    game,      \* the compositor: the suppressing submap is active
    announced, \* submap events of the compositor not yet read
    read,      \* history, per path: keys its reader's events have told of
    missed,    \* history: the buffers that have overflowed, per path
    unheard,   \* history: no poll and no announcement has told of the submap yet
    reused     \* history: paths given to another keyboard too early

keyboards == <<at, down, hw>>
compositor == <<game, announced, unheard>>
kernel == <<input, reports, read, missed, reused>>
vars == <<at, down, hw, input, reports, reader, channel, ui, game, announced,
          read, missed, unheard, reused>>

\* The active sets of both watchers name a thread by profile and path.
KeyReader == {"keys"} \X Profile \X Path
LayerReader == {"layer"} \X LayerHid \X Path
Reader == KeyReader \cup LayerReader

Key(p, d, c, pressed) ==
    [type |-> "key", profile |-> p, path |-> d, code |-> c, pressed |-> pressed]
LayerIs(p, l) == [type |-> "layer", profile |-> p, layer |-> l]
Gone(d) == [type |-> "gone", path |-> d]
Submap(g) == [type |-> "submap", game |-> g]
Command(c) == [type |-> c]

Event ==
    {Key(p, d, c, b) : p \in Profile, d \in Path, c \in Code, b \in BOOLEAN}
    \cup {LayerIs(p, l) : p \in Profile, l \in Layer}
    \cup {Gone(d) : d \in Path} \cup {Submap(g) : g \in BOOLEAN}
    \cup {Command(c) : c \in {"activity", "hide"}}

\* EventSink: the channel is unbounded; the bound is the model's.
Send(events) ==
    /\ Len(channel) + Len(events) <= Channel
    /\ channel' = channel \o events

Init ==
    /\ at = [d \in Path |-> None]
    /\ down = [d \in Path |-> {}]
    /\ hw = [d \in Path |-> 0]
    /\ input = [d \in Path |-> <<>>]
    /\ reports = [d \in Path |-> <<>>]
    /\ reader = [r \in Reader |-> "none"]
    /\ channel = <<>>
    /\ game \in BOOLEAN
    /\ \E visible \in BOOLEAN, answer \in {game, NoAnswer} :
         ui = InitialUi(answer, visible)
    /\ announced = <<>>
    /\ read = [d \in Path |-> {}]
    /\ missed = {}
    /\ unheard = (ui.suppressed # game)
    /\ reused = {}

-----------------------------------------------------------------------------
(* Keyboards and the kernel *)

KeysOf(d) == <<"keys", at[d], d>>
LayerOf(d) == <<"layer", at[d], d>>
Reads(r) == r \in Reader /\ reader[r] = "open"

\* A keyboard appears.  If a reader of another profile still has the path as
\* its own, what it has to say about the path will be about this keyboard.
Plug(d) ==
    /\ at[d] = None
    /\ \E p \in Profile :
         /\ at' = [at EXCEPT ![d] = p]
         /\ reused' = reused \cup {x \in {d} :
              \E q \in Profile \ {p} : reader[<<"keys", q, d>>] = "dead"}
    /\ UNCHANGED <<down, hw, input, reports, reader, channel, ui, compositor,
                   read, missed>>

\* It goes, and takes along what its readers have not read.  They will find
\* their descriptors dead.
Unplug(d) ==
    /\ at[d] # None
    /\ at' = [at EXCEPT ![d] = None]
    /\ down' = [down EXCEPT ![d] = {}]
    /\ hw' = [hw EXCEPT ![d] = 0]
    /\ input' = [input EXCEPT ![d] = <<>>]
    /\ reports' = [reports EXCEPT ![d] = <<>>]
    /\ read' = [read EXCEPT ![d] = {}]
    /\ reader' = [r \in Reader |-> IF r[3] = d /\ reader[r] = "open" THEN "dead" ELSE reader[r]]
    /\ missed' = {m \in missed : m[2] # d}
    /\ reused' = reused \ {d}
    /\ UNCHANGED <<channel, ui, compositor>>

\* An input device queues an event for its reader.  When its buffer is full it
\* keeps the newest event only, after a SYN_DROPPED that the reader ignores.
QueueKey(d, c, pressed) ==
    IF ~ Reads(KeysOf(d)) THEN UNCHANGED <<input, read, missed>>
    ELSE /\ read' = [read EXCEPT ![d] = IF pressed THEN @ \cup {c} ELSE @ \ {c}]
         /\ LET e == Key(at[d], d, c, pressed) IN
            IF Len(input[d]) < Depth
              THEN input' = [input EXCEPT ![d] = Append(@, e)] /\ UNCHANGED missed
              ELSE /\ input' = [input EXCEPT ![d] = <<e>>]
                   /\ missed' = missed \cup {<<"keys", d>>}

\* A key goes down, or repeats.
Press(d, c) ==
    /\ at[d] # None
    /\ down' = [down EXCEPT ![d] = @ \cup {c}]
    /\ QueueKey(d, c, TRUE)
    /\ UNCHANGED <<at, hw, reports, reader, channel, ui, compositor, reused>>

Release(d, c) ==
    /\ c \in down[d]
    /\ down' = [down EXCEPT ![d] = @ \ {c}]
    /\ QueueKey(d, c, FALSE)
    /\ UNCHANGED <<at, hw, reports, reader, channel, ui, compositor, reused>>

\* A layer report is queued for the reader, or dropped if its buffer is full.
QueueReport(d, l) ==
    IF Len(reports[d]) < Depth
      THEN reports' = [reports EXCEPT ![d] = Append(@, l)] /\ UNCHANGED missed
      ELSE missed' = missed \cup {<<"layer", d>>} /\ UNCHANGED reports

\* A keyboard that reports its layer moves to another one.
Shift(d, l) ==
    /\ at[d] \in LayerHid /\ hw[d] # l
    /\ hw' = [hw EXCEPT ![d] = l]
    /\ IF Reads(LayerOf(d)) THEN QueueReport(d, l) ELSE UNCHANGED <<reports, missed>>
    /\ UNCHANGED <<at, down, input, reader, channel, ui, compositor, read, reused>>

\* The suppressing submap is entered or left, and Hyprland announces it.
Switch ==
    /\ Len(announced) < Depth
    /\ game' = ~ game
    /\ announced' = Append(announced, game')
    /\ unheard' = FALSE
    /\ UNCHANGED <<keyboards, kernel, reader, channel, ui>>

-----------------------------------------------------------------------------
(* The threads that read them *)

\* Mutant: a layer reader does not ask for the layer the keyboard is on.
WatchOnly(r) ==
    /\ reader[r] = "none" /\ at[r[3]] = r[2]
    /\ reader' = [reader EXCEPT ![r] = "open"]
    /\ UNCHANGED <<keyboards, kernel, channel, ui, compositor>>

\* Mutant: a node is read for every profile.
WatchAnyNode(r) ==
    /\ reader[r] = "none" /\ at[r[3]] # None
    /\ reader' = [reader EXCEPT ![r] = "open"]
    /\ UNCHANGED <<keyboards, kernel, channel, ui, compositor>>

\* watch_input_devices or watch_layer_devices starts a reader of a node that
\* has none.  A layer reader first asks the keyboard for its layer.
Watch(r) ==
    /\ reader[r] = "none" /\ at[r[3]] = r[2]
    /\ reader' = [reader EXCEPT ![r] = "open"]
    /\ reports' = IF r \in LayerReader THEN [reports EXCEPT ![r[3]] = <<hw[r[3]]>>]
                                       ELSE reports
    /\ UNCHANGED <<keyboards, input, read, missed, reused, channel, ui, compositor>>

ReadKey(r) ==
    /\ r \in KeyReader /\ reader[r] = "open" /\ input[r[3]] # <<>>
    /\ Send(<<Head(input[r[3]])>>)
    /\ input' = [input EXCEPT ![r[3]] = Tail(@)]
    /\ UNCHANGED <<keyboards, reports, reader, ui, compositor, read, missed, reused>>

ReadReport(r) ==
    /\ r \in LayerReader /\ reader[r] = "open" /\ reports[r[3]] # <<>>
    /\ Send(<<LayerIs(r[2], Head(reports[r[3]]))>>)
    /\ reports' = [reports EXCEPT ![r[3]] = Tail(@)]
    /\ UNCHANGED <<keyboards, input, reader, ui, compositor, read, missed, reused>>

\* Mutant: a key reader ends without a word.
QuitSilently(r) ==
    /\ reader[r] = "dead"
    /\ reader' = [reader EXCEPT ![r] = "none"]
    /\ UNCHANGED <<keyboards, kernel, channel, ui, compositor>>

\* Reading fails.  A key reader says so; a layer reader just ends.  Only then
\* is the path taken out of the active set.
Quit(r) ==
    /\ reader[r] = "dead"
    /\ reader' = [reader EXCEPT ![r] = "none"]
    /\ IF r \in KeyReader THEN Send(<<Gone(r[3])>>) ELSE UNCHANGED channel
    /\ UNCHANGED <<keyboards, kernel, ui, compositor>>

\* watch_hyprland_monitors, whose connection is there from the start.
Hear ==
    /\ announced # <<>>
    /\ Send(<<Submap(Head(announced))>>)
    /\ announced' = Tail(announced)
    /\ UNCHANGED <<keyboards, kernel, reader, ui, game, unheard>>

\* A viewer started with a command passes it on, but asks for "hide" instead
\* of "activity" if it finds the suppressing submap active.
Control ==
    /\ \E answer \in {game, NoAnswer}, hide \in BOOLEAN :
         Send(<<Command(IF hide \/ answer = TRUE THEN "hide" ELSE "activity")>>)
    /\ UNCHANGED <<keyboards, kernel, reader, ui, compositor>>

-----------------------------------------------------------------------------
(* The GTK thread *)

\* handle_event, with what a poll of the submap answers.
Handled(e, answer) ==
    CASE e.type = "key" /\ e.pressed -> PressKey(ui, e.profile, <<e.path, e.code>>, answer)
      [] e.type = "key" /\ ~ e.pressed -> ReleaseKey(ui, <<e.path, e.code>>)
      [] e.type = "layer" -> SetLayer(ui, e.profile, e.layer, answer)
      [] e.type = "gone" -> DropDevice(ui, e.path)
      [] e.type = "submap" -> Announced(ui, e.game)
      [] e.type = "activity" -> Activity(ui, answer)
      [] e.type = "hide" -> Hide(ui)

Polls(e) ==
    \/ e.type = "key" /\ e.pressed
    \/ e.type = "activity"
    \/ e.type = "layer" /\ ui # [ui EXCEPT !.active = e.profile,
                                           !.layer[e.profile] = ClampLayer(e.profile, e.layer)]

Handle ==
    /\ channel # <<>>
    /\ \E answer \in {game, NoAnswer} :
         /\ ui' = Handled(Head(channel), answer)
         /\ unheard' = (unheard /\ ~ (Polls(Head(channel)) /\ answer = game))
    /\ channel' = Tail(channel)
    /\ UNCHANGED <<keyboards, kernel, reader, game, announced>>

\* AUTO_HIDE_DURATION goes by.
Pass ==
    /\ ui.deadline = "ahead"
    /\ ui' = [ui EXCEPT !.deadline = "passed"]
    /\ UNCHANGED <<keyboards, kernel, reader, channel, compositor>>

\* The deadline is looked at once the channel is drained.
Expire ==
    /\ channel = <<>> /\ ui.deadline = "passed"
    /\ ui' = Hide(ui)
    /\ UNCHANGED <<keyboards, kernel, reader, channel, compositor>>

World ==
    \/ \E d \in Path :
         \/ Plug(d) \/ Unplug(d)
         \/ \E c \in Code : Press(d, c) \/ Release(d, c)
         \/ \E l \in Layer : Shift(d, l)
    \/ Switch \/ Control

ReaderStep(r) == Watch(r) \/ ReadKey(r) \/ ReadReport(r) \/ Quit(r)

Next ==
    \/ World
    \/ \E r \in Reader : ReaderStep(r)
    \/ Hear \/ Handle \/ Pass \/ Expire

Spec == Init /\ [][Next]_vars

\* Every thread runs on, and time passes.  The channel of the code is never
\* full: strong fairness keeps its bound here from starving the announcements.
FairSpec ==
    /\ Spec
    /\ \A r \in Reader : WF_vars(ReaderStep(r))
    /\ SF_vars(Hear)
    /\ WF_vars(Handle) /\ WF_vars(Pass) /\ WF_vars(Expire)

-----------------------------------------------------------------------------
(* Properties *)

\* The types.  Only the reader of the keyboard that is plugged in has its
\* descriptor open, and only for one keyboard at a time.
TypeOK ==
    /\ at \in [Path -> Profile \cup {None}]
    /\ down \in [Path -> SUBSET Code]
    /\ hw \in [Path -> Layer]
    /\ input \in [Path -> Seq(Event)]
    /\ reports \in [Path -> Seq(Layer)]
    /\ reader \in [Reader -> {"none", "open", "dead"}]
    /\ channel \in Seq(Event)
    /\ ui \in Ui
    /\ game \in BOOLEAN /\ announced \in Seq(BOOLEAN)
    /\ read \in [Path -> SUBSET Code]
    /\ missed \subseteq {"keys", "layer"} \X Path
    /\ unheard \in BOOLEAN
    /\ reused \subseteq Path
    /\ \A r \in Reader : reader[r] = "open" => at[r[3]] = r[2]

\* auto_hide_deadline_action: the overlay hides by itself exactly when it was
\* brought up by input and nothing is held any more.
OverlayHidesWhenUnused == HidesWhenUnused(ui)

\* Input never leaves the overlay up on top of a game, nor for a layer it is
\* not enabled for, whichever keyboard is used next.
OverlayShownOnPurpose == ShownOnPurpose(ui)

\* What the GTK thread will have been told about keys of d: what is in the
\* channel, what the reader has not read, and the end of a reader that is dead.
Ahead(d) ==
    channel \o input[d]
      \o (IF \E p \in Profile : reader[<<"keys", p, d>>] = "dead" THEN <<Gone(d)>> ELSE <<>>)

Concerns(e, d, c) ==
    \/ e.type = "key" /\ e.path = d /\ e.code = c
    \/ e.type = "gone" /\ e.path = d

Silent(es, d, c) == \A i \in 1..Len(es) : ~ Concerns(es[i], d, c)

\* The last event that concerns the key tells of a press.
EndsDown(es, d, c) ==
    \E i \in 1..Len(es) :
      /\ Concerns(es[i], d, c) /\ es[i].type = "key" /\ es[i].pressed
      /\ \A j \in 1..Len(es) : j > i => ~ Concerns(es[j], d, c)

\* Whether the key will count as held after all of that.
WillBeHeld(d, c) ==
    \/ EndsDown(Ahead(d), d, c)
    \/ Silent(Ahead(d), d, c) /\ <<d, c>> \in ui.held

\* No key is stuck and none is forgotten: once everything that is under way
\* has been handled, exactly the keys that are down and whose press (or
\* repetition) the reader could see count as held, however often keyboards
\* come and go - unless the kernel dropped events, or the path was given to
\* another keyboard before the reader of the first had noticed.
HeldIsDown ==
    \A d \in Path :
      /\ read[d] \subseteq down[d]
      /\ <<"keys", d>> \notin missed /\ d \notin reused =>
           \A c \in Code : WillBeHeld(d, c) <=> c \in read[d]

\* What the compositor does is what the last of its announcements says, or what
\* the GTK thread believes if there is none under way.
AgreesWith(g) ==
    LET told == {i \in 1..Len(channel) : channel[i].type = "submap"} IN
    IF announced # <<>> THEN Last(announced) = g
    ELSE IF told = {} THEN ui.suppressed = g
    ELSE \E i \in told : channel[i].game = g /\ \A j \in told : j <= i

\* Suppression is both announced and polled: what the GTK thread will believe
\* after all announcements is what the compositor does, unless the poll at the
\* start has failed and nothing was announced or polled since.
SubmapAgrees == ~ unheard => AgreesWith(game)

\* From some point on nobody types, plugs, switches or commands.
AtRest == <>[][~ World]_vars

\* Whatever keyboards and games were used before: once all is at rest with no
\* key down, every keyboard that reports layers plugged in and on its base
\* layer, and no report lost, an overlay that was brought up goes away.
Unused ==
    /\ \A d \in Path : down[d] = {} /\ hw[d] = 0
    /\ \A p \in LayerHid : \E d \in Path : at[d] = p
    /\ missed = {} /\ reused = {}

GoesAway == AtRest => <>[](Unused => ~ ui.autoHide)

\* "game" suppresses the overlay: as long as the submap stays active and the
\* viewer could know, it is not brought up again for good, whatever is
\* typed and however polls fail.
StaysAway == <>[](game /\ ~ unheard) => <>[](~ ui.autoHide)

\* At rest, the layer of every keyboard that is plugged in is the one shown for
\* it, whatever keyboard its path belonged to before.
ShowsLayer ==
    \A d \in Path :
      /\ at[d] \in LayerHid /\ <<"layer", d>> \notin missed
      /\ \A o \in Path \ {d} : at[o] # at[d]
      => ui.layer[at[d]] = ClampLayer(at[d], hw[d])

LayerIsShown == AtRest => <>[]ShowsLayer
=============================================================================
