-------------------------- MODULE LayerViewerProofs --------------------------
(***************************************************************************)
(* Proofs about Overlay and LayerViewer for any keyboards, nodes, keys,    *)
(* layers and buffers.                                                     *)
(*                                                                         *)
(* That an overlay hides when it is unused and shows on purpose only is a  *)
(* matter of the UI state alone: every handler of Overlay keeps Good, and  *)
(* Handle is the only step that takes anything into the UI state.  What it *)
(* takes there is an event, hence TypeOK is part of the invariant.         *)
(***************************************************************************)
EXTENDS LayerViewer, TLAPS

\* What the two properties of the overlay and the types say of a UI state.
Good(u) == u \in Ui /\ HidesWhenUnused(u) /\ ShownOnPurpose(u)

\* What a poll of the compositor may answer.
AnswerOf == BOOLEAN \cup {NoAnswer}

\* A layer is clamped to a number.
LEMMA ClampTyped ==
  ASSUME NEW p \in Profile, NEW l \in Nat
  PROVE  ClampLayer(p, l) \in Nat
BY DEF ClampLayer

\* A hidden overlay is good whatever it was before.
LEMMA HideGood == ASSUME NEW u \in Ui PROVE Good(Hide(u))
BY DEF Good, Ui, Hide, HidesWhenUnused, ShownOnPurpose, InputIsHeld, Enabled

\* Updating the deadline makes an overlay good that was brought up on purpose
\* and has no deadline unless it was brought up.
LEMMA UpdateGood ==
  ASSUME NEW u \in Ui, u.autoHide => u.visible, ~ u.autoHide => u.deadline = "none",
         ShownOnPurpose(u)
  PROVE  Good(UpdateDeadline(u))
<1>1. CASE InputIsHeld(u)
  BY <1>1 DEF Good, Ui, UpdateDeadline, HidesWhenUnused, ShownOnPurpose, InputIsHeld, Enabled
<1>2. CASE ~ InputIsHeld(u) /\ u.autoHide
  BY <1>2 DEF Good, Ui, UpdateDeadline, HidesWhenUnused, ShownOnPurpose, InputIsHeld, Enabled
<1>3. CASE ~ InputIsHeld(u) /\ ~ u.autoHide
  BY <1>3 DEF Good, Ui, UpdateDeadline, HidesWhenUnused, ShownOnPurpose, InputIsHeld, Enabled
<1> QED BY <1>1, <1>2, <1>3

\* Bringing up the overlay, or not, makes it good whatever it was before.
LEMMA ReactGood == ASSUME NEW u \in Ui PROVE Good(React(u))
<1>1. CASE u.suppressed \/ ~ Enabled(u)
  BY <1>1, HideGood DEF React
<1>2. CASE ~ u.suppressed /\ Enabled(u)
  <2> DEFINE v == [u EXCEPT !.visible = TRUE, !.autoHide = TRUE]
  <2>1. v \in Ui /\ v.autoHide /\ v.visible /\ ShownOnPurpose(v)
    BY <1>2 DEF Ui, ShownOnPurpose, Enabled
  <2>2. React(u) = UpdateDeadline(v)
    BY <1>2 DEF React
  <2> QED BY <2>1, <2>2, UpdateGood
<1> QED BY <1>1, <1>2

\* A poll leaves the types alone.
LEMMA PolledTyped ==
  ASSUME NEW u \in Ui, NEW answer \in AnswerOf
  PROVE  Polled(u, answer) \in Ui
BY OverlayAssumption DEF Ui, Polled, AnswerOf

\* The handlers that bring up the overlay are good whatever was before.
LEMMA ActivityGood ==
  ASSUME NEW u \in Ui, NEW answer \in AnswerOf
  PROVE  Good(Activity(u, answer))
BY PolledTyped, ReactGood DEF Activity

\* A change of layer is ignored, or as good.
LEMMA SetLayerGood ==
  ASSUME NEW u, Good(u), NEW p \in Profile, NEW l \in Nat, NEW answer \in AnswerOf
  PROVE  Good(SetLayer(u, p, l, answer))
<1> DEFINE v == [u EXCEPT !.active = p, !.layer[p] = ClampLayer(p, l)]
<1>1. v \in Ui
  BY ClampTyped DEF Good, Ui
<1>2. Good(React(Polled(v, answer)))
  BY <1>1, PolledTyped, ReactGood
<1>3. SetLayer(u, p, l, answer) = IF v = u THEN u ELSE React(Polled(v, answer))
  BY DEF SetLayer
<1> QED BY <1>2, <1>3

\* An update after that keeps a good state good.
LEMMA UpdateKeepsGood == ASSUME NEW u, Good(u) PROVE Good(UpdateDeadline(u))
<1>1. u \in Ui /\ (u.autoHide => u.visible) /\ ShownOnPurpose(u)
  BY DEF Good, HidesWhenUnused
<1>2. ~ u.autoHide => u.deadline = "none"
  BY DEF Good, HidesWhenUnused
<1> QED BY <1>1, <1>2, UpdateGood

\* A key that is pressed.
LEMMA PressGood ==
  ASSUME NEW u \in Ui, NEW p \in Profile, NEW key \in Path \X Code, NEW answer \in AnswerOf
  PROVE  Good(PressKey(u, p, key, answer))
<1> DEFINE v == [[u EXCEPT !.held = @ \cup {key}] EXCEPT !.active = p]
<1>1. v \in Ui
  BY DEF Ui
<1>2. Good(React(Polled(v, answer)))
  BY <1>1, PolledTyped, ReactGood
<1>3. PressKey(u, p, key, answer) = UpdateDeadline(React(Polled(v, answer)))
  BY DEF PressKey, Touch
<1> QED BY <1>2, <1>3, UpdateKeepsGood

\* Keys that are taken out of those held, whichever, with an update of the
\* deadline.
LEMMA FewerHeldGood ==
  ASSUME NEW u, Good(u), NEW held \in SUBSET (Path \X Code)
  PROVE  Good(UpdateDeadline([u EXCEPT !.held = held]))
<1> DEFINE v == [u EXCEPT !.held = held]
<1>1. v \in Ui /\ (v.autoHide => v.visible) /\ (~ v.autoHide => v.deadline = "none")
  BY DEF Good, Ui, HidesWhenUnused
<1>2. ShownOnPurpose(v)
  BY DEF Good, Ui, ShownOnPurpose, Enabled
<1> QED BY <1>1, <1>2, UpdateGood

LEMMA ReleaseGood ==
  ASSUME NEW u, Good(u), NEW key
  PROVE  Good(ReleaseKey(u, key))
<1>1. u.held \ {key} \in SUBSET (Path \X Code)
  BY DEF Good, Ui
<1>2. ReleaseKey(u, key) = UpdateDeadline([u EXCEPT !.held = u.held \ {key}])
  BY DEF ReleaseKey
<1> QED BY <1>1, <1>2, FewerHeldGood

LEMMA DropGood ==
  ASSUME NEW u, Good(u), NEW d
  PROVE  Good(DropDevice(u, d))
<1> DEFINE held == {k \in u.held : k[1] # d}
<1>1. held \in SUBSET (Path \X Code)
  BY DEF Good, Ui
<1>2. Good(UpdateDeadline([u EXCEPT !.held = held]))
  BY <1>1, FewerHeldGood
<1>3. DropDevice(u, d) = IF [u EXCEPT !.held = held] = u THEN u
                         ELSE UpdateDeadline([u EXCEPT !.held = held])
  BY DEF DropDevice
<1> QED BY <1>2, <1>3

\* An announcement hides the overlay, or leaves it as it is.
LEMMA AnnouncedGood ==
  ASSUME NEW u, Good(u), NEW g \in BOOLEAN
  PROVE  Good(Announced(u, g))
<1>1. CASE g
  <2>1. [u EXCEPT !.suppressed = TRUE] \in Ui
    BY DEF Good, Ui
  <2> QED BY <1>1, <2>1, HideGood DEF Announced
<1>2. CASE ~ g
  BY <1>2 DEF Good, Ui, Announced, HidesWhenUnused, ShownOnPurpose, InputIsHeld, Enabled
<1> QED BY <1>1, <1>2

\* The viewer starts in a good state.
LEMMA InitialGood ==
  ASSUME NEW answer \in AnswerOf, NEW visible \in BOOLEAN
  PROVE  Good(InitialUi(answer, visible))
BY OverlayAssumption DEF Good, Ui, InitialUi, AnswerOf, HidesWhenUnused, ShownOnPurpose,
   InputIsHeld, Enabled

-----------------------------------------------------------------------------
(* The threads *)

\* The invariant.
ViewerInv == TypeOK /\ Good(ui)

\* Every event keeps the UI state good.
LEMMA HandledGood ==
  ASSUME Good(ui), NEW e \in Event, NEW answer \in AnswerOf
  PROVE  Good(Handled(e, answer))
<1>1. CASE \E p \in Profile, d \in Path, c \in Code, b \in BOOLEAN : e = Key(p, d, c, b)
  <2>1. PICK p \in Profile, d \in Path, c \in Code, b \in BOOLEAN : e = Key(p, d, c, b)
    BY <1>1
  <2>2. e.type = "key" /\ e.profile = p /\ e.path = d /\ e.code = c /\ e.pressed = b
    BY <2>1 DEF Key
  <2>3. CASE b
    <3>1. Handled(e, answer) = PressKey(ui, p, <<d, c>>, answer)
      BY <2>2, <2>3 DEF Handled
    <3> QED BY <3>1, PressGood DEF Good
  <2>4. CASE ~ b
    <3>1. Handled(e, answer) = ReleaseKey(ui, <<d, c>>)
      BY <2>2, <2>4 DEF Handled
    <3> QED BY <3>1, ReleaseGood
  <2> QED BY <2>3, <2>4
<1>2. CASE \E p \in Profile, l \in Layer : e = LayerIs(p, l)
  <2>1. PICK p \in Profile, l \in Layer : e = LayerIs(p, l)
    BY <1>2
  <2>2. e.type = "layer" /\ e.profile = p /\ e.layer = l
    BY <2>1 DEF LayerIs
  <2>3. Handled(e, answer) = SetLayer(ui, p, l, answer) /\ l \in Nat
    BY <2>2, OverlayAssumption DEF Handled
  <2> QED BY <2>3, SetLayerGood
<1>3. CASE \E d \in Path : e = Gone(d)
  <2>1. PICK d \in Path : e = Gone(d)
    BY <1>3
  <2>2. e.type = "gone" /\ e.path = d
    BY <2>1 DEF Gone
  <2>3. Handled(e, answer) = DropDevice(ui, d)
    BY <2>2 DEF Handled
  <2> QED BY <2>3, DropGood
<1>4. CASE \E g \in BOOLEAN : e = Submap(g)
  <2>1. PICK g \in BOOLEAN : e = Submap(g)
    BY <1>4
  <2>2. e.type = "submap" /\ e.game = g
    BY <2>1 DEF Submap
  <2>3. Handled(e, answer) = Announced(ui, g)
    BY <2>2 DEF Handled
  <2> QED BY <2>3, AnnouncedGood
<1>5. CASE \E c \in {"activity", "hide"} : e = Command(c)
  <2>1. PICK c \in {"activity", "hide"} : e = Command(c)
    BY <1>5
  <2>2. e.type = c
    BY <2>1 DEF Command
  <2>3. CASE c = "activity"
    <3>1. Handled(e, answer) = Activity(ui, answer)
      BY <2>2, <2>3 DEF Handled
    <3> QED BY <3>1, ActivityGood DEF Good
  <2>4. CASE c = "hide"
    <3>1. Handled(e, answer) = Hide(ui)
      BY <2>2, <2>4 DEF Handled
    <3> QED BY <3>1, HideGood DEF Good
  <2> QED BY <2>3, <2>4
<1> QED BY <1>1, <1>2, <1>3, <1>4, <1>5 DEF Event

\* What a reader is named by.
LEMMA ReaderParts ==
  /\ \A r \in Reader : r[2] \in Profile /\ r[3] \in Path
  /\ \A r \in KeyReader : r \in Reader
  /\ \A r \in LayerReader : r \in Reader
<1>1. LayerHid \subseteq Profile
  BY ViewerAssumption
<1> QED BY <1>1 DEF Reader, KeyReader, LayerReader

\* What may be sent is an event.
LEMMA Events ==
  /\ \A p \in Profile, d \in Path, c \in Code, b \in BOOLEAN : Key(p, d, c, b) \in Event
  /\ \A p \in Profile, l \in Layer : LayerIs(p, l) \in Event
  /\ \A d \in Path : Gone(d) \in Event
  /\ \A g \in BOOLEAN : Submap(g) \in Event
  /\ \A c \in {"activity", "hide"} : Command(c) \in Event
BY DEF Event

\* Sending an event keeps the channel one of events.
LEMMA SendTyped ==
  ASSUME NEW e \in Event, channel \in Seq(Event), Send(<<e>>)
  PROVE  channel' \in Seq(Event)
BY DEF Send

\* The first event of a sequence is one, and so are those that follow.
LEMMA HeadTail ==
  ASSUME NEW S, NEW q \in Seq(S), q # <<>>
  PROVE  Head(q) \in S /\ Tail(q) \in Seq(S)
OBVIOUS

\* Appending keeps a sequence typed.
LEMMA AppendTyped ==
  ASSUME NEW S, NEW q \in Seq(S), NEW e \in S
  PROVE  Append(q, e) \in Seq(S)
OBVIOUS

LEMMA InitViewer == Init => ViewerInv
<1> SUFFICES ASSUME Init PROVE ViewerInv
  OBVIOUS
<1>1. PICK visible \in BOOLEAN, answer \in {game, NoAnswer} : ui = InitialUi(answer, visible)
  BY DEF Init
<1>2. game \in BOOLEAN /\ answer \in AnswerOf
  BY <1>1 DEF Init, AnswerOf
<1>3. Good(ui)
  BY <1>1, <1>2, InitialGood
<1>4. ui \in Ui /\ unheard \in BOOLEAN
  BY <1>3 DEF Good, Init
<1>5. TypeOK
  BY <1>2, <1>4, OverlayAssumption DEF Init, TypeOK
<1> QED BY <1>3, <1>5 DEF ViewerInv

\* A key event, queued, keeps the types of what the kernel holds.
LEMMA QueueKeyTyped ==
  ASSUME TypeOK, NEW d \in Path, NEW c \in Code, NEW b \in BOOLEAN, at[d] # None,
         QueueKey(d, c, b)
  PROVE  /\ input' \in [Path -> Seq(Event)]
         /\ read' \in [Path -> SUBSET Code]
         /\ missed' \subseteq {"keys", "layer"} \X Path
<1> DEFINE e == Key(at[d], d, c, b)
<1>1. at[d] \in Profile
  BY DEF TypeOK
<1>2. e \in Event
  BY <1>1, Events
<1>3. CASE ~ Reads(KeysOf(d))
  BY <1>3 DEF QueueKey, TypeOK
<1>4. CASE Reads(KeysOf(d))
  <2>1. read' \in [Path -> SUBSET Code]
    <3>1. read' = [read EXCEPT ![d] = IF b THEN @ \cup {c} ELSE @ \ {c}]
      BY <1>4 DEF QueueKey
    <3>2. read[d] \cup {c} \in SUBSET Code /\ read[d] \ {c} \in SUBSET Code
      BY DEF TypeOK
    <3> QED BY <3>1, <3>2 DEF TypeOK
  <2>2. CASE Len(input[d]) < Depth
    <3>1. input' = [input EXCEPT ![d] = Append(@, e)] /\ missed' = missed
      BY <1>4, <2>2 DEF QueueKey
    <3> HIDE DEF e
    <3> QED BY <1>2, <2>1, <3>1 DEF TypeOK
  <2>3. CASE ~ (Len(input[d]) < Depth)
    <3>1. input' = [input EXCEPT ![d] = <<e>>] /\ missed' = missed \cup {<<"keys", d>>}
      BY <1>4, <2>3 DEF QueueKey
    <3> HIDE DEF e
    <3> QED BY <1>2, <2>1, <3>1 DEF TypeOK
  <2> QED BY <2>2, <2>3
<1> QED BY <1>3, <1>4

LEMMA StepViewer == ViewerInv /\ [Next]_vars => ViewerInv'
<1> SUFFICES ASSUME ViewerInv, [Next]_vars PROVE ViewerInv'
  OBVIOUS
<1> USE DEF ViewerInv
<1>1. ASSUME NEW d \in Path, Plug(d) PROVE ViewerInv'
  <2>1. \A r \in Reader : reader[r] = "open" => r[3] # d
    BY <1>1, ReaderParts, ViewerAssumption DEF Plug, TypeOK
  <2>2. TypeOK'
    BY <1>1, <2>1, ReaderParts DEF Plug, TypeOK, compositor
  <2>3. ui' = ui
    BY <1>1 DEF Plug
  <2> QED BY <2>2, <2>3
<1>2. ASSUME NEW d \in Path, Unplug(d) PROVE ViewerInv'
  <2>1. \A r \in Reader : reader'[r] = "open" => reader[r] = "open" /\ r[3] # d
    BY <1>2 DEF Unplug
  <2>2. reader' \in [Reader -> {"none", "open", "dead"}]
    BY <1>2 DEF Unplug, TypeOK
  <2>3. at' \in [Path -> Profile \cup {None}] /\ \A r \in Reader : reader'[r] = "open" => at'[r[3]] = r[2]
    BY <1>2, <2>1, ReaderParts DEF Unplug, TypeOK
  <2>4. TypeOK'
    BY <1>2, <2>2, <2>3, OverlayAssumption DEF Unplug, TypeOK, compositor
  <2>5. ui' = ui
    BY <1>2 DEF Unplug
  <2> QED BY <2>4, <2>5
<1>3. ASSUME NEW d \in Path, NEW c \in Code, Press(d, c) PROVE ViewerInv'
  <2>1. at[d] # None /\ QueueKey(d, c, TRUE)
    BY <1>3 DEF Press
  <2>2. TypeOK' /\ ui' = ui
    BY <1>3, <2>1, QueueKeyTyped DEF Press, TypeOK, compositor
  <2> QED BY <2>2
<1>4. ASSUME NEW d \in Path, NEW c \in Code, Release(d, c) PROVE ViewerInv'
  <2>1. at[d] # None \/ ~ Reads(KeysOf(d))
    BY <1>4, ReaderParts, ViewerAssumption DEF TypeOK, Reads, KeysOf
  <2>2. /\ input' \in [Path -> Seq(Event)] /\ read' \in [Path -> SUBSET Code]
        /\ missed' \subseteq {"keys", "layer"} \X Path
    <3>1. CASE at[d] # None
      BY <1>4, <3>1, QueueKeyTyped DEF Release
    <3>2. CASE ~ Reads(KeysOf(d))
      BY <1>4, <3>2 DEF Release, QueueKey, TypeOK
    <3> QED BY <2>1, <3>1, <3>2
  <2>3. TypeOK' /\ ui' = ui
    BY <1>4, <2>2 DEF Release, TypeOK, compositor
  <2> QED BY <2>3
<1>5. ASSUME NEW d \in Path, NEW l \in Layer, Shift(d, l) PROVE ViewerInv'
  <2>1. reports' \in [Path -> Seq(Layer)] /\ missed' \subseteq {"keys", "layer"} \X Path
    <3>1. CASE reports' = [reports EXCEPT ![d] = Append(@, l)] /\ missed' = missed
      <4>1. reports[d] \in Seq(Layer)
        BY DEF TypeOK
      <4>2. Append(reports[d], l) \in Seq(Layer)
        BY <4>1, AppendTyped
      <4> QED BY <3>1, <4>2 DEF TypeOK
    <3>2. CASE missed' = missed \cup {<<"layer", d>>} /\ reports' = reports
      BY <3>2 DEF TypeOK
    <3>3. CASE missed' = missed /\ reports' = reports
      BY <3>3 DEF TypeOK
    <3> QED BY <1>5, <3>1, <3>2, <3>3 DEF Shift, QueueReport
  <2>2. TypeOK' /\ ui' = ui
    BY <1>5, <2>1 DEF Shift, TypeOK, compositor
  <2> QED BY <2>2
<1>6. ASSUME Switch PROVE ViewerInv'
  <2>1. game' \in BOOLEAN
    BY <1>6 DEF Switch
  <2>2. announced' \in Seq(BOOLEAN)
    BY <1>6, <2>1, AppendTyped DEF Switch, TypeOK
  <2>3. TypeOK' /\ ui' = ui
    BY <1>6, <2>1, <2>2 DEF Switch, TypeOK, keyboards, kernel
  <2> QED BY <2>3
<1>7. ASSUME Control PROVE ViewerInv'
  <2>1. PICK answer \in {game, NoAnswer}, hide \in BOOLEAN :
           Send(<<Command(IF hide \/ answer = TRUE THEN "hide" ELSE "activity")>>)
    BY <1>7 DEF Control
  <2>2. Command(IF hide \/ answer = TRUE THEN "hide" ELSE "activity") \in Event
    BY Events
  <2>3. channel' \in Seq(Event)
    BY <2>1, <2>2, SendTyped DEF TypeOK
  <2>4. TypeOK' /\ ui' = ui
    BY <1>7, <2>3 DEF Control, TypeOK, keyboards, kernel, compositor
  <2> QED BY <2>4
<1>8. ASSUME NEW r \in Reader, Watch(r) PROVE ViewerInv'
  <2>1. r[2] \in Profile /\ r[3] \in Path
    BY ReaderParts
  <2>2. reports' \in [Path -> Seq(Layer)]
    BY <1>8, <2>1 DEF Watch, TypeOK
  <2>3. TypeOK' /\ ui' = ui
    BY <1>8, <2>1, <2>2 DEF Watch, TypeOK, keyboards, compositor
  <2> QED BY <2>3
<1>9. ASSUME NEW r \in Reader, ReadKey(r) PROVE ViewerInv'
  <2>1. r[3] \in Path
    BY ReaderParts
  <2>2. input[r[3]] \in Seq(Event) /\ input[r[3]] # <<>>
    BY <1>9, <2>1 DEF ReadKey, TypeOK
  <2>3. Head(input[r[3]]) \in Event /\ Tail(input[r[3]]) \in Seq(Event)
    BY <2>2, HeadTail
  <2>4. channel' \in Seq(Event)
    BY <1>9, <2>3, SendTyped DEF ReadKey, TypeOK
  <2>5. TypeOK' /\ ui' = ui
    BY <1>9, <2>1, <2>3, <2>4 DEF ReadKey, TypeOK, keyboards, compositor
  <2> QED BY <2>5
<1>10. ASSUME NEW r \in Reader, ReadReport(r) PROVE ViewerInv'
  <2>1. r[2] \in Profile /\ r[3] \in Path
    BY ReaderParts
  <2>2. reports[r[3]] \in Seq(Layer) /\ reports[r[3]] # <<>>
    BY <1>10, <2>1 DEF ReadReport, TypeOK
  <2>3. Head(reports[r[3]]) \in Layer /\ Tail(reports[r[3]]) \in Seq(Layer)
    BY <2>2, HeadTail
  <2>4. channel' \in Seq(Event)
    BY <1>10, <2>1, <2>3, SendTyped, Events DEF ReadReport, TypeOK
  <2>5. TypeOK' /\ ui' = ui
    BY <1>10, <2>1, <2>3, <2>4 DEF ReadReport, TypeOK, keyboards, compositor
  <2> QED BY <2>5
<1>11. ASSUME NEW r \in Reader, Quit(r) PROVE ViewerInv'
  <2>1. r[3] \in Path
    BY ReaderParts
  <2>2. channel' \in Seq(Event)
    BY <1>11, <2>1, SendTyped, Events DEF Quit, TypeOK
  <2>3. TypeOK' /\ ui' = ui
    BY <1>11, <2>2 DEF Quit, TypeOK, keyboards, kernel, compositor
  <2> QED BY <2>3
<1>12. ASSUME Hear PROVE ViewerInv'
  <2>1. Head(announced) \in BOOLEAN /\ Tail(announced) \in Seq(BOOLEAN)
    BY <1>12, HeadTail DEF Hear, TypeOK
  <2>2. channel' \in Seq(Event)
    BY <1>12, <2>1, SendTyped, Events DEF Hear, TypeOK
  <2>3. TypeOK' /\ ui' = ui
    BY <1>12, <2>1, <2>2 DEF Hear, TypeOK, keyboards, kernel
  <2> QED BY <2>3
<1>13. ASSUME Handle PROVE ViewerInv'
  <2>1. Head(channel) \in Event /\ Tail(channel) \in Seq(Event)
    BY <1>13, HeadTail DEF Handle, TypeOK
  <2>2. PICK answer \in {game, NoAnswer} :
          /\ ui' = Handled(Head(channel), answer)
          /\ unheard' = (unheard /\ ~ (Polls(Head(channel)) /\ answer = game))
    BY <1>13 DEF Handle
  <2>3. answer \in AnswerOf
    BY DEF AnswerOf, TypeOK
  <2>4. Good(ui')
    BY <2>1, <2>2, <2>3, HandledGood
  <2>5. ui' \in Ui /\ unheard' \in BOOLEAN
    BY <2>2, <2>4 DEF Good
  <2>6. TypeOK'
    BY <1>13, <2>1, <2>5 DEF Handle, TypeOK, keyboards, kernel
  <2> QED BY <2>4, <2>6
<1>14. ASSUME Pass PROVE ViewerInv'
  <2>1. ui' = [ui EXCEPT !.deadline = "passed"] /\ ui.deadline = "ahead"
    BY <1>14 DEF Pass
  <2>2. Good(ui')
    BY <2>1 DEF Good, Ui, HidesWhenUnused, ShownOnPurpose, InputIsHeld, Enabled
  <2>3. TypeOK'
    BY <1>14, <2>2 DEF Pass, Good, TypeOK, keyboards, kernel, compositor
  <2> QED BY <2>2, <2>3
<1>15. ASSUME Expire PROVE ViewerInv'
  <2>1. Good(ui')
    BY <1>15, HideGood DEF Expire, Good
  <2>2. TypeOK'
    BY <1>15, <2>1 DEF Expire, Good, TypeOK, keyboards, kernel, compositor
  <2> QED BY <2>1, <2>2
<1>16. CASE UNCHANGED vars
  <2>1. TypeOK' /\ ui' = ui
    BY <1>16 DEF vars, TypeOK
  <2> QED BY <2>1
<1> QED BY <1>1, <1>2, <1>3, <1>4, <1>5, <1>6, <1>7, <1>8, <1>9, <1>10, <1>11, <1>12, <1>13,
           <1>14, <1>15, <1>16 DEF Next, World, ReaderStep

-----------------------------------------------------------------------------
(* Sequences of events, seen from one key *)

LEMMA CatParts ==
  ASSUME NEW a \in Seq(Event), NEW b \in Seq(Event)
  PROVE  /\ a \o b \in Seq(Event) /\ Len(a) \in Nat /\ Len(b) \in Nat
         /\ Len(a \o b) = Len(a) + Len(b)
         /\ \A i \in 1..Len(a) : (a \o b)[i] = a[i]
         /\ \A i \in 1..Len(b) : (a \o b)[Len(a) + i] = b[i]
         /\ \A i \in 1..Len(a \o b) : i \notin 1..Len(a) => i - Len(a) \in 1..Len(b)
OBVIOUS

\* A sequence is silent if both of its parts are.
LEMMA SilentCat ==
  ASSUME NEW a \in Seq(Event), NEW b \in Seq(Event), NEW d, NEW c
  PROVE  Silent(a \o b, d, c) <=> Silent(a, d, c) /\ Silent(b, d, c)
<1>1. ASSUME Silent(a \o b, d, c) PROVE Silent(a, d, c) /\ Silent(b, d, c)
  <2>1. \A i \in 1..Len(a) : i \in 1..Len(a \o b)
    BY CatParts
  <2>2. \A i \in 1..Len(b) : Len(a) + i \in 1..Len(a \o b)
    BY CatParts
  <2> QED BY <1>1, <2>1, <2>2, CatParts DEF Silent
<1>2. ASSUME Silent(a, d, c), Silent(b, d, c) PROVE Silent(a \o b, d, c)
  <2> SUFFICES ASSUME NEW i \in 1..Len(a \o b) PROVE ~ Concerns((a \o b)[i], d, c)
    BY DEF Silent
  <2>1. CASE i \in 1..Len(a)
    BY <1>2, <2>1, CatParts DEF Silent
  <2>2. CASE i \notin 1..Len(a)
    <3>1. i - Len(a) \in 1..Len(b) /\ Len(a) + (i - Len(a)) = i
      BY <2>2, CatParts
    <3>2. (a \o b)[i] = b[i - Len(a)]
      BY <3>1, CatParts
    <3> QED BY <1>2, <3>1, <3>2 DEF Silent
  <2> QED BY <2>1, <2>2
<1> QED BY <1>1, <1>2

\* The event tells that the key is down.
Tells(e, d, c) == Concerns(e, d, c) /\ e.type = "key" /\ e.pressed

\* It ends with the key down if its second part does, or says nothing and the
\* first part does.
LEMMA EndsCat ==
  ASSUME NEW a \in Seq(Event), NEW b \in Seq(Event), NEW d, NEW c
  PROVE  EndsDown(a \o b, d, c) <=>
           EndsDown(b, d, c) \/ (Silent(b, d, c) /\ EndsDown(a, d, c))
<1> DEFINE ab == a \o b
<1>0. \A es : EndsDown(es, d, c) <=>
        \E i \in 1..Len(es) : Tells(es[i], d, c) /\ \A j \in 1..Len(es) : j > i => ~ Concerns(es[j], d, c)
  BY DEF EndsDown, Tells
<1>1. ASSUME EndsDown(ab, d, c)
      PROVE  EndsDown(b, d, c) \/ (Silent(b, d, c) /\ EndsDown(a, d, c))
  <2>1. PICK i \in 1..Len(ab) : Tells(ab[i], d, c)
                                /\ \A j \in 1..Len(ab) : j > i => ~ Concerns(ab[j], d, c)
    BY <1>0, <1>1
  <2>2. CASE i \in 1..Len(a)
    <3>1. ASSUME NEW j \in 1..Len(b) PROVE ~ Concerns(b[j], d, c)
      <4>1. Len(a) + j \in 1..Len(ab) /\ Len(a) + j > i
        BY <2>2, CatParts
      <4> QED BY <2>1, <4>1, CatParts
    <3>2. ASSUME NEW j \in 1..Len(a), j > i PROVE ~ Concerns(a[j], d, c)
      <4>1. j \in 1..Len(ab)
        BY CatParts
      <4> QED BY <2>1, <3>2, <4>1, CatParts
    <3>3. Tells(a[i], d, c)
      BY <2>1, <2>2, CatParts
    <3> QED BY <1>0, <2>2, <3>1, <3>2, <3>3 DEF Silent
  <2>3. CASE i \notin 1..Len(a)
    <3>1. i - Len(a) \in 1..Len(b) /\ Len(a) + (i - Len(a)) = i
      BY <2>3, CatParts
    <3>2. Tells(b[i - Len(a)], d, c)
      BY <2>1, <3>1, CatParts
    <3>3. ASSUME NEW j \in 1..Len(b), j > i - Len(a) PROVE ~ Concerns(b[j], d, c)
      <4>1. Len(a) + j \in 1..Len(ab) /\ Len(a) + j > i
        BY <3>1, <3>3, CatParts
      <4> QED BY <2>1, <4>1, CatParts
    <3> QED BY <1>0, <3>1, <3>2, <3>3
  <2> QED BY <2>2, <2>3
<1>2. ASSUME EndsDown(b, d, c) PROVE EndsDown(ab, d, c)
  <2>1. PICK i \in 1..Len(b) : Tells(b[i], d, c)
                               /\ \A j \in 1..Len(b) : j > i => ~ Concerns(b[j], d, c)
    BY <1>0, <1>2
  <2>2. Len(a) + i \in 1..Len(ab) /\ Tells(ab[Len(a) + i], d, c)
    BY <2>1, CatParts
  <2>3. ASSUME NEW j \in 1..Len(ab), j > Len(a) + i PROVE ~ Concerns(ab[j], d, c)
    <3>1. j \notin 1..Len(a) /\ j - Len(a) > i
      BY <2>3, CatParts
    <3>2. j - Len(a) \in 1..Len(b) /\ Len(a) + (j - Len(a)) = j
      BY <3>1, CatParts
    <3>3. ab[j] = b[j - Len(a)]
      BY <3>2, CatParts
    <3> QED BY <2>1, <3>1, <3>2, <3>3
  <2> QED BY <1>0, <2>2, <2>3
<1>3. ASSUME Silent(b, d, c), EndsDown(a, d, c) PROVE EndsDown(ab, d, c)
  <2>1. PICK i \in 1..Len(a) : Tells(a[i], d, c)
                               /\ \A j \in 1..Len(a) : j > i => ~ Concerns(a[j], d, c)
    BY <1>0, <1>3
  <2>2. i \in 1..Len(ab) /\ Tells(ab[i], d, c)
    BY <2>1, CatParts
  <2>3. ASSUME NEW j \in 1..Len(ab), j > i PROVE ~ Concerns(ab[j], d, c)
    <3>1. CASE j \in 1..Len(a)
      BY <2>1, <2>3, <3>1, CatParts
    <3>2. CASE j \notin 1..Len(a)
      <4>1. j - Len(a) \in 1..Len(b) /\ Len(a) + (j - Len(a)) = j
        BY <3>2, CatParts
      <4>2. ab[j] = b[j - Len(a)]
        BY <4>1, CatParts
      <4> QED BY <1>3, <4>1, <4>2 DEF Silent
    <3> QED BY <3>1, <3>2
  <2> QED BY <1>0, <2>2, <2>3
<1> QED BY <1>1, <1>2, <1>3

\* One event, and none.
LEMMA OneEvent ==
  ASSUME NEW e, NEW d, NEW c
  PROVE  /\ Silent(<<e>>, d, c) <=> ~ Concerns(e, d, c)
         /\ EndsDown(<<e>>, d, c) <=> Tells(e, d, c)
         /\ Silent(<<>>, d, c) /\ ~ EndsDown(<<>>, d, c)
<1>1. Len(<<e>>) = 1 /\ <<e>>[1] = e /\ Len(<<>>) = 0
  OBVIOUS
<1> QED BY <1>1 DEF Silent, EndsDown, Tells

-----------------------------------------------------------------------------
(* Held keys *)

\* What the GTK thread will think of the key after what is in the channel.
AfterChannel(d, c) ==
  EndsDown(channel, d, c) \/ (Silent(channel, d, c) /\ <<d, c>> \in ui.held)

\* And after what the kernel holds for the reader, too.
AfterInput(d, c) ==
  EndsDown(input[d], d, c) \/ (Silent(input[d], d, c) /\ AfterChannel(d, c))

Open(d) == \E p \in Profile : reader[<<"keys", p, d>>] = "open"
Dead(d) == \E p \in Profile : reader[<<"keys", p, d>>] = "dead"

\* Key events of keyboards at d.
KeysAt(d) == {Key(p, d, c, b) : p \in Profile, c \in Code, b \in BOOLEAN}

\* What is said of one path: what its reader has told of is down; the kernel
\* holds key events of that path for it; without a reader there is nothing to
\* tell; beside a reader of another profile that has not noticed its end, the
\* path counts as reused; and HeldIsDown.
KeysOK(d) ==
  /\ read[d] \subseteq down[d]
  /\ input[d] \in Seq(KeysAt(d))
  /\ ~ Open(d) =>
       /\ input[d] = <<>> /\ read[d] = {} /\ <<"keys", d>> \notin missed
       /\ \A c \in Code : ~ WillBeHeld(d, c)
  /\ at[d] # None =>
       \A q \in Profile : reader[<<"keys", q, d>>] = "dead" /\ q # at[d] => d \in reused
  /\ <<"keys", d>> \notin missed /\ d \notin reused =>
       \A c \in Code : WillBeHeld(d, c) <=> c \in read[d]

\* The end of a reader, if there is one to come, is the last thing said.
LEMMA AheadDead ==
  ASSUME NEW a \in Seq(Event), NEW b \in Seq(Event), NEW d \in Path, NEW c
  PROVE  /\ ~ Silent(a \o b \o <<Gone(d)>>, d, c)
         /\ ~ EndsDown(a \o b \o <<Gone(d)>>, d, c)
<1> DEFINE ab == a \o b
           g == <<Gone(d)>>
<1>1. ab \in Seq(Event) /\ g \in Seq(Event)
  BY Events
<1>2. Concerns(Gone(d), d, c) /\ ~ Tells(Gone(d), d, c)
  BY DEF Concerns, Gone, Tells
<1>3. ~ Silent(g, d, c) /\ ~ EndsDown(g, d, c)
  BY <1>2, OneEvent
<1> HIDE DEF ab, g
<1>4. ~ Silent(ab \o g, d, c) /\ ~ EndsDown(ab \o g, d, c)
  BY <1>1, <1>3, SilentCat, EndsCat
<1> QED BY <1>4 DEF ab, g

LEMMA AheadAlive ==
  ASSUME NEW a \in Seq(Event), NEW b \in Seq(Event), NEW d, NEW c
  PROVE  /\ Silent(a \o b \o <<>>, d, c) <=> Silent(a, d, c) /\ Silent(b, d, c)
         /\ EndsDown(a \o b \o <<>>, d, c) <=>
              EndsDown(b, d, c) \/ (Silent(b, d, c) /\ EndsDown(a, d, c))
<1>1. a \o b \o <<>> = a \o b
  OBVIOUS
<1> QED BY <1>1, SilentCat, EndsCat

LEMMA WillBe ==
  ASSUME TypeOK, NEW d \in Path, NEW c \in Code
  PROVE  WillBeHeld(d, c) <=> ~ Dead(d) /\ AfterInput(d, c)
<1>1. channel \in Seq(Event) /\ input[d] \in Seq(Event)
  BY DEF TypeOK
<1>2. CASE Dead(d)
  <2>1. Ahead(d) = channel \o input[d] \o <<Gone(d)>>
    BY <1>2 DEF Ahead, Dead
  <2>2. ~ Silent(Ahead(d), d, c) /\ ~ EndsDown(Ahead(d), d, c)
    BY <1>1, <2>1, AheadDead
  <2> QED BY <1>2, <2>2 DEF WillBeHeld
<1>3. CASE ~ Dead(d)
  <2>1. Ahead(d) = channel \o input[d] \o <<>>
    BY <1>3 DEF Ahead, Dead
  <2>2. /\ Silent(Ahead(d), d, c) <=> Silent(channel, d, c) /\ Silent(input[d], d, c)
        /\ EndsDown(Ahead(d), d, c) <=>
             EndsDown(input[d], d, c) \/ (Silent(input[d], d, c) /\ EndsDown(channel, d, c))
    BY <1>1, <2>1, AheadAlive
  <2> QED BY <1>3, <2>2 DEF WillBeHeld, AfterInput, AfterChannel
<1> QED BY <1>2, <1>3

LEMMA WillBeNext ==
  ASSUME TypeOK', NEW d \in Path, NEW c \in Code
  PROVE  WillBeHeld(d, c)' <=> ~ Dead(d)' /\ AfterInput(d, c)'
<1>1. channel' \in Seq(Event) /\ input'[d] \in Seq(Event)
  BY DEF TypeOK
<1>2. CASE Dead(d)'
  <2>1. Ahead(d)' = channel' \o input'[d] \o <<Gone(d)>>
    BY <1>2 DEF Ahead, Dead
  <2>2. ~ Silent(Ahead(d)', d, c) /\ ~ EndsDown(Ahead(d)', d, c)
    BY <1>1, <2>1, AheadDead
  <2> QED BY <1>2, <2>2 DEF WillBeHeld
<1>3. CASE ~ Dead(d)'
  <2>1. Ahead(d)' = channel' \o input'[d] \o <<>>
    BY <1>3 DEF Ahead, Dead
  <2>2. /\ Silent(Ahead(d)', d, c) <=> Silent(channel', d, c) /\ Silent(input'[d], d, c)
        /\ EndsDown(Ahead(d)', d, c) <=>
             EndsDown(input'[d], d, c) \/ (Silent(input'[d], d, c) /\ EndsDown(channel', d, c))
    BY <1>1, <2>1, AheadAlive
  <2> QED BY <1>3, <2>2 DEF WillBeHeld, AfterInput, AfterChannel
<1> QED BY <1>2, <1>3

\* What KeysOK says of a path, it says of the channel too: a step that leaves
\* the path alone, and what the GTK thread will think of its keys.
SamePath(d) ==
  /\ read'[d] = read[d] /\ read[d] \subseteq down'[d]
  /\ input'[d] = input[d] /\ at'[d] = at[d]
  /\ \A p \in Profile : reader'[<<"keys", p, d>>] = reader[<<"keys", p, d>>]
  /\ d \in reused' <=> d \in reused
  /\ <<"keys", d>> \in missed' <=> <<"keys", d>> \in missed

LEMMA PathAlone ==
  ASSUME TypeOK, TypeOK', NEW d \in Path, KeysOK(d), SamePath(d),
         \A c \in Code : AfterChannel(d, c)' <=> AfterChannel(d, c)
  PROVE  KeysOK(d)'
<1>1. (Open(d)' <=> Open(d)) /\ (Dead(d)' <=> Dead(d))
  BY DEF SamePath, Open, Dead
<1>2. \A c \in Code : WillBeHeld(d, c)' <=> WillBeHeld(d, c)
  BY <1>1, WillBe, WillBeNext DEF AfterInput, SamePath
<1> QED BY <1>1, <1>2 DEF KeysOK, SamePath

\* The same if the channel is as it was.
LEMMA ChannelAlone ==
  ASSUME channel' = channel, ui'.held = ui.held, NEW d, NEW c
  PROVE  AfterChannel(d, c)' <=> AfterChannel(d, c)
BY DEF AfterChannel

\* An event is sent that does not concern the key, or that tells of its end.
LEMMA SentOn ==
  ASSUME TypeOK, NEW e \in Event, Send(<<e>>), ui'.held = ui.held, NEW d, NEW c
  PROVE  AfterChannel(d, c)' <=> Tells(e, d, c) \/ (~ Concerns(e, d, c) /\ AfterChannel(d, c))
<1>1. channel \in Seq(Event) /\ <<e>> \in Seq(Event) /\ channel' = channel \o <<e>>
  BY DEF TypeOK, Send
<1>2. /\ Silent(channel', d, c) <=> Silent(channel, d, c) /\ ~ Concerns(e, d, c)
      /\ EndsDown(channel', d, c) <=>
           Tells(e, d, c) \/ (~ Concerns(e, d, c) /\ EndsDown(channel, d, c))
  BY <1>1, SilentCat, EndsCat, OneEvent
<1> QED BY <1>2 DEF AfterChannel, Tells

\* Only keys change which keys are held.
LEMMA HeldKept ==
  ASSUME NEW u \in Ui
  PROVE  Hide(u).held = u.held /\ UpdateDeadline(u).held = u.held /\ React(u).held = u.held
<1>1. Hide(u).held = u.held
  BY DEF Hide, Ui
<1>2. \A v \in Ui : UpdateDeadline(v).held = v.held
  BY DEF UpdateDeadline, Ui
<1>3. React(u).held = u.held
  <2> DEFINE v == [u EXCEPT !.visible = TRUE, !.autoHide = TRUE]
  <2>1. v \in Ui /\ v.held = u.held
    BY DEF Ui
  <2>2. UpdateDeadline(v).held = u.held
    BY <1>2, <2>1
  <2> HIDE DEF v
  <2> QED BY <1>1, <2>2 DEF React, v
<1> QED BY <1>1, <1>2, <1>3

LEMMA PolledKept ==
  ASSUME NEW u \in Ui, NEW answer \in AnswerOf
  PROVE  Polled(u, answer) \in Ui /\ Polled(u, answer).held = u.held
         /\ React(Polled(u, answer)).held = u.held
<1>1. Polled(u, answer).held = u.held
  BY DEF Polled, Ui
<1> QED BY <1>1, PolledTyped, HeldKept

\* A handled event does to the keys held what it tells.
LEMMA HandledHeld ==
  ASSUME Good(ui), NEW e \in Event, NEW answer \in AnswerOf, NEW d \in Path, NEW c \in Code
  PROVE  <<d, c>> \in Handled(e, answer).held <=>
           Tells(e, d, c) \/ (~ Concerns(e, d, c) /\ <<d, c>> \in ui.held)
<1>0. ui \in Ui /\ ui.held \in SUBSET (Path \X Code)
  BY DEF Good, Ui
<1>1. CASE \E p \in Profile, x \in Path, k \in Code, b \in BOOLEAN : e = Key(p, x, k, b)
  <2>1. PICK p \in Profile, x \in Path, k \in Code, b \in BOOLEAN : e = Key(p, x, k, b)
    BY <1>1
  <2>2. e.type = "key" /\ e.profile = p /\ e.path = x /\ e.code = k /\ e.pressed = b
    BY <2>1 DEF Key
  <2>3. Concerns(e, d, c) <=> x = d /\ k = c
    BY <2>2 DEF Concerns
  <2>4. CASE b
    <3> DEFINE v == [[ui EXCEPT !.held = @ \cup {<<x, k>>}] EXCEPT !.active = p]
    <3>1. v \in Ui /\ v.held = ui.held \cup {<<x, k>>}
      <4> DEFINE n == [ui EXCEPT !.held = @ \cup {<<x, k>>}]
      <4>1. n \in Ui /\ n.held = ui.held \cup {<<x, k>>}
        BY <1>0 DEF Ui
      <4> HIDE DEF n
      <4>2. [n EXCEPT !.active = p] \in Ui /\ [n EXCEPT !.active = p].held = n.held
        BY <4>1 DEF Ui
      <4> QED BY <4>1, <4>2 DEF n
    <3>2. Good(React(Polled(v, answer))) /\ React(Polled(v, answer)).held = v.held
      BY <3>1, PolledKept, PolledTyped, ReactGood
    <3>3. UpdateDeadline(React(Polled(v, answer))).held = v.held
      BY <3>2, HeldKept DEF Good
    <3>4. Handled(e, answer) = UpdateDeadline(React(Polled(v, answer)))
      BY <2>2, <2>4 DEF Handled, PressKey, Touch
    <3> QED BY <2>2, <2>3, <2>4, <3>1, <3>3, <3>4 DEF Tells
  <2>5. CASE ~ b
    <3> DEFINE v == [ui EXCEPT !.held = @ \ {<<x, k>>}]
    <3>1. v \in Ui /\ v.held = ui.held \ {<<x, k>>}
      BY <1>0 DEF Ui
    <3>2. UpdateDeadline(v).held = v.held
      BY <3>1, HeldKept
    <3>3. Handled(e, answer) = UpdateDeadline(v)
      BY <2>2, <2>5 DEF Handled, ReleaseKey
    <3> QED BY <2>2, <2>3, <2>5, <3>1, <3>2, <3>3 DEF Tells
  <2> QED BY <2>4, <2>5
<1>2. CASE \E x \in Path : e = Gone(x)
  <2>1. PICK x \in Path : e = Gone(x)
    BY <1>2
  <2>2. e.type = "gone" /\ e.path = x
    BY <2>1 DEF Gone
  <2> DEFINE v == [ui EXCEPT !.held = {k \in @ : k[1] # x}]
  <2>3. v \in Ui /\ v.held = {k \in ui.held : k[1] # x}
    BY <1>0 DEF Ui
  <2>4. UpdateDeadline(v).held = v.held
    BY <2>3, HeldKept
  <2>5. Handled(e, answer) = IF v = ui THEN ui ELSE UpdateDeadline(v)
    BY <2>2 DEF Handled, DropDevice
  <2> HIDE DEF v
  <2>6. Handled(e, answer).held = {k \in ui.held : k[1] # x}
    BY <2>3, <2>4, <2>5
  <2> QED BY <2>2, <2>6 DEF Tells, Concerns
<1>3. ASSUME e.type \notin {"key", "gone"}, Handled(e, answer).held = ui.held
      PROVE  <<d, c>> \in Handled(e, answer).held <=>
               Tells(e, d, c) \/ (~ Concerns(e, d, c) /\ <<d, c>> \in ui.held)
  BY <1>3 DEF Tells, Concerns
<1>4. CASE \E p \in Profile, l \in Layer : e = LayerIs(p, l)
  <2>1. PICK p \in Profile, l \in Layer : e = LayerIs(p, l)
    BY <1>4
  <2>2. e.type = "layer" /\ e.profile = p /\ e.layer = l /\ l \in Nat
    BY <2>1, OverlayAssumption DEF LayerIs
  <2> DEFINE v == [ui EXCEPT !.active = p, !.layer[p] = ClampLayer(p, l)]
  <2>3. v \in Ui /\ v.held = ui.held
    BY <1>0, <2>2, ClampTyped DEF Ui
  <2>4. React(Polled(v, answer)).held = ui.held
    BY <2>3, PolledKept
  <2>5. Handled(e, answer) = IF v = ui THEN ui ELSE React(Polled(v, answer))
    BY <2>2 DEF Handled, SetLayer
  <2> HIDE DEF v
  <2> QED BY <1>3, <2>2, <2>4, <2>5
<1>5. CASE \E g \in BOOLEAN : e = Submap(g)
  <2>1. PICK g \in BOOLEAN : e = Submap(g)
    BY <1>5
  <2>2. e.type = "submap" /\ Handled(e, answer) = Announced(ui, g)
    BY <2>1 DEF Submap, Handled
  <2>3. Announced(ui, g).held = ui.held
    BY <1>0 DEF Announced, Hide, Ui
  <2> QED BY <1>3, <2>2, <2>3
<1>6. CASE \E k \in {"activity", "hide"} : e = Command(k)
  <2>1. \/ e.type = "activity" /\ Handled(e, answer) = Activity(ui, answer)
        \/ e.type = "hide" /\ Handled(e, answer) = Hide(ui)
    BY <1>6 DEF Command, Handled
  <2>2. Activity(ui, answer).held = ui.held /\ Hide(ui).held = ui.held
    BY <1>0, PolledKept, HeldKept DEF Activity
  <2> QED BY <1>3, <2>1, <2>2
<1> QED BY <1>1, <1>2, <1>4, <1>5, <1>6 DEF Event

\* The GTK thread takes an event out of the channel: it thinks what it would
\* have thought.
LEMMA HandleOn ==
  ASSUME ViewerInv, Handle, NEW d \in Path, NEW c \in Code
  PROVE  AfterChannel(d, c)' <=> AfterChannel(d, c)
<1> DEFINE e == Head(channel)
<1>1. channel \in Seq(Event) /\ channel # <<>> /\ channel' = Tail(channel)
  BY DEF ViewerInv, TypeOK, Handle
<1>2. e \in Event /\ channel' \in Seq(Event) /\ <<e>> \in Seq(Event)
  BY <1>1, HeadTail
<1>3. channel = <<e>> \o channel'
  BY <1>1
<1>4. PICK answer \in {game, NoAnswer} : ui' = Handled(e, answer)
  BY DEF Handle
<1>5. answer \in AnswerOf
  BY DEF ViewerInv, TypeOK, AnswerOf
<1> HIDE DEF e
<1>6. <<d, c>> \in ui'.held <=> Tells(e, d, c) \/ (~ Concerns(e, d, c) /\ <<d, c>> \in ui.held)
  BY <1>2, <1>4, <1>5, HandledHeld DEF ViewerInv
<1>7. /\ Silent(channel, d, c) <=> ~ Concerns(e, d, c) /\ Silent(channel', d, c)
      /\ EndsDown(channel, d, c) <=>
           EndsDown(channel', d, c) \/ (Silent(channel', d, c) /\ Tells(e, d, c))
  <2>1. /\ Silent(<<e>> \o channel', d, c) <=> ~ Concerns(e, d, c) /\ Silent(channel', d, c)
        /\ EndsDown(<<e>> \o channel', d, c) <=>
             EndsDown(channel', d, c) \/ (Silent(channel', d, c) /\ Tells(e, d, c))
    BY <1>2, SilentCat, EndsCat, OneEvent
  <2> QED BY <1>3, <2>1
<1>8. Tells(e, d, c) => Concerns(e, d, c)
  BY DEF Tells
<1> QED BY <1>6, <1>7, <1>8 DEF AfterChannel

\* A sender whose event is none of the key's.
LEMMA SentElsewhere ==
  ASSUME TypeOK, TypeOK', NEW e \in Event, Send(<<e>>), ui' = ui, NEW d \in Path, KeysOK(d),
         SamePath(d), \A c \in Code : ~ Concerns(e, d, c)
  PROVE  KeysOK(d)'
<1>1. \A c \in Code : AfterChannel(d, c)' <=> AfterChannel(d, c)
  BY SentOn DEF Tells
<1> QED BY <1>1, PathAlone

\* Only the reader of the keyboard that is plugged in is open.
LEMMA OpenIsPlugged ==
  ASSUME TypeOK, NEW d \in Path, Open(d)
  PROVE  at[d] \in Profile /\ at[d] # None /\ reader[KeysOf(d)] = "open" /\ Reads(KeysOf(d))
<1>1. PICK p \in Profile : reader[<<"keys", p, d>>] = "open"
  BY DEF Open
<1>2. <<"keys", p, d>> \in Reader
  BY DEF Reader, KeyReader
<1>3. at[d] = p
  BY <1>1, <1>2 DEF TypeOK
<1> QED BY <1>1, <1>2, <1>3, ViewerAssumption DEF KeysOf, Reads

\* And beside it no reader is dead, unless the path counts as reused.
LEMMA OpenIsAlone ==
  ASSUME TypeOK, NEW d \in Path, KeysOK(d), Open(d), Dead(d)
  PROVE  d \in reused
BY OpenIsPlugged DEF KeysOK, Dead, KeysOf

LEMMA PlugKeys ==
  ASSUME TypeOK, TypeOK', NEW x \in Path, Plug(x), NEW d \in Path, KeysOK(d)
  PROVE  KeysOK(d)'
<1>1. channel' = channel /\ ui' = ui /\ UNCHANGED <<down, input, reader, read, missed>>
  BY DEF Plug
<1>2. \A c \in Code : AfterChannel(d, c)' <=> AfterChannel(d, c)
  BY <1>1, ChannelAlone
<1>3. CASE d # x
  <2>1. SamePath(d)
    BY <1>1, <1>3 DEF Plug, SamePath, TypeOK, KeysOK
  <2> QED BY <1>2, <2>1, PathAlone
<1>4. CASE d = x
  <2>1. ~ Open(d)
    BY <1>4, OpenIsPlugged DEF Plug
  <2>2. (Open(d)' <=> Open(d)) /\ (Dead(d)' <=> Dead(d))
    BY <1>1 DEF Open, Dead
  <2>3. \A c \in Code : WillBeHeld(d, c)' <=> WillBeHeld(d, c)
    BY <1>1, <1>2, <2>2, WillBe, WillBeNext DEF AfterInput
  <2>4. PICK p \in Profile :
          /\ at' = [at EXCEPT ![d] = p]
          /\ reused' = reused \cup {y \in {d} :
               \E q \in Profile \ {p} : reader[<<"keys", q, d>>] = "dead"}
    BY <1>4 DEF Plug
  <2>5. \A q \in Profile : reader'[<<"keys", q, d>>] = "dead" /\ q # at'[d] => d \in reused'
    BY <1>1, <2>4 DEF TypeOK
  <2> QED BY <1>1, <2>1, <2>2, <2>3, <2>5 DEF KeysOK
<1> QED BY <1>3, <1>4

LEMMA UnplugKeys ==
  ASSUME TypeOK, TypeOK', NEW x \in Path, Unplug(x), NEW d \in Path, KeysOK(d)
  PROVE  KeysOK(d)'
<1>0. \A p \in Profile : <<"keys", p, d>> \in Reader
  BY DEF Reader, KeyReader
<1>1. channel' = channel /\ ui' = ui
  BY DEF Unplug
<1>2. \A c \in Code : AfterChannel(d, c)' <=> AfterChannel(d, c)
  BY <1>1, ChannelAlone
<1>3. CASE d # x
  <2>1. \A p \in Profile : reader'[<<"keys", p, d>>] = reader[<<"keys", p, d>>]
    BY <1>0, <1>3 DEF Unplug
  <2>2. read'[d] = read[d] /\ down'[d] = down[d] /\ input'[d] = input[d] /\ at'[d] = at[d]
    BY <1>3 DEF Unplug, TypeOK
  <2>3. /\ d \in reused' <=> d \in reused
        /\ <<"keys", d>> \in missed' <=> <<"keys", d>> \in missed
    BY <1>3 DEF Unplug
  <2>4. SamePath(d)
    BY <2>1, <2>2, <2>3 DEF SamePath, KeysOK
  <2> QED BY <1>2, <2>4, PathAlone
<1>4. CASE d = x
  <2>1. \A p \in Profile : reader'[<<"keys", p, d>>] =
          IF reader[<<"keys", p, d>>] = "open" THEN "dead" ELSE reader[<<"keys", p, d>>]
    BY <1>0, <1>4 DEF Unplug
  <2>2. ~ Open(d)' /\ (Dead(d)' <=> Dead(d) \/ Open(d))
    BY <2>1 DEF Open, Dead
  <2>3. /\ at'[d] = None /\ input'[d] = <<>> /\ read'[d] = {} /\ down'[d] = {}
        /\ <<"keys", d>> \notin missed'
    BY <1>4 DEF Unplug, TypeOK
  <2>4. ASSUME NEW c \in Code PROVE ~ WillBeHeld(d, c)'
    <3>1. CASE Open(d) \/ Dead(d)
      BY <2>2, <3>1, WillBeNext
    <3>2. CASE ~ Open(d) /\ ~ Dead(d)
      <4>1. input[d] = <<>> /\ ~ WillBeHeld(d, c)
        BY <3>2 DEF KeysOK
      <4>2. ~ AfterInput(d, c)'
        BY <1>2, <2>3, <3>2, <4>1, WillBe DEF AfterInput
      <4> QED BY <4>2, WillBeNext
    <3> QED BY <3>1, <3>2
  <2>5. input'[d] \in Seq(KeysAt(d))
    BY <2>3
  <2> QED BY <2>2, <2>3, <2>4, <2>5 DEF KeysOK
<1> QED BY <1>3, <1>4

\* Appending is concatenating.
LEMMA AppendIsCat ==
  ASSUME NEW S, NEW q \in Seq(S), NEW e \in S
  PROVE  Append(q, e) = q \o <<e>> /\ Append(q, e) \in Seq(S) /\ <<e>> \in Seq(S)
OBVIOUS

\* A key event of the path is queued for its open reader.
LEMMA QueueKeys ==
  ASSUME TypeOK, TypeOK', NEW d \in Path, NEW k \in Code, NEW b \in BOOLEAN, KeysOK(d), Open(d),
         QueueKey(d, k, b), UNCHANGED <<at, reader, channel, ui, reused>>,
         read'[d] \subseteq down'[d]
  PROVE  KeysOK(d)'
<1> DEFINE e == Key(at[d], d, k, b)
<1>1. at[d] \in Profile /\ Reads(KeysOf(d))
  BY OpenIsPlugged
<1>2. e \in Event /\ e \in KeysAt(d)
  BY <1>1, Events DEF KeysAt
<1>3. e.type = "key" /\ e.path = d /\ e.code = k /\ e.pressed = b
  BY DEF Key
<1>4. \A c \in Code : (Concerns(e, d, c) <=> c = k) /\ (Tells(e, d, c) <=> c = k /\ b)
  BY <1>3 DEF Concerns, Tells
<1>5. read'[d] = IF b THEN read[d] \cup {k} ELSE read[d] \ {k}
  BY <1>1 DEF QueueKey, TypeOK
<1>6. \/ input'[d] = Append(input[d], e) /\ missed' = missed
      \/ input'[d] = <<e>> /\ <<"keys", d>> \in missed'
  BY <1>1 DEF QueueKey, TypeOK
<1> HIDE DEF e
<1>7. (Open(d)' <=> Open(d)) /\ (Dead(d)' <=> Dead(d))
  BY DEF Open, Dead
<1>8. input'[d] \in Seq(KeysAt(d))
  <2>1. input[d] \in Seq(KeysAt(d))
    BY DEF KeysOK
  <2> QED BY <1>2, <1>6, <2>1, AppendIsCat
<1>9. ASSUME <<"keys", d>> \notin missed', d \notin reused', NEW c \in Code
      PROVE  WillBeHeld(d, c)' <=> c \in read'[d]
  <2>1. ~ Dead(d) /\ <<"keys", d>> \notin missed /\ d \notin reused
    BY <1>6, <1>9, OpenIsAlone
  <2>2. WillBeHeld(d, c) <=> c \in read[d]
    BY <2>1 DEF KeysOK
  <2>3. input'[d] = input[d] \o <<e>> /\ input[d] \in Seq(Event) /\ <<e>> \in Seq(Event)
    <3>1. input[d] \in Seq(Event)
      BY DEF TypeOK
    <3> QED BY <1>2, <1>6, <1>9, <3>1, AppendIsCat
  <2>4. /\ Silent(input'[d], d, c) <=> Silent(input[d], d, c) /\ c # k
        /\ EndsDown(input'[d], d, c) <=> (c = k /\ b) \/ (c # k /\ EndsDown(input[d], d, c))
    <3>1. (Silent(<<e>>, d, c) <=> c # k) /\ (EndsDown(<<e>>, d, c) <=> c = k /\ b)
      BY <1>4, OneEvent
    <3>2. Silent(input[d] \o <<e>>, d, c) <=> Silent(input[d], d, c) /\ Silent(<<e>>, d, c)
      BY <2>3, SilentCat
    <3>3. EndsDown(input[d] \o <<e>>, d, c) <=>
            EndsDown(<<e>>, d, c) \/ (Silent(<<e>>, d, c) /\ EndsDown(input[d], d, c))
      BY <2>3, EndsCat
    <3> QED BY <2>3, <3>1, <3>2, <3>3
  <2>5. AfterChannel(d, c)' <=> AfterChannel(d, c)
    BY ChannelAlone
  <2>6. AfterInput(d, c)' <=> (c = k /\ b) \/ (c # k /\ AfterInput(d, c))
    BY <2>4, <2>5 DEF AfterInput
  <2>7. WillBeHeld(d, c)' <=> (c = k /\ b) \/ (c # k /\ WillBeHeld(d, c))
    BY <1>7, <2>1, <2>6, WillBe, WillBeNext
  <2> QED BY <1>5, <2>2, <2>7
<1> QED BY <1>7, <1>8, <1>9 DEF KeysOK

LEMMA TypeKeys ==
  ASSUME TypeOK, TypeOK', NEW x \in Path, NEW k \in Code, Press(x, k) \/ Release(x, k),
         NEW d \in Path, KeysOK(d)
  PROVE  KeysOK(d)'
<1>1. UNCHANGED <<at, reader, channel, ui, reused>>
  BY DEF Press, Release
<1>2. PICK b \in BOOLEAN : /\ QueueKey(x, k, b)
                           /\ down'[x] = IF b THEN down[x] \cup {k} ELSE down[x] \ {k}
                           /\ \A y \in Path : y # x => down'[y] = down[y]
  BY DEF Press, Release, TypeOK
<1>3. \A c \in Code : AfterChannel(d, c)' <=> AfterChannel(d, c)
  BY <1>1, ChannelAlone
<1>4. CASE d # x
  <2>1. /\ read'[d] = read[d] /\ input'[d] = input[d]
        /\ <<"keys", d>> \in missed' <=> <<"keys", d>> \in missed
    BY <1>2, <1>4 DEF QueueKey, TypeOK
  <2>2. SamePath(d)
    BY <1>1, <1>2, <1>4, <2>1 DEF SamePath, KeysOK
  <2> QED BY <1>3, <2>2, PathAlone
<1>5. CASE d = x /\ Open(d)
  <2>1. Reads(KeysOf(d))
    BY <1>5, OpenIsPlugged
  <2>2. read'[d] = IF b THEN read[d] \cup {k} ELSE read[d] \ {k}
    BY <1>2, <1>5, <2>1 DEF QueueKey, TypeOK
  <2>3. read'[d] \subseteq down'[d]
    BY <1>2, <1>5, <2>2 DEF KeysOK
  <2> QED BY <1>1, <1>2, <1>5, <2>3, QueueKeys
<1>6. CASE d = x /\ ~ Open(d)
  <2>1. ~ Reads(KeysOf(d))
    BY <1>6, ReaderParts DEF Reads, Open, KeysOf, Reader, KeyReader, LayerReader
  <2>2. read[d] = {} /\ UNCHANGED <<input, read, missed>>
    BY <1>2, <1>6, <2>1 DEF QueueKey, KeysOK
  <2>3. SamePath(d)
    BY <1>1, <2>2 DEF SamePath
  <2> QED BY <1>3, <2>3, PathAlone
<1> QED BY <1>4, <1>5, <1>6

\* A sequence is its first element and the rest.
LEMMA HeadTailCat ==
  ASSUME NEW S, NEW q \in Seq(S), q # <<>>
  PROVE  q = <<Head(q)>> \o Tail(q)
OBVIOUS

\* A reader passes on the first event the kernel holds for it.
LEMMA ReadKeys ==
  ASSUME TypeOK, TypeOK', NEW r \in Reader, ReadKey(r), NEW d \in Path, KeysOK(d), KeysOK(r[3])
  PROVE  KeysOK(d)'
<1> DEFINE x == r[3]
           e == Head(input[x])
<1>1. r[2] \in Profile /\ x \in Path
  BY ReaderParts
<1>2. input[x] \in Seq(KeysAt(x)) /\ input[x] # <<>> /\ input[x] \in Seq(Event)
  BY <1>1 DEF ReadKey, KeysOK, TypeOK
<1>3. e \in KeysAt(x) /\ e \in Event
  BY <1>2, HeadTail
<1>4. Send(<<e>>) /\ input' = [input EXCEPT ![x] = Tail(@)]
      /\ UNCHANGED <<at, down, hw, reports, reader, ui, read, missed, reused>>
  BY DEF ReadKey, keyboards
<1>5. input[x] = <<e>> \o Tail(input[x]) /\ Tail(input[x]) \in Seq(Event)
      /\ Tail(input[x]) \in Seq(KeysAt(x)) /\ <<e>> \in Seq(Event)
  <2>1. input[x] = <<e>> \o Tail(input[x])
    BY <1>2, HeadTailCat
  <2>2. Tail(input[x]) \in Seq(Event) /\ Tail(input[x]) \in Seq(KeysAt(x))
    BY <1>2, HeadTail
  <2>3. <<e>> \in Seq(Event)
    BY <1>3, AppendIsCat
  <2> QED BY <2>1, <2>2, <2>3
<1> HIDE DEF e
<1>6. CASE d # x
  <2>1. \A c \in Code : ~ Concerns(e, d, c)
    <3>1. e.type = "key" /\ e.path = x
      BY <1>3 DEF KeysAt, Key
    <3> QED BY <1>6, <3>1 DEF Concerns
  <2>2. SamePath(d)
    BY <1>4, <1>6 DEF SamePath, KeysOK, TypeOK
  <2> QED BY <1>3, <1>4, <2>1, <2>2, SentElsewhere
<1>7. CASE d = x
  <2>1. reader[<<"keys", r[2], d>>] = "open"
    BY <1>7 DEF ReadKey, Reader, KeyReader, LayerReader
  <2>2. Open(d) /\ (Open(d)' <=> Open(d)) /\ (Dead(d)' <=> Dead(d))
    BY <1>1, <1>4, <2>1 DEF Open, Dead
  <2>3. input'[d] = Tail(input[d])
    BY <1>1, <1>4, <1>7 DEF TypeOK
  <2>4. ASSUME NEW c \in Code PROVE AfterInput(d, c)' <=> AfterInput(d, c)
    <3> DEFINE t == Tail(input[d])
    <3>0. t \in Seq(Event) /\ <<e>> \in Seq(Event) /\ input[d] = <<e>> \o t /\ input'[d] = t
      BY <1>5, <1>7, <2>3
    <3> HIDE DEF t
    <3>5. Silent(<<e>> \o t, d, c) <=> Silent(<<e>>, d, c) /\ Silent(t, d, c)
      BY <3>0, SilentCat
    <3>6. EndsDown(<<e>> \o t, d, c) <=>
            EndsDown(t, d, c) \/ (Silent(t, d, c) /\ EndsDown(<<e>>, d, c))
      BY <3>0, EndsCat
    <3>1. Silent(input[d], d, c) <=> ~ Concerns(e, d, c) /\ Silent(input'[d], d, c)
      BY <3>0, <3>5, OneEvent
    <3>2. EndsDown(input[d], d, c) <=>
            EndsDown(input'[d], d, c) \/ (Silent(input'[d], d, c) /\ Tells(e, d, c))
      BY <3>0, <3>6, OneEvent
    <3>3. AfterChannel(d, c)' <=> Tells(e, d, c) \/ (~ Concerns(e, d, c) /\ AfterChannel(d, c))
      BY <1>3, <1>4, SentOn
    <3>4. Tells(e, d, c) => Concerns(e, d, c)
      BY DEF Tells
    <3> QED BY <3>1, <3>2, <3>3, <3>4 DEF AfterInput
  <2>5. \A c \in Code : WillBeHeld(d, c)' <=> WillBeHeld(d, c)
    BY <2>2, <2>4, WillBe, WillBeNext
  <2> QED BY <1>4, <1>5, <1>7, <2>2, <2>3, <2>5 DEF KeysOK
<1> QED BY <1>6, <1>7

\* A reader is started: there was none, so nothing was to be told.
LEMMA WatchKeys ==
  ASSUME TypeOK, TypeOK', NEW r \in Reader, Watch(r), NEW d \in Path, KeysOK(d)
  PROVE  KeysOK(d)'
<1>1. UNCHANGED <<at, down, hw, input, read, missed, reused, channel, ui>>
      /\ reader' = [reader EXCEPT ![r] = "open"] /\ reader[r] = "none" /\ at[r[3]] = r[2]
  BY DEF Watch, keyboards
<1>2. \A c \in Code : AfterChannel(d, c)' <=> AfterChannel(d, c)
  BY <1>1, ChannelAlone
<1>3. \A p \in Profile : <<"keys", p, d>> \in Reader
  BY DEF Reader, KeyReader
<1>4. CASE \A p \in Profile : r # <<"keys", p, d>>
  <2>1. SamePath(d)
    BY <1>1, <1>3, <1>4 DEF SamePath, KeysOK, TypeOK
  <2> QED BY <1>2, <2>1, PathAlone
<1>5. CASE \E p \in Profile : r = <<"keys", p, d>>
  <2>1. PICK p \in Profile : r = <<"keys", p, d>>
    BY <1>5
  <2>2. at[d] = p
    BY <1>1, <2>1
  <2>3. ~ Open(d)
    BY <1>1, <2>1, <2>2, OpenIsPlugged DEF KeysOf
  <2>4. \A q \in Profile : reader'[<<"keys", q, d>>] =
          IF q = p THEN "open" ELSE reader[<<"keys", q, d>>]
    BY <1>1, <1>3, <2>1 DEF TypeOK
  <2>5. Open(d)' /\ (Dead(d)' <=> Dead(d))
    <3>1. \A q \in Profile : reader'[<<"keys", q, d>>] = "dead" <=> reader[<<"keys", q, d>>] = "dead"
      BY <1>1, <2>1, <2>4
    <3>2. reader'[<<"keys", p, d>>] = "open"
      BY <2>4
    <3> QED BY <3>1, <3>2 DEF Open, Dead
  <2>6. \A c \in Code : WillBeHeld(d, c)' <=> WillBeHeld(d, c)
    BY <1>1, <1>2, <2>5, WillBe, WillBeNext DEF AfterInput
  <2> QED BY <1>1, <2>3, <2>4, <2>5, <2>6 DEF KeysOK
<1> QED BY <1>4, <1>5

\* A reader ends, and says so: nothing of its path is held after that.
LEMMA QuitKeys ==
  ASSUME TypeOK, TypeOK', NEW r \in Reader, Quit(r), NEW d \in Path, KeysOK(d)
  PROVE  KeysOK(d)'
<1>1. UNCHANGED <<at, down, hw, input, read, missed, reused, ui>>
      /\ reader' = [reader EXCEPT ![r] = "none"] /\ reader[r] = "dead"
  BY DEF Quit, keyboards, kernel
<1>2. \A p \in Profile : <<"keys", p, d>> \in Reader /\ <<"keys", p, d>> \in KeyReader
  BY DEF Reader, KeyReader
<1>3. r[3] \in Path
  BY ReaderParts
<1>4. CASE \A p \in Profile : r # <<"keys", p, d>>
  <2>1. SamePath(d)
    BY <1>1, <1>2, <1>4 DEF SamePath, KeysOK, TypeOK
  <2>2. CASE r \in KeyReader
    <3>1. r[3] # d /\ Send(<<Gone(r[3])>>)
      BY <1>4, <2>2 DEF Quit, KeyReader
    <3>2. Gone(r[3]) \in Event /\ \A c \in Code : ~ Concerns(Gone(r[3]), d, c)
      BY <1>3, <3>1, Events DEF Gone, Concerns
    <3> QED BY <1>1, <2>1, <3>1, <3>2, SentElsewhere
  <2>3. CASE r \notin KeyReader
    <3>1. channel' = channel
      BY <2>3 DEF Quit
    <3> QED BY <1>1, <2>1, <3>1, ChannelAlone, PathAlone
  <2> QED BY <2>2, <2>3
<1>5. CASE \E p \in Profile : r = <<"keys", p, d>>
  <2>1. PICK p \in Profile : r = <<"keys", p, d>>
    BY <1>5
  <2>2. Send(<<Gone(d)>>) /\ Gone(d) \in Event
    BY <1>2, <2>1, Events DEF Quit
  <2>3. Dead(d)
    BY <1>1, <2>1 DEF Dead
  <2>4. \A q \in Profile : reader'[<<"keys", q, d>>] =
          IF q = p THEN "none" ELSE reader[<<"keys", q, d>>]
    BY <1>1, <1>2, <2>1 DEF TypeOK
  <2>5. Open(d)' <=> Open(d)
    <3>1. \A q \in Profile : reader'[<<"keys", q, d>>] = "open" <=> reader[<<"keys", q, d>>] = "open"
      BY <1>1, <2>1, <2>4
    <3> QED BY <3>1 DEF Open
  <2>6. ASSUME NEW c \in Code, ~ Open(d) PROVE ~ WillBeHeld(d, c)'
    <3>1. input'[d] = <<>>
      BY <1>1, <2>6 DEF KeysOK
    <3>2. Concerns(Gone(d), d, c) /\ ~ Tells(Gone(d), d, c)
      BY DEF Concerns, Tells, Gone
    <3>3. ~ AfterChannel(d, c)'
      BY <1>1, <2>2, <3>2, SentOn
    <3>4. ~ AfterInput(d, c)'
      BY <3>1, <3>3, OneEvent DEF AfterInput
    <3> QED BY <3>4, WillBeNext
  <2>7. Open(d) => d \in reused'
    BY <1>1, <2>3, OpenIsAlone
  <2> QED BY <1>1, <2>4, <2>5, <2>6, <2>7 DEF KeysOK
<1> QED BY <1>4, <1>5

LEMMA StepKeys ==
  ASSUME ViewerInv, ViewerInv', \A y \in Path : KeysOK(y), [Next]_vars, NEW d \in Path
  PROVE  KeysOK(d)'
<1>0. TypeOK /\ TypeOK' /\ KeysOK(d)
  BY DEF ViewerInv
<1>1. ASSUME NEW x \in Path, Plug(x) PROVE KeysOK(d)'
  BY <1>0, <1>1, PlugKeys
<1>2. ASSUME NEW x \in Path, Unplug(x) PROVE KeysOK(d)'
  BY <1>0, <1>2, UnplugKeys
<1>3. ASSUME NEW x \in Path, NEW k \in Code, Press(x, k) \/ Release(x, k) PROVE KeysOK(d)'
  BY <1>0, <1>3, TypeKeys
<1>4. ASSUME NEW x \in Path, NEW l \in Layer, Shift(x, l) PROVE KeysOK(d)'
  <2>1. <<"keys", d>> \in missed' <=> <<"keys", d>> \in missed
    BY <1>4 DEF Shift, QueueReport
  <2>2. SamePath(d) /\ channel' = channel /\ ui' = ui
    BY <1>0, <1>4, <2>1 DEF Shift, SamePath, KeysOK
  <2> QED BY <1>0, <2>2, ChannelAlone, PathAlone
<1>5. CASE Switch \/ Pass \/ Expire \/ UNCHANGED vars
  <2>1. SamePath(d) /\ channel' = channel
    BY <1>0, <1>5 DEF Switch, Pass, Expire, vars, keyboards, kernel, SamePath, KeysOK
  <2>2. ui'.held = ui.held
    BY <1>0, <1>5, HeldKept DEF Switch, Pass, Expire, vars, TypeOK, Ui
  <2> QED BY <1>0, <2>1, <2>2, ChannelAlone, PathAlone
<1>6. ASSUME NEW e \in Event, Send(<<e>>), e.type \notin {"key", "gone"},
             UNCHANGED <<at, down, input, reader, ui, read, missed, reused>>
      PROVE  KeysOK(d)'
  <2>1. SamePath(d)
    BY <1>0, <1>6 DEF SamePath, KeysOK
  <2>2. \A c \in Code : ~ Concerns(e, d, c)
    BY <1>6 DEF Concerns
  <2> QED BY <1>0, <1>6, <2>1, <2>2, SentElsewhere
<1>7. CASE Control
  <2>1. PICK k \in {"activity", "hide"} : Send(<<Command(k)>>)
    BY <1>7 DEF Control
  <2>2. Command(k) \in Event /\ Command(k).type \notin {"key", "gone"}
    BY Events DEF Command
  <2> QED BY <1>6, <1>7, <2>1, <2>2 DEF Control, keyboards, kernel
<1>8. ASSUME NEW r \in Reader, ReadReport(r) PROVE KeysOK(d)'
  <2>1. r[2] \in Profile /\ r[3] \in Path
    BY ReaderParts
  <2>2. reports[r[3]] \in Seq(Layer) /\ reports[r[3]] # <<>>
    BY <1>0, <1>8, <2>1 DEF ReadReport, TypeOK
  <2>3. Head(reports[r[3]]) \in Layer
    BY <2>2, HeadTail
  <2> DEFINE e == LayerIs(r[2], Head(reports[r[3]]))
  <2>4. e \in Event /\ e.type \notin {"key", "gone"}
    BY <2>1, <2>3, Events DEF LayerIs
  <2> HIDE DEF e
  <2>5. Send(<<e>>)
    BY <1>8 DEF ReadReport, e
  <2> QED BY <1>6, <1>8, <2>4, <2>5 DEF ReadReport, keyboards
<1>9. CASE Hear
  <2>1. Head(announced) \in BOOLEAN
    BY <1>0, <1>9, HeadTail DEF Hear, TypeOK
  <2> DEFINE e == Submap(Head(announced))
  <2>2. e \in Event /\ e.type \notin {"key", "gone"}
    BY <2>1, Events DEF Submap
  <2> HIDE DEF e
  <2>3. Send(<<e>>)
    BY <1>9 DEF Hear, e
  <2> QED BY <1>6, <1>9, <2>2, <2>3 DEF Hear, keyboards, kernel
<1>10. ASSUME NEW r \in Reader, ReadKey(r) PROVE KeysOK(d)'
  BY <1>0, <1>10, ReaderParts, ReadKeys
<1>11. ASSUME NEW r \in Reader, Watch(r) PROVE KeysOK(d)'
  BY <1>0, <1>11, WatchKeys
<1>12. ASSUME NEW r \in Reader, Quit(r) PROVE KeysOK(d)'
  BY <1>0, <1>12, QuitKeys
<1>13. CASE Handle
  <2>1. SamePath(d)
    BY <1>0, <1>13 DEF Handle, keyboards, kernel, SamePath, KeysOK
  <2> QED BY <1>0, <1>13, <2>1, HandleOn, PathAlone
<1> QED BY <1>1, <1>2, <1>3, <1>4, <1>5, <1>7, <1>8, <1>9, <1>10, <1>11, <1>12, <1>13
    DEF Next, World, ReaderStep

LEMMA InitKeys == ASSUME Init, NEW d \in Path PROVE KeysOK(d)
<1>1. \A p \in Profile : reader[<<"keys", p, d>>] = "none"
  BY DEF Init, Reader, KeyReader
<1>2. ~ Open(d) /\ ~ Dead(d)
  BY <1>1 DEF Open, Dead
<1>3. input[d] = <<>> /\ read[d] = {} /\ missed = {} /\ at[d] = None /\ down[d] = {}
  BY DEF Init
<1>4. channel = <<>> /\ ui.held = {}
  BY DEF Init, InitialUi
<1>5. \A c \in Code : ~ AfterInput(d, c)
  BY <1>3, <1>4, OneEvent DEF AfterInput, AfterChannel
<1>6. TypeOK
  BY InitViewer DEF ViewerInv
<1>7. \A c \in Code : ~ WillBeHeld(d, c)
  BY <1>5, <1>6, WillBe
<1> QED BY <1>2, <1>3, <1>7 DEF KeysOK

-----------------------------------------------------------------------------
(* Suppression *)

\* No announcement of a submap is among the events, and the last one says g.
NoSubmap(es) == \A i \in 1..Len(es) : es[i].type # "submap"
EndsWith(es, g) ==
  \E i \in 1..Len(es) :
    /\ es[i].type = "submap" /\ es[i].game = g
    /\ \A j \in 1..Len(es) : j > i => es[j].type # "submap"

LEMMA NoSubmapCat ==
  ASSUME NEW a \in Seq(Event), NEW b \in Seq(Event)
  PROVE  NoSubmap(a \o b) <=> NoSubmap(a) /\ NoSubmap(b)
<1>1. ASSUME NoSubmap(a \o b) PROVE NoSubmap(a) /\ NoSubmap(b)
  <2>1. \A i \in 1..Len(a) : i \in 1..Len(a \o b)
    BY CatParts
  <2>2. \A i \in 1..Len(b) : Len(a) + i \in 1..Len(a \o b)
    BY CatParts
  <2>3. \A i \in 1..Len(a) : a[i].type # "submap"
    BY <1>1, <2>1, CatParts DEF NoSubmap
  <2>4. \A i \in 1..Len(b) : b[i].type # "submap"
    BY <1>1, <2>2, CatParts DEF NoSubmap
  <2> QED BY <2>3, <2>4 DEF NoSubmap
<1>2. ASSUME NoSubmap(a), NoSubmap(b) PROVE NoSubmap(a \o b)
  <2> SUFFICES ASSUME NEW i \in 1..Len(a \o b) PROVE (a \o b)[i].type # "submap"
    BY DEF NoSubmap
  <2>1. CASE i \in 1..Len(a)
    BY <1>2, <2>1, CatParts DEF NoSubmap
  <2>2. CASE i \notin 1..Len(a)
    <3>1. i - Len(a) \in 1..Len(b) /\ Len(a) + (i - Len(a)) = i
      BY <2>2, CatParts
    <3>2. (a \o b)[i] = b[i - Len(a)]
      BY <3>1, CatParts
    <3> QED BY <1>2, <3>1, <3>2 DEF NoSubmap
  <2> QED BY <2>1, <2>2
<1> QED BY <1>1, <1>2

\* One event, and none.
LEMMA OneSubmap ==
  ASSUME NEW e, NEW g
  PROVE  /\ NoSubmap(<<e>>) <=> e.type # "submap"
         /\ EndsWith(<<e>>, g) <=> e.type = "submap" /\ e.game = g
         /\ NoSubmap(<<>>) /\ ~ EndsWith(<<>>, g)
<1>1. Len(<<e>>) = 1 /\ <<e>>[1] = e /\ Len(<<>>) = 0
  OBVIOUS
<1> QED BY <1>1 DEF NoSubmap, EndsWith

\* An event at the end decides if it is an announcement, ...
LEMMA SubmapAppended ==
  ASSUME NEW a \in Seq(Event), NEW e \in Event, NEW g
  PROVE  /\ NoSubmap(a \o <<e>>) <=> NoSubmap(a) /\ e.type # "submap"
         /\ EndsWith(a \o <<e>>, g) <=>
              IF e.type = "submap" THEN e.game = g ELSE EndsWith(a, g)
<1> DEFINE ab == a \o <<e>>
           n == Len(a) + 1
<1>1. <<e>> \in Seq(Event) /\ Len(<<e>>) = 1 /\ <<e>>[1] = e
  OBVIOUS
<1>2. /\ Len(a) \in Nat /\ Len(ab) = n /\ ab[n] = e
      /\ \A i \in 1..Len(a) : ab[i] = a[i]
  BY <1>1, CatParts
<1>3. NoSubmap(ab) <=> NoSubmap(a) /\ e.type # "submap"
  BY <1>1, NoSubmapCat, OneSubmap
<1> HIDE DEF ab
<1>4. CASE e.type = "submap"
  <2>1. n \in 1..Len(ab) /\ \A i \in 1..Len(ab) : i # n => n > i
    BY <1>2
  <2>2. EndsWith(ab, g) => e.game = g
    BY <1>2, <1>4, <2>1 DEF EndsWith
  <2>3. e.game = g => EndsWith(ab, g)
    BY <1>2, <1>4, <2>1 DEF EndsWith
  <2> QED BY <1>3, <1>4, <2>2, <2>3 DEF ab
<1>5. CASE e.type # "submap"
  <2>1. \A i \in 1..Len(ab) : i \in 1..Len(a) \/ i = n
    BY <1>2
  <2>2. \A i \in 1..Len(a) : i \in 1..Len(ab)
    BY <1>2
  <2>3. EndsWith(ab, g) <=> EndsWith(a, g)
    BY <1>2, <1>5, <2>1, <2>2 DEF EndsWith
  <2> QED BY <1>3, <1>5, <2>3 DEF ab
<1> QED BY <1>4, <1>5

\* ... and one at the beginning decides if no other announcement follows.
LEMMA SubmapFirst ==
  ASSUME NEW a \in Seq(Event), NEW e \in Event, NEW g
  PROVE  /\ NoSubmap(<<e>> \o a) <=> NoSubmap(a) /\ e.type # "submap"
         /\ EndsWith(<<e>> \o a, g) <=>
              EndsWith(a, g) \/ (NoSubmap(a) /\ e.type = "submap" /\ e.game = g)
<1> DEFINE ab == <<e>> \o a
<1>1. <<e>> \in Seq(Event) /\ Len(<<e>>) = 1 /\ <<e>>[1] = e
  OBVIOUS
<1>2. /\ Len(a) \in Nat /\ Len(ab) = 1 + Len(a) /\ ab[1] = e
      /\ \A i \in 1..Len(a) : 1 + i \in 1..Len(ab) /\ ab[1 + i] = a[i]
      /\ \A i \in 1..Len(ab) : i = 1 \/ (i - 1 \in 1..Len(a) /\ ab[i] = a[i - 1])
  BY <1>1
<1>3. NoSubmap(ab) <=> NoSubmap(a) /\ e.type # "submap"
  BY <1>1, NoSubmapCat, OneSubmap
<1> HIDE DEF ab
<1>4. ASSUME EndsWith(a, g) PROVE EndsWith(ab, g)
  <2>1. PICK i \in 1..Len(a) : a[i].type = "submap" /\ a[i].game = g
                               /\ \A j \in 1..Len(a) : j > i => a[j].type # "submap"
    BY <1>4 DEF EndsWith
  <2>2. 1 + i \in 1..Len(ab) /\ ab[1 + i] = a[i]
    BY <1>2
  <2>3. ASSUME NEW j \in 1..Len(ab), j > 1 + i PROVE ab[j].type # "submap"
    <3>1. j - 1 \in 1..Len(a) /\ ab[j] = a[j - 1] /\ j - 1 > i
      BY <1>2, <2>3
    <3> QED BY <2>1, <3>1
  <2> QED BY <2>1, <2>2, <2>3 DEF EndsWith
<1>5. ASSUME NoSubmap(a), e.type = "submap", e.game = g PROVE EndsWith(ab, g)
  <2>1. 1 \in 1..Len(ab) /\ \A j \in 1..Len(ab) : j > 1 => ab[j].type # "submap"
    BY <1>2, <1>5 DEF NoSubmap
  <2> QED BY <1>2, <1>5, <2>1 DEF EndsWith
<1>6. ASSUME EndsWith(ab, g)
      PROVE  EndsWith(a, g) \/ (NoSubmap(a) /\ e.type = "submap" /\ e.game = g)
  <2>1. PICK i \in 1..Len(ab) : ab[i].type = "submap" /\ ab[i].game = g
                                /\ \A j \in 1..Len(ab) : j > i => ab[j].type # "submap"
    BY <1>6 DEF EndsWith
  <2>2. CASE i = 1
    <3>1. ASSUME NEW j \in 1..Len(a) PROVE a[j].type # "submap"
      <4>1. 1 + j \in 1..Len(ab) /\ ab[1 + j] = a[j] /\ 1 + j > i
        BY <1>2, <2>2
      <4> QED BY <2>1, <4>1
    <3> QED BY <1>2, <2>1, <2>2, <3>1 DEF NoSubmap
  <2>3. CASE i # 1
    <3>1. i - 1 \in 1..Len(a) /\ ab[i] = a[i - 1]
      BY <1>2, <2>3
    <3>2. ASSUME NEW j \in 1..Len(a), j > i - 1 PROVE a[j].type # "submap"
      <4>1. 1 + j \in 1..Len(ab) /\ ab[1 + j] = a[j] /\ 1 + j > i
        BY <1>2, <3>1, <3>2
      <4> QED BY <2>1, <4>1
    <3> QED BY <2>1, <3>1, <3>2 DEF EndsWith
  <2> QED BY <2>2, <2>3
<1> QED BY <1>3, <1>4, <1>5, <1>6 DEF ab

\* The channel and the announcements, put in these words.
Believes(g) == EndsWith(channel, g) \/ (NoSubmap(channel) /\ ui.suppressed = g)

LEMMA AgreesParts ==
  ASSUME TypeOK, NEW g
  PROVE  AgreesWith(g) <=> IF announced # <<>> THEN Last(announced) = g ELSE Believes(g)
<1> DEFINE told == {i \in 1..Len(channel) : channel[i].type = "submap"}
<1>1. Len(channel) \in Nat
  BY DEF TypeOK
<1>2. told = {} <=> NoSubmap(channel)
  BY DEF NoSubmap
<1>3. told = {} => ~ EndsWith(channel, g)
  BY DEF EndsWith
<1>4. EndsWith(channel, g) <=> \E i \in told : channel[i].game = g /\ \A j \in told : j <= i
  BY <1>1 DEF EndsWith
<1>5. AgreesWith(g) <=> IF announced # <<>> THEN Last(announced) = g
                        ELSE IF told = {} THEN ui.suppressed = g
                        ELSE \E i \in told : channel[i].game = g /\ \A j \in told : j <= i
  BY DEF AgreesWith
<1> HIDE DEF told
<1> QED BY <1>2, <1>3, <1>4, <1>5 DEF Believes

\* SubmapAgrees, and that nothing is under way as long as nothing was heard.
SubmapInv ==
  /\ ~ unheard => IF announced # <<>> THEN Last(announced) = game ELSE Believes(game)
  /\ unheard => announced = <<>> /\ NoSubmap(channel)

\* An event is sent that is no announcement, or none is.
LEMMA SubmapSent ==
  ASSUME TypeOK, SubmapInv, NEW e \in Event, Send(<<e>>), e.type # "submap",
         UNCHANGED <<ui, game, announced, unheard>>
  PROVE  SubmapInv'
<1>1. channel \in Seq(Event) /\ channel' = channel \o <<e>>
  BY DEF TypeOK, Send
<1>2. \A g : (NoSubmap(channel') <=> NoSubmap(channel)) /\ (EndsWith(channel', g) <=> EndsWith(channel, g))
  BY <1>1, SubmapAppended
<1> QED BY <1>2 DEF SubmapInv, Believes

\* What handlers do to suppression: only polls and announcements touch it.
LEMMA SuppressedKept ==
  ASSUME NEW u \in Ui
  PROVE  /\ Hide(u).suppressed = u.suppressed /\ UpdateDeadline(u).suppressed = u.suppressed
         /\ React(u).suppressed = u.suppressed
<1>1. Hide(u).suppressed = u.suppressed
  BY DEF Hide, Ui
<1>2. \A v \in Ui : UpdateDeadline(v).suppressed = v.suppressed
  BY DEF UpdateDeadline, Ui
<1>3. React(u).suppressed = u.suppressed
  <2> DEFINE v == [u EXCEPT !.visible = TRUE, !.autoHide = TRUE]
  <2>1. v \in Ui /\ v.suppressed = u.suppressed
    BY DEF Ui
  <2>2. UpdateDeadline(v).suppressed = u.suppressed
    BY <1>2, <2>1
  <2> HIDE DEF v
  <2> QED BY <1>1, <2>2 DEF React, v
<1> QED BY <1>1, <1>2, <1>3

\* A poll that succeeds is believed.
LEMMA PolledBelieved ==
  ASSUME NEW u \in Ui, NEW answer \in AnswerOf
  PROVE  /\ Polled(u, answer) \in Ui
         /\ React(Polled(u, answer)).suppressed =
              IF answer = NoAnswer THEN u.suppressed ELSE answer
<1>1. Polled(u, answer).suppressed = IF answer = NoAnswer THEN u.suppressed ELSE answer
  BY DEF Polled, Ui
<1> QED BY <1>1, PolledTyped, SuppressedKept

\* What an event does to it.
LEMMA HandledSuppressed ==
  ASSUME Good(ui), NEW e \in Event, NEW answer \in AnswerOf
  PROVE  /\ e.type = "submap" => Handled(e, answer).suppressed = e.game
         /\ e.type # "submap" =>
              \/ Handled(e, answer).suppressed = ui.suppressed
              \/ answer # NoAnswer /\ Handled(e, answer).suppressed = answer
         /\ Polls(e) /\ answer # NoAnswer => Handled(e, answer).suppressed = answer
<1>0. ui \in Ui
  BY DEF Good
<1>1. CASE \E p \in Profile, x \in Path, k \in Code, b \in BOOLEAN : e = Key(p, x, k, b)
  <2>1. PICK p \in Profile, x \in Path, k \in Code, b \in BOOLEAN : e = Key(p, x, k, b)
    BY <1>1
  <2>2. e.type = "key" /\ e.profile = p /\ e.path = x /\ e.code = k /\ e.pressed = b
    BY <2>1 DEF Key
  <2>3. CASE b
    <3> DEFINE n == [ui EXCEPT !.held = @ \cup {<<x, k>>}]
               v == [n EXCEPT !.active = p]
    <3>1. n \in Ui /\ n.suppressed = ui.suppressed
      BY <1>0 DEF Ui
    <3> HIDE DEF n
    <3>2. v \in Ui /\ v.suppressed = n.suppressed
      BY <3>1 DEF Ui
    <3> HIDE DEF v
    <3>3. Good(React(Polled(v, answer)))
          /\ React(Polled(v, answer)).suppressed = IF answer = NoAnswer THEN ui.suppressed ELSE answer
      BY <3>1, <3>2, PolledBelieved, PolledTyped, ReactGood
    <3>4. UpdateDeadline(React(Polled(v, answer))).suppressed = React(Polled(v, answer)).suppressed
      BY <3>3, SuppressedKept DEF Good
    <3>5. Handled(e, answer) = UpdateDeadline(React(Polled(v, answer)))
      BY <2>2, <2>3 DEF Handled, PressKey, Touch, v, n
    <3> QED BY <2>2, <3>3, <3>4, <3>5
  <2>4. CASE ~ b
    <3> DEFINE v == [ui EXCEPT !.held = @ \ {<<x, k>>}]
    <3>1. v \in Ui /\ v.suppressed = ui.suppressed
      BY <1>0 DEF Ui
    <3>2. UpdateDeadline(v).suppressed = v.suppressed
      BY <3>1, SuppressedKept
    <3>3. Handled(e, answer) = UpdateDeadline(v) /\ ~ Polls(e)
      BY <2>2, <2>4 DEF Handled, ReleaseKey, Polls
    <3> HIDE DEF v
    <3> QED BY <2>2, <3>1, <3>2, <3>3
  <2> QED BY <2>3, <2>4
<1>2. CASE \E x \in Path : e = Gone(x)
  <2>1. PICK x \in Path : e = Gone(x)
    BY <1>2
  <2>2. e.type = "gone" /\ e.path = x /\ ~ Polls(e)
    BY <2>1 DEF Gone, Polls
  <2> DEFINE v == [ui EXCEPT !.held = {k \in @ : k[1] # x}]
  <2>3. v \in Ui /\ v.suppressed = ui.suppressed
    BY <1>0 DEF Ui
  <2>4. UpdateDeadline(v).suppressed = v.suppressed
    BY <2>3, SuppressedKept
  <2>5. Handled(e, answer) = IF v = ui THEN ui ELSE UpdateDeadline(v)
    BY <2>2 DEF Handled, DropDevice
  <2> HIDE DEF v
  <2> QED BY <2>2, <2>3, <2>4, <2>5
<1>3. CASE \E p \in Profile, l \in Layer : e = LayerIs(p, l)
  <2>1. PICK p \in Profile, l \in Layer : e = LayerIs(p, l)
    BY <1>3
  <2>2. e.type = "layer" /\ e.profile = p /\ e.layer = l /\ l \in Nat
    BY <2>1, OverlayAssumption DEF LayerIs
  <2> DEFINE v == [ui EXCEPT !.active = p, !.layer[p] = ClampLayer(p, l)]
  <2>3. v \in Ui
    BY <1>0, <2>2, ClampTyped DEF Ui
  <2>4. v.suppressed = ui.suppressed
    BY <1>0 DEF Ui
  <2>5. Handled(e, answer) = IF v = ui THEN ui ELSE React(Polled(v, answer))
    BY <2>2 DEF Handled, SetLayer
  <2>6. Polls(e) <=> ui # v
    BY <2>2 DEF Polls
  <2> HIDE DEF v
  <2>7. React(Polled(v, answer)).suppressed = IF answer = NoAnswer THEN ui.suppressed ELSE answer
    BY <2>3, <2>4, PolledBelieved
  <2> QED BY <2>2, <2>5, <2>6, <2>7
<1>4. CASE \E g \in BOOLEAN : e = Submap(g)
  <2>1. PICK g \in BOOLEAN : e = Submap(g)
    BY <1>4
  <2>2. e.type = "submap" /\ e.game = g /\ Handled(e, answer) = Announced(ui, g) /\ ~ Polls(e)
    BY <2>1 DEF Submap, Handled, Polls
  <2>3. Announced(ui, g).suppressed = g
    BY <1>0 DEF Announced, Hide, Ui
  <2> QED BY <2>2, <2>3
<1>5. CASE \E k \in {"activity", "hide"} : e = Command(k)
  <2>1. \/ e.type = "activity" /\ Handled(e, answer) = React(Polled(ui, answer))
        \/ e.type = "hide" /\ Handled(e, answer) = Hide(ui) /\ ~ Polls(e)
    BY <1>5 DEF Command, Handled, Activity, Polls
  <2>2. /\ React(Polled(ui, answer)).suppressed = IF answer = NoAnswer THEN ui.suppressed ELSE answer
        /\ Hide(ui).suppressed = ui.suppressed
    BY <1>0, PolledBelieved, SuppressedKept
  <2> QED BY <2>1, <2>2
<1> QED BY <1>1, <1>2, <1>3, <1>4, <1>5 DEF Event

LEMMA SubmapHandled ==
  ASSUME ViewerInv, SubmapInv, Handle
  PROVE  SubmapInv'
<1> DEFINE e == Head(channel)
           t == Tail(channel)
<1>1. channel \in Seq(Event) /\ channel # <<>> /\ channel' = t
      /\ UNCHANGED <<game, announced>>
  BY DEF ViewerInv, TypeOK, Handle
<1>2. e \in Event /\ t \in Seq(Event) /\ channel = <<e>> \o t
  BY <1>1, HeadTail, HeadTailCat
<1>3. PICK answer \in {game, NoAnswer} :
        ui' = Handled(e, answer) /\ unheard' = (unheard /\ ~ (Polls(e) /\ answer = game))
  BY DEF Handle
<1>4. game \in BOOLEAN /\ answer \in AnswerOf /\ game # NoAnswer
  BY OverlayAssumption DEF ViewerInv, TypeOK, AnswerOf
<1> HIDE DEF e, t
<1>5. /\ e.type = "submap" => ui'.suppressed = e.game
      /\ e.type # "submap" => \/ ui'.suppressed = ui.suppressed
                              \/ answer # NoAnswer /\ ui'.suppressed = answer
      /\ Polls(e) /\ answer # NoAnswer => ui'.suppressed = answer
  BY <1>2, <1>3, <1>4, HandledSuppressed DEF ViewerInv
<1>6. /\ NoSubmap(<<e>> \o t) <=> NoSubmap(t) /\ e.type # "submap"
      /\ EndsWith(<<e>> \o t, game) <=>
           EndsWith(t, game) \/ (NoSubmap(t) /\ e.type = "submap" /\ e.game = game)
  BY <1>2, SubmapFirst
<1>7. /\ NoSubmap(channel) <=> NoSubmap(channel') /\ e.type # "submap"
      /\ EndsWith(channel, game) <=>
           EndsWith(channel', game) \/ (NoSubmap(channel') /\ e.type = "submap" /\ e.game = game)
  BY <1>1, <1>2, <1>6
<1>8. CASE unheard'
  <2>1. unheard
    BY <1>3, <1>8
  <2> QED BY <1>1, <1>7, <1>8, <2>1 DEF SubmapInv
<1>9. CASE ~ unheard' /\ ~ unheard
  <2>1. announced = <<>> => Believes(game)'
    BY <1>1, <1>4, <1>5, <1>7, <1>9 DEF SubmapInv, Believes
  <2> QED BY <1>1, <1>9, <2>1 DEF SubmapInv
<1>10. CASE ~ unheard' /\ unheard
  <2>1. Polls(e) /\ answer = game
    BY <1>3, <1>10
  <2>2. announced = <<>> /\ NoSubmap(channel)
    BY <1>10 DEF SubmapInv
  <2>3. ui'.suppressed = game' /\ NoSubmap(channel')
    BY <1>1, <1>4, <1>5, <1>7, <2>1, <2>2
  <2> QED BY <1>1, <1>10, <2>2, <2>3 DEF SubmapInv, Believes
<1>11. unheard \in BOOLEAN /\ unheard' \in BOOLEAN
  BY <1>3 DEF ViewerInv, TypeOK
<1> QED BY <1>8, <1>9, <1>10, <1>11

\* The ends of sequences.
LEMMA LastParts ==
  ASSUME NEW S, NEW q \in Seq(S), NEW e \in S
  PROVE  /\ Append(q, e) # <<>> /\ Last(Append(q, e)) = e
         /\ q # <<>> => IF Tail(q) = <<>> THEN Last(q) = Head(q) ELSE Last(q) = Last(Tail(q))
<1>1. Append(q, e) # <<>> /\ Last(Append(q, e)) = e
  BY DEF Last
<1>2. ASSUME q # <<>>, Tail(q) = <<>> PROVE Last(q) = Head(q)
  <2>1. Len(q) \in Nat /\ Len(q) # 0 /\ Len(Tail(q)) = Len(q) - 1
    BY <1>2
  <2>2. Len(q) = 1
    BY <1>2, <2>1
  <2> QED BY <2>2 DEF Last
<1>3. ASSUME q # <<>>, Tail(q) # <<>> PROVE Last(q) = Last(Tail(q))
  <2>1. Len(Tail(q)) = Len(q) - 1 /\ Len(q) \in Nat /\ Len(q) > 1
    BY <1>3
  <2>2. Tail(q)[Len(q) - 1] = q[Len(q)]
    BY <2>1
  <2> QED BY <2>1, <2>2 DEF Last
<1> QED BY <1>1, <1>2, <1>3

LEMMA StepSubmap ==
  ASSUME ViewerInv, SubmapInv, \A d \in Path : KeysOK(d), [Next]_vars
  PROVE  SubmapInv'
<1>0. TypeOK
  BY DEF ViewerInv
<1>1. ASSUME UNCHANGED <<channel, game, announced, unheard>>, ui'.suppressed = ui.suppressed
      PROVE  SubmapInv'
  BY <1>1 DEF SubmapInv, Believes
<1>2. ASSUME NEW d \in Path,
             \/ Plug(d) \/ Unplug(d) \/ (\E c \in Code : Press(d, c) \/ Release(d, c))
             \/ \E l \in Layer : Shift(d, l)
      PROVE  SubmapInv'
  <2>1. UNCHANGED <<channel, game, announced, unheard, ui>>
    BY <1>2 DEF Plug, Unplug, Press, Release, Shift, compositor
  <2> QED BY <1>1, <2>1
<1>3. CASE Switch
  <2>1. announced \in Seq(BOOLEAN) /\ game \in BOOLEAN /\ game' = ~ game
    <3>1. announced \in Seq(BOOLEAN) /\ game \in BOOLEAN
      BY <1>0 DEF TypeOK
    <3> QED BY <1>3, <3>1 DEF Switch
  <2>2. game' \in BOOLEAN /\ announced' = Append(announced, game') /\ unheard' = FALSE
    BY <1>3, <2>1 DEF Switch
  <2>3. \A e \in BOOLEAN : Append(announced, e) # <<>> /\ Last(Append(announced, e)) = e
    BY <2>1, LastParts
  <2>4. announced' # <<>> /\ Last(announced') = game'
    BY <2>2, <2>3
  <2> QED BY <2>2, <2>4 DEF SubmapInv
<1>4. CASE Control
  <2>1. PICK k \in {"activity", "hide"} : Send(<<Command(k)>>)
    BY <1>4 DEF Control
  <2>2. Command(k) \in Event /\ Command(k).type # "submap"
    BY Events DEF Command
  <2>3. UNCHANGED <<ui, game, announced, unheard>>
    BY <1>4 DEF Control, compositor
  <2> QED BY <1>0, <2>1, <2>2, <2>3, SubmapSent
<1>5. ASSUME NEW r \in Reader, Watch(r) PROVE SubmapInv'
  <2>1. UNCHANGED <<channel, game, announced, unheard, ui>>
    BY <1>5 DEF Watch, compositor
  <2> QED BY <1>1, <2>1
<1>6. ASSUME NEW r \in Reader, ReadKey(r) PROVE SubmapInv'
  <2>1. r[3] \in Path
    BY ReaderParts
  <2>2. input[r[3]] \in Seq(KeysAt(r[3])) /\ input[r[3]] # <<>> /\ input[r[3]] \in Seq(Event)
    BY <1>0, <1>6, <2>1 DEF KeysOK, ReadKey, TypeOK
  <2> DEFINE e == Head(input[r[3]])
  <2>3. e \in KeysAt(r[3]) /\ e \in Event
    BY <2>2, HeadTail
  <2>4. Send(<<e>>) /\ UNCHANGED <<ui, game, announced, unheard>>
    BY <1>6 DEF ReadKey, compositor
  <2> HIDE DEF e
  <2>5. e.type # "submap"
    BY <2>3 DEF KeysAt, Key
  <2> QED BY <1>0, <2>3, <2>4, <2>5, SubmapSent
<1>7. ASSUME NEW r \in Reader, ReadReport(r) PROVE SubmapInv'
  <2>1. r \in LayerReader /\ r[2] \in Profile /\ r[3] \in Path
    BY <1>7, ViewerAssumption DEF ReadReport, LayerReader
  <2>2. reports[r[3]] \in Seq(Layer) /\ reports[r[3]] # <<>>
    BY <1>0, <1>7, <2>1 DEF TypeOK, ReadReport
  <2> DEFINE l == Head(reports[r[3]])
             e == LayerIs(r[2], l)
  <2>3. l \in Layer
    BY <2>2, HeadTail
  <2>4. Send(<<e>>) /\ UNCHANGED <<ui, game, announced, unheard>>
    BY <1>7 DEF ReadReport, compositor
  <2> HIDE DEF l
  <2>5. e \in Event /\ e.type # "submap"
    BY <2>1, <2>3, Events DEF LayerIs
  <2> HIDE DEF e
  <2> QED BY <1>0, <2>4, <2>5, SubmapSent
<1>8. ASSUME NEW r \in Reader, Quit(r) PROVE SubmapInv'
  <2>1. UNCHANGED <<ui, game, announced, unheard>>
    BY <1>8 DEF Quit, compositor
  <2>2. CASE r \in KeyReader
    <3>1. Send(<<Gone(r[3])>>)
      BY <1>8, <2>2 DEF Quit
    <3>2. Gone(r[3]) \in Event /\ Gone(r[3]).type # "submap"
      BY ReaderParts, Events DEF Gone
    <3> QED BY <1>0, <2>1, <3>1, <3>2, SubmapSent
  <2>3. CASE r \notin KeyReader
    BY <1>1, <1>8, <2>1, <2>3 DEF Quit
  <2> QED BY <2>2, <2>3
<1>9. CASE Hear
  <2> DEFINE e == Submap(Head(announced))
  <2>1. announced \in Seq(BOOLEAN) /\ announced # <<>> /\ channel \in Seq(Event) /\ game \in BOOLEAN
    BY <1>0, <1>9 DEF TypeOK, Hear
  <2>2. Head(announced) \in BOOLEAN /\ e \in Event
    BY <2>1, HeadTail, Events
  <2>3. e.type = "submap" /\ e.game = Head(announced)
    BY DEF Submap
  <2>4. /\ channel' = channel \o <<e>> /\ announced' = Tail(announced)
        /\ UNCHANGED <<ui, game, unheard>>
    BY <1>9 DEF Hear, Send
  <2> HIDE DEF e
  <2>5. EndsWith(channel', game) <=> e.game = game
    BY <2>1, <2>2, <2>3, <2>4, SubmapAppended
  <2>6. ~ unheard /\ Last(announced) = game
    BY <2>1 DEF SubmapInv
  <2>7. IF Tail(announced) = <<>> THEN Last(announced) = Head(announced)
                                  ELSE Last(announced) = Last(Tail(announced))
    BY <2>1, LastParts
  <2> QED BY <2>3, <2>4, <2>5, <2>6, <2>7 DEF SubmapInv, Believes
<1>10. CASE Handle
  BY <1>10, SubmapHandled
<1>11. CASE Pass \/ Expire
  <2>1. ui \in Ui /\ UNCHANGED <<channel, game, announced, unheard>>
    BY <1>0, <1>11 DEF TypeOK, Pass, Expire, compositor
  <2>2. ui'.suppressed = ui.suppressed
    BY <1>11, <2>1, SuppressedKept DEF Pass, Expire, Ui
  <2> QED BY <1>1, <2>1, <2>2
<1>12. CASE UNCHANGED vars
  BY <1>1, <1>12 DEF vars
<1> QED BY <1>2, <1>3, <1>4, <1>5, <1>6, <1>7, <1>8, <1>9, <1>10, <1>11, <1>12
        DEF Next, World, ReaderStep

\* At the start nothing is under way; what was polled is what is believed.
LEMMA InitSubmap == ASSUME Init PROVE SubmapInv
<1>1. channel = <<>> /\ announced = <<>> /\ unheard = (ui.suppressed # game)
  BY DEF Init
<1>2. \A g : EndsWith(<<>>, g) <=> FALSE
  BY DEF EndsWith
<1>3. NoSubmap(<<>>)
  BY DEF NoSubmap
<1> QED BY <1>1, <1>2, <1>3 DEF SubmapInv, Believes

-----------------------------------------------------------------------------
(* What holds in every state *)

\* The inductive invariant of the overlay and of the held keys: types, what the
\* handlers keep of the UI state, and what is under way about each key.
THEOREM ViewerInvariant == Spec => []ViewerInv
<1> QED BY InitViewer, StepViewer, PTL DEF Spec

\* The types, and that only the reader of the keyboard plugged in at a path has
\* an open descriptor (active_paths in watch_input_devices and
\* watch_layer_devices).
THEOREM ViewerTypeCorrect == Spec => []TypeOK
<1>1. ViewerInv => TypeOK
  BY DEF ViewerInv
<1> QED BY <1>1, ViewerInvariant, PTL

\* Whatever keyboards, buffers, polls and commands do: a deadline is set exactly
\* while the overlay is up on account of input and nothing is held
\* (update_auto_hide_deadline after every handler that may change that).
THEOREM HidesWhenUnusedAlways == Spec => []OverlayHidesWhenUnused
<1>1. ViewerInv => OverlayHidesWhenUnused
  BY DEF ViewerInv, Good, OverlayHidesWhenUnused
<1> QED BY <1>1, ViewerInvariant, PTL

\* Input never leaves the overlay up while it is suppressed, or for a layer of
\* any keyboard it is not enabled for (activity_state, set_layer,
\* touch_profile and the submap event).
THEOREM ShownOnPurposeAlways == Spec => []OverlayShownOnPurpose
<1>1. ViewerInv => OverlayShownOnPurpose
  BY DEF ViewerInv, Good, OverlayShownOnPurpose
<1> QED BY <1>1, ViewerInvariant, PTL

\* However often keyboards come and go, at whichever node, and however late
\* their readers notice: once all that is under way has been handled, exactly
\* the keys count as held that are down and whose press the reader could see,
\* unless the kernel dropped events or the node was reused too early
\* (watch_input_devices, read_input_events, handle_event).
THEOREM HeldIsDownAlways == Spec => []HeldIsDown
<1> DEFINE Inv == ViewerInv /\ \A d \in Path : KeysOK(d)
<1>1. Init => Inv
  BY InitViewer, InitKeys
<1>2. Inv /\ [Next]_vars => Inv'
  BY StepViewer, StepKeys
<1>3. Inv => HeldIsDown
  BY DEF HeldIsDown, KeysOK
<1> QED BY <1>1, <1>2, <1>3, PTL DEF Spec

\* However submaps come and go, announcements queue up and polls fail: once all
\* announcements are handled, the GTK thread believes what the compositor does,
\* unless nothing has told of it since a failed poll at the start (the submap
\* event, refresh_submap_suppression and current_hyprland_submap).
THEOREM SubmapAgreesAlways == Spec => []SubmapAgrees
<1> DEFINE Inv == ViewerInv /\ (\A d \in Path : KeysOK(d)) /\ SubmapInv
<1>1. Init => Inv
  BY InitViewer, InitKeys, InitSubmap
<1>2. Inv /\ [Next]_vars => Inv'
  BY StepViewer, StepKeys, StepSubmap
<1>3. Inv => SubmapAgrees
  BY AgreesParts DEF ViewerInv, SubmapInv, SubmapAgrees
<1> QED BY <1>1, <1>2, <1>3, PTL DEF Spec
=============================================================================
