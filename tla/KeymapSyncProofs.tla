-------------------------- MODULE KeymapSyncProofs --------------------------
(***************************************************************************)
(* Proofs about KeymapSync for any number of runs, cells, pages and        *)
(* groups, and for queues of any length.                                   *)
(***************************************************************************)
EXTENDS KeymapSync, TLAPS

(***************************************************************************)
(* Facts about the operators that say where a run goes next.               *)
(***************************************************************************)

\* Entering a stage is always well placed: nothing is under way there.
LEMMA EnterWellPlaced ==
  ASSUME NEW stage \in Stage
  PROVE  Enter(stage) \in RunState /\ WellPlaced(Enter(stage))
BY DEF Enter, RunState, Step, WellPlaced

\* The plans are sequences of non-empty sequences of cells.
LEMMA PlanShape ==
  ASSUME NEW stage \in {"keymap", "via"}
  PROVE  /\ Plan[stage] \in Seq(Seq(Cell))
         /\ 1 \in 1..Len(Plan[stage])
         /\ \A g \in 1..Len(Plan[stage]) :
              Plan[stage][g] \in Seq(Cell) /\ 1 \in 1..Len(Plan[stage][g])
<1>1. /\ KeyGroups \in Seq(Seq(Cell)) /\ KeyGroups # <<>>
      /\ ViaGroups \in Seq(Seq(Cell)) /\ ViaGroups # <<>>
      /\ \A g \in 1..Len(KeyGroups) : KeyGroups[g] # <<>>
      /\ \A g \in 1..Len(ViaGroups) : ViaGroups[g] # <<>>
  BY SyncAssumption
<1>2. CASE stage = "keymap"
  <2>1. Plan[stage] = KeyGroups
    BY <1>2 DEF Plan
  <2> QED BY <1>1, <2>1
<1>3. CASE stage = "via"
  <2>1. Plan[stage] = ViaGroups
    BY <1>3 DEF Plan
  <2> QED BY <1>1, <2>1
<1> QED BY <1>2, <1>3

\* The checks are non-empty sequences of pages.
LEMMA ChecksShape ==
  ASSUME NEW stage \in {"probe", "compat", "keymap"}
  PROVE  Checks[stage] \in Seq(Page) /\ 1 \in 1..Len(Checks[stage])
<1>1. StatusPages \in Seq(Page) /\ StatusPages # <<>> /\ ProtocolPage \in Page
  BY SyncAssumption
<1>2. CASE stage = "probe"
  <2>1. Checks[stage] = <<ProtocolPage>>
    BY <1>2 DEF Checks
  <2> QED BY <1>1, <2>1
<1>3. CASE stage # "probe"
  <2>1. Checks[stage] = StatusPages
    BY <1>3 DEF Checks
  <2> QED BY <1>1, <2>1
<1> QED BY <1>2, <1>3

\* When a move is well placed.
LEMMA MoveWellPlaced ==
  ASSUME NEW s \in RunState, NEW step \in Step, NEW grp \in Nat, NEW pos \in Nat,
         NEW differs \in BOOLEAN,
         step = "check" => s.stage \in DOMAIN Checks /\ pos \in 1..Len(Checks[s.stage]),
         step \in {"read", "write", "verify"} =>
           /\ s.stage \in DOMAIN Plan /\ grp \in 1..Len(Plan[s.stage])
           /\ pos \in 1..Len(Plan[s.stage][grp])
  PROVE  /\ Move(s, step, grp, pos, differs) \in RunState
         /\ WellPlaced(Move(s, step, grp, pos, differs))
<1> DEFINE n == Move(s, step, grp, pos, differs)
<1>1. n \in RunState
  BY DEF Move, RunState
<1>2. /\ n.stage = s.stage /\ n.step = step /\ n.grp = grp
      /\ n.pos = pos /\ n.waiting = FALSE
  BY DEF Move
<1> HIDE DEF n
<1>3. WellPlaced(n)
  BY <1>2 DEF WellPlaced, GroupAt
<1> QED BY <1>1, <1>3 DEF n

\* Where a run that compares or writes stands, with its types at hand.
LEMMA Placed ==
  ASSUME NEW s \in RunState, WellPlaced(s), Running(s),
         s.step \in {"read", "write", "verify"}
  PROVE  /\ s.stage \in {"keymap", "via"} /\ s.stage \in DOMAIN Plan
         /\ Len(Plan[s.stage]) \in Nat /\ s.grp \in 1..Len(Plan[s.stage])
         /\ GroupAt(s) = Plan[s.stage][s.grp]
         /\ Len(GroupAt(s)) \in Nat /\ 1 \in 1..Len(GroupAt(s))
         /\ s.pos \in 1..Len(GroupAt(s))
         /\ CellAt(s) \in Cell
<1>1. /\ s.stage \in {"keymap", "via"} /\ s.stage \in DOMAIN Plan
      /\ s.grp \in 1..Len(Plan[s.stage]) /\ s.pos \in 1..Len(GroupAt(s))
  BY DEF WellPlaced, Plan
<1>2. Plan[s.stage] \in Seq(Seq(Cell))
  BY <1>1, PlanShape
<1>3. GroupAt(s) = Plan[s.stage][s.grp]
  BY DEF GroupAt
<1>4. GroupAt(s) \in Seq(Cell) /\ 1 \in 1..Len(GroupAt(s))
  BY <1>1, <1>3, PlanShape
<1>5. CellAt(s) = GroupAt(s)[s.pos]
  BY DEF CellAt
<1> HIDE DEF Plan, GroupAt
<1>6. Len(Plan[s.stage]) \in Nat
  BY <1>2
<1>7. Len(GroupAt(s)) \in Nat /\ CellAt(s) \in Cell
  BY <1>1, <1>4, <1>5
<1> QED BY <1>1, <1>3, <1>4, <1>6, <1>7

\* Settling a group leaves the run well placed.
LEMMA NextGroupWellPlaced ==
  ASSUME NEW s \in RunState, WellPlaced(s), Running(s),
         s.step \in {"read", "write", "verify"}
  PROVE  NextGroup(s) \in RunState /\ WellPlaced(NextGroup(s))
<1>1. CASE s.grp < Len(Plan[s.stage])
  <2>1. NextGroup(s) = Move(s, "read", s.grp + 1, 1, FALSE)
    BY <1>1 DEF NextGroup
  <2>2. /\ s.stage \in {"keymap", "via"} /\ s.stage \in DOMAIN Plan
        /\ s.grp \in Nat /\ s.grp + 1 \in 1..Len(Plan[s.stage])
    BY <1>1, Placed
  <2>3. 1 \in 1..Len(Plan[s.stage][s.grp + 1])
    BY <2>2, PlanShape
  <2>4. "read" \in Step /\ "read" # "check" /\ s.grp + 1 \in Nat /\ 1 \in Nat
    BY <2>2 DEF Step
  <2>5. /\ Move(s, "read", s.grp + 1, 1, FALSE) \in RunState
        /\ WellPlaced(Move(s, "read", s.grp + 1, 1, FALSE))
    BY <2>2, <2>3, <2>4, MoveWellPlaced
  <2> QED BY <2>1, <2>5
<1>2. CASE ~ (s.grp < Len(Plan[s.stage]))
  BY <1>2, EnterWellPlaced DEF NextGroup, Stage, Ended
<1> QED BY <1>1, <1>2

\* An answer, whatever it carries, leaves the run well placed.
LEMMA AfterAnswerWellPlaced ==
  ASSUME NEW s \in RunState, WellPlaced(s), s.waiting, NEW p, NEW r
  PROVE  AfterAnswer(p, s, r) \in RunState /\ WellPlaced(AfterAnswer(p, s, r))
<1>1. Running(s) /\ s.step \in {"check", "read", "write", "verify"}
  BY DEF WellPlaced, RunState, Step
<1>2. CASE s.step = "check"
  <2> DEFINE same == r.at # HashPage \/ r.val = ExpectedAbi
             differs == s.differs \/ ~ same
  <2>1. AfterAnswer(p, s, r) = AfterPage(s, same)
    BY <1>2 DEF AfterAnswer
  <2>2. /\ s.stage \in {"probe", "compat", "keymap"} /\ s.stage \in DOMAIN Checks
        /\ s.pos \in 1..Len(Checks[s.stage])
    BY <1>1, <1>2 DEF WellPlaced, Checks
  <2>3. Checks[s.stage] \in Seq(Page)
    BY <2>2, ChecksShape
  <2>4. differs \in BOOLEAN
    BY DEF RunState
  <2> HIDE DEF same
  <2>5. CASE s.pos < Len(Checks[s.stage])
    <3>1. s.pos + 1 \in 1..Len(Checks[s.stage]) /\ s.pos + 1 \in Nat
      BY <2>2, <2>3, <2>5
    <3>2. AfterPage(s, same) = Move(s, "check", 1, s.pos + 1, differs)
      BY <2>5 DEF AfterPage
    <3> HIDE DEF differs
    <3> QED BY <2>1, <2>2, <2>4, <3>1, <3>2, MoveWellPlaced DEF Step
  <2>6. CASE ~ (s.pos < Len(Checks[s.stage])) /\ s.stage = "keymap" /\ ~ differs
    <3>1. AfterPage(s, same) = Move(s, "read", 1, 1, FALSE)
      BY <2>6 DEF AfterPage
    <3>2. "keymap" \in DOMAIN Plan /\ 1 \in 1..Len(Plan["keymap"])
          /\ 1 \in 1..Len(Plan["keymap"][1])
      BY PlanShape DEF Plan
    <3> QED BY <2>1, <2>6, <3>1, <3>2, MoveWellPlaced DEF Step
  <2>7. CASE ~ (s.pos < Len(Checks[s.stage])) /\ (s.stage # "keymap" \/ differs)
    <3>1. \E stage \in Stage : AfterPage(s, same) = Enter(stage)
      BY <2>2, <2>7 DEF AfterPage, Stage, Ended
    <3> QED BY <2>1, <3>1, EnterWellPlaced
  <2> QED BY <2>5, <2>6, <2>7
<1>3. CASE s.step \in {"read", "write", "verify"}
  <2>1. /\ s.stage \in DOMAIN Plan /\ s.grp \in 1..Len(Plan[s.stage])
        /\ s.grp \in Nat /\ s.pos \in Nat
        /\ 1 \in 1..Len(GroupAt(s)) /\ GroupAt(s) = Plan[s.stage][s.grp]
    BY <1>1, <1>3, Placed DEF RunState
  <2>2. ~ AtGroupEnd(s) => s.pos + 1 \in 1..Len(GroupAt(s)) /\ s.pos + 1 \in Nat
    BY <1>1, <1>3, Placed DEF AtGroupEnd
  <2> DEFINE same == r.val = Desired[p][CellAt(s)]
             differs == s.differs \/ ~ same
             n == AfterAnswer(p, s, r)
  <2>3. differs \in BOOLEAN
    BY DEF RunState
  <2>4. \/ n = Enter("failed")
        \/ n = NextGroup(s)
        \/ n = Move(s, "write", s.grp, 1, FALSE)
        \/ n = Move(s, "verify", s.grp, 1, FALSE)
        \/ /\ ~ AtGroupEnd(s)
           /\ \E d \in BOOLEAN : n = Move(s, s.step, s.grp, s.pos + 1, d)
    <3>1. CASE s.step = "read"
      BY <2>3, <3>1 DEF AfterAnswer, AfterRead
    <3>2. CASE s.step = "write"
      BY <3>2 DEF AfterAnswer, AfterWrite
    <3>3. CASE s.step = "verify"
      BY <2>3, <3>3 DEF AfterAnswer, AfterVerify
    <3> QED BY <1>3, <3>1, <3>2, <3>3
  <2> HIDE DEF n
  <2>5. CASE n = Enter("failed")
    BY <2>5, EnterWellPlaced DEF n, Stage, Ended
  <2>6. CASE n = NextGroup(s)
    BY <1>1, <1>3, <2>6, NextGroupWellPlaced DEF n
  <2>7. CASE \E step \in {"write", "verify"} : n = Move(s, step, s.grp, 1, FALSE)
    BY <2>1, <2>7, MoveWellPlaced DEF n, Step
  <2>8. CASE ~ AtGroupEnd(s) /\ \E d \in BOOLEAN : n = Move(s, s.step, s.grp, s.pos + 1, d)
    <3>1. PICK d \in BOOLEAN : n = Move(s, s.step, s.grp, s.pos + 1, d)
      BY <2>8
    <3>2. s.step \in Step /\ s.step # "check"
      BY <1>3 DEF Step
    <3>3. s.pos + 1 \in Nat /\ s.pos + 1 \in 1..Len(Plan[s.stage][s.grp])
      BY <2>1, <2>2, <2>8
    <3> QED BY <2>1, <3>1, <3>2, <3>3, MoveWellPlaced DEF n
  <2> QED BY <2>4, <2>5, <2>6, <2>7, <2>8
<1> QED BY <1>1, <1>2, <1>3

(***************************************************************************)
(* Type correctness.                                                       *)
(***************************************************************************)

\* A run under way asks for something the keyboard knows.
LEMMA RequestType ==
  ASSUME NEW p \in Proc, NEW s \in RunState, WellPlaced(s), Running(s), s.step # "open"
  PROVE  RequestAt(p, s) \in Request
<1>1. CASE s.step = "check"
  <2>1. /\ s.stage \in {"probe", "compat", "keymap"}
        /\ s.pos \in 1..Len(Checks[s.stage])
    BY <1>1 DEF WellPlaced, Checks
  <2>2. Checks[s.stage] \in Seq(Page)
    BY <2>1, ChecksShape
  <2>3. Checks[s.stage][s.pos] \in Page
    BY <2>1, <2>2
  <2>4. RequestAt(p, s) = Query(Checks[s.stage][s.pos])
    BY <1>1 DEF RequestAt
  <2> HIDE DEF Checks
  <2> QED BY <2>3, <2>4 DEF Query, Request
<1>2. CASE s.step # "check"
  <2>1. s.step \in {"read", "write", "verify"}
    BY <1>2 DEF RunState, Step
  <2>2. CellAt(s) \in Cell
    BY <2>1, Placed
  <2>3. CASE s.step = "write"
    <3>1. RequestAt(p, s) = Set(CellAt(s), Desired[p][CellAt(s)])
      BY <2>3 DEF RequestAt
    <3>2. Desired[p][CellAt(s)] \in Value
      BY <2>2, SyncAssumption
    <3> QED BY <2>2, <3>1, <3>2 DEF Set, Request
  <2>4. CASE s.step # "write"
    <3>1. RequestAt(p, s) = Get(CellAt(s))
      BY <1>2, <2>4 DEF RequestAt
    <3> QED BY <2>2, <3>1 DEF Get, Request
  <2> QED BY <2>3, <2>4
<1> QED BY <1>1, <1>2

\* What the keyboard answers.
LEMMA AnswerType ==
  ASSUME HidTypeOK, NEW q \in Request
  PROVE  Answer(q) \in Response
<1>1. CASE q.op = "query"
  <2>1. q.at \in Page
    BY <1>1 DEF Request
  <2>2. Answer(q).val \in Abi \cup {None}
    BY <1>1 DEF Answer, HidTypeOK
  <2> QED BY <1>1, <2>1, <2>2 DEF Answer, Response
<1>2. CASE q.op = "get"
  <2>1. q.at \in Cell
    BY <1>2 DEF Request
  <2>2. Answer(q).val \in Value
    BY <1>2, <2>1 DEF Answer, HidTypeOK
  <2> QED BY <1>2, <2>1, <2>2 DEF Answer, Response
<1>3. CASE q.op = "set"
  <2>1. q.at \in Cell /\ q.val \in Value
    BY <1>3 DEF Request
  <2>2. Answer(q).val \in Value
    BY <1>3, <2>1 DEF Answer
  <2> QED BY <1>3, <2>1, <2>2 DEF Answer, Response
<1> QED BY <1>1, <1>2, <1>3 DEF Request

\* The run p is moved to a well-placed state and nobody else moves.
LEMMA RunUpdate ==
  ASSUME TypeOK, NEW p \in Proc, NEW n \in RunState, WellPlaced(n),
         run' = [run EXCEPT ![p] = n]
  PROVE  run' \in [Proc -> RunState] /\ \A o \in Proc : WellPlaced(run'[o])
<1>1. run' \in [Proc -> RunState]
  BY DEF TypeOK
<1>2. ASSUME NEW o \in Proc
      PROVE  WellPlaced(run'[o])
  <2>1. run'[o] = IF o = p THEN n ELSE run[o]
    BY DEF TypeOK
  <2> QED BY <2>1 DEF TypeOK
<1> QED BY <1>1, <1>2

\* The first state is well typed.
LEMMA InitType ==
  ASSUME SyncInit
  PROVE  TypeOK
<1>1. HidTypeOK
  BY DEF SyncInit, HidInit, HidTypeOK
<1>2. Enter("off") \in RunState /\ WellPlaced(Enter("off"))
  BY EnterWellPlaced DEF Stage
<1>3. run \in [Proc -> RunState] /\ \A p \in Proc : WellPlaced(run[p])
  BY <1>2 DEF SyncInit
<1> QED BY <1>1, <1>3 DEF SyncInit, TypeOK

\* The keyboard handles or loses a request.
LEMMA KeyboardType ==
  ASSUME TypeOK, KeyboardStep
  PROVE  TypeOK'
<1> USE DEF HidTypeOK
<1>1. run' = run /\ replaced' = replaced /\ solo' = solo /\ toDevice # <<>>
      /\ toDevice' = Tail(toDevice)
  BY DEF KeyboardStep, Handle, LoseRequest
<1>2. toDevice' \in Seq(Request)
  BY <1>1 DEF TypeOK
<1>3. abi' = abi /\ fd' = fd
  BY DEF KeyboardStep, Handle, LoseRequest
<1>4. reg' \in [Cell -> Value] /\ queue' \in [Proc -> Seq(Response)]
  <2>1. CASE LoseRequest
    BY <2>1 DEF LoseRequest, TypeOK
  <2>2. CASE Handle
    <3> DEFINE q == Head(toDevice)
    <3>1. q \in Request
      BY <1>1 DEF TypeOK
    <3>2. Answer(q) \in Response
      BY <3>1, AnswerType DEF TypeOK
    <3>3. reg' = IF q.op = "set" THEN [reg EXCEPT ![q.at] = q.val] ELSE reg
      BY <2>2 DEF Handle
    <3>4. q.op = "set" => q.at \in Cell /\ q.val \in Value
      BY <3>1 DEF Request
    <3>5. queue' = Broadcast(Answer(q)) \/ queue' = queue
      BY <2>2 DEF Handle
    <3> HIDE DEF q
    <3>6. reg' \in [Cell -> Value]
      BY <3>3, <3>4 DEF TypeOK
    <3>7. Broadcast(Answer(q)) \in [Proc -> Seq(Response)]
      BY <3>2 DEF Broadcast, TypeOK
    <3> QED BY <3>5, <3>6, <3>7 DEF TypeOK
  <2> QED BY <2>1, <2>2 DEF KeyboardStep
<1> QED BY <1>1, <1>2, <1>3, <1>4 DEF TypeOK

\* A keyboard is replaced: descriptors close, and the runs stay as they are.
LEMMA ReplaceType ==
  ASSUME TypeOK, Replace
  PROVE  TypeOK'
BY DEF TypeOK, HidTypeOK, Replace, Reconnect

\* A command starts at the probe.
LEMMA StartType ==
  ASSUME TypeOK, NEW p \in Proc, Start(p)
  PROVE  TypeOK'
<1>1. Enter("probe") \in RunState /\ WellPlaced(Enter("probe"))
  BY EnterWellPlaced DEF Stage
<1>2. run' \in [Proc -> RunState] /\ \A o \in Proc : WellPlaced(run'[o])
  BY <1>1, RunUpdate DEF Start
<1>3. solo' \in Proc \cup {None}
  BY DEF Start
<1>4. HidTypeOK' /\ replaced' \subseteq Proc
  BY DEF Start, TypeOK, HidTypeOK
<1> QED BY <1>2, <1>3, <1>4 DEF TypeOK

\* A command opens the device and is placed at the first step of its stage.
LEMMA OpenType ==
  ASSUME TypeOK, NEW p \in Proc, Open(p)
  PROVE  TypeOK'
<1> DEFINE s == run[p]
           n == Move(s, FirstStep(s.stage), 1, 1, FALSE)
<1>1. s \in RunState /\ Running(s)
  BY DEF Open, Alive, TypeOK
<1>2. s.stage \in {"probe", "compat", "keymap", "via"}
  BY <1>1 DEF Running, RunState, Stage
<1>3. n \in RunState /\ WellPlaced(n)
  <2>1. CASE s.stage = "via"
    <3>1. s.stage \in DOMAIN Plan /\ 1 \in 1..Len(Plan[s.stage])
          /\ 1 \in 1..Len(Plan[s.stage][1])
      BY <2>1, PlanShape DEF Plan
    <3>2. n = Move(s, "read", 1, 1, FALSE)
      BY <2>1 DEF FirstStep
    <3> QED BY <1>1, <3>1, <3>2, MoveWellPlaced DEF Step
  <2>2. CASE s.stage # "via"
    <3>1. s.stage \in DOMAIN Checks /\ 1 \in 1..Len(Checks[s.stage])
      BY <1>2, <2>2, ChecksShape DEF Checks
    <3>2. n = Move(s, "check", 1, 1, FALSE)
      BY <2>2 DEF FirstStep
    <3> QED BY <1>1, <3>1, <3>2, MoveWellPlaced DEF Step
  <2> QED BY <2>1, <2>2
<1>4. run' = [run EXCEPT ![p] = n]
  BY DEF Open
<1> HIDE DEF n
<1>5. run' \in [Proc -> RunState] /\ \A o \in Proc : WellPlaced(run'[o])
  BY <1>3, <1>4, RunUpdate
<1>6. HidTypeOK' /\ replaced' \subseteq Proc /\ solo' \in Proc \cup {None}
  BY DEF Open, OpenHid, TypeOK, HidTypeOK
<1> QED BY <1>5, <1>6 DEF TypeOK

\* A command writes the request of the step it is at.
LEMMA AskType ==
  ASSUME TypeOK, NEW p \in Proc, Ask(p)
  PROVE  TypeOK'
<1> DEFINE s == run[p]
           n == [s EXCEPT !.waiting = TRUE]
<1>1. s \in RunState /\ WellPlaced(s) /\ Running(s) /\ s.step # "open"
  BY DEF Ask, Alive, TypeOK
<1>2. n \in RunState
  BY <1>1 DEF RunState
<1>3. /\ n.stage = s.stage /\ n.step = s.step /\ n.grp = s.grp /\ n.pos = s.pos
  BY <1>1 DEF RunState
<1>4. run' = [run EXCEPT ![p] = n]
  BY DEF Ask
<1> HIDE DEF n
<1>5. WellPlaced(n)
  BY <1>1, <1>3 DEF WellPlaced, Running, GroupAt
<1>6. run' \in [Proc -> RunState] /\ \A o \in Proc : WellPlaced(run'[o])
  BY <1>2, <1>4, <1>5, RunUpdate
<1>7. RequestAt(p, s) \in Request
  BY <1>1, RequestType
<1>8. HidTypeOK' /\ replaced' \subseteq Proc /\ solo' \in Proc \cup {None}
  BY <1>7 DEF Ask, WriteRequest, TypeOK, HidTypeOK
<1> QED BY <1>6, <1>8 DEF TypeOK

\* A command writes that request again.
LEMMA RetryType ==
  ASSUME TypeOK, NEW p \in Proc, Retry(p)
  PROVE  TypeOK'
<1>1. run[p] \in RunState /\ WellPlaced(run[p]) /\ Running(run[p]) /\ run[p].step # "open"
  BY DEF Retry, TypeOK, WellPlaced
<1>2. RequestAt(p, run[p]) \in Request
  BY <1>1, RequestType
<1>3. HidTypeOK'
  BY <1>2 DEF Retry, WriteRequest, TypeOK, HidTypeOK
<1> QED BY <1>3 DEF Retry, TypeOK

\* A command discards a report that answers something else.
LEMMA SkipType ==
  ASSUME TypeOK, NEW p \in Proc, Skip(p)
  PROVE  TypeOK'
<1>1. queue' \in [Proc -> Seq(Response)]
  BY DEF Skip, Discard, TypeOK, HidTypeOK
<1>2. HidTypeOK'
  BY <1>1 DEF Skip, Discard, TypeOK, HidTypeOK
<1> QED BY <1>2 DEF Skip, TypeOK

\* A command takes the answer of its request and is placed at what follows.
LEMMA AcceptType ==
  ASSUME TypeOK, NEW p \in Proc, Accept(p)
  PROVE  TypeOK'
<1> DEFINE s == run[p]
           n == AfterAnswer(p, s, Head(queue[p]))
<1>1. s \in RunState /\ WellPlaced(s) /\ s.waiting
  BY DEF Accept, TypeOK
<1>2. n \in RunState /\ WellPlaced(n)
  BY <1>1, AfterAnswerWellPlaced
<1>3. /\ run' = [run EXCEPT ![p] = n]
      /\ Receive(p, RequestAt(p, s), n.stage = s.stage)
      /\ solo' \in {solo, None}
      /\ replaced' = replaced
  BY DEF Accept
<1> HIDE DEF n
<1>4. run' \in [Proc -> RunState] /\ \A o \in Proc : WellPlaced(run'[o])
  BY <1>2, <1>3, RunUpdate
<1>5. queue' \in [Proc -> Seq(Response)]
  BY <1>3 DEF Receive, TypeOK, HidTypeOK
<1>6. HidTypeOK'
  BY <1>3, <1>5 DEF Receive, TypeOK, HidTypeOK
<1> QED BY <1>3, <1>4, <1>6 DEF TypeOK

\* A command gives up.
LEMMA AbandonType ==
  ASSUME TypeOK, NEW p \in Proc, Abandon(p)
  PROVE  TypeOK'
<1> DEFINE n == Enter(IF run[p].stage = "probe" THEN "skipped" ELSE "failed")
<1>1. n \in RunState /\ WellPlaced(n)
  BY EnterWellPlaced DEF Stage, Ended
<1>2. run' = [run EXCEPT ![p] = n]
  BY DEF Abandon
<1> HIDE DEF n
<1>3. run' \in [Proc -> RunState] /\ \A o \in Proc : WellPlaced(run'[o])
  BY <1>1, <1>2, RunUpdate
<1>4. queue' \in [Proc -> Seq(Response)]
  BY DEF Abandon, CloseHid, TypeOK, HidTypeOK
<1>5. HidTypeOK' /\ replaced' \subseteq Proc /\ solo' \in Proc \cup {None}
  BY <1>4 DEF Abandon, CloseHid, TypeOK, HidTypeOK
<1> QED BY <1>3, <1>5 DEF TypeOK

\* The cases above are all there are: every step keeps the types.
LEMMA NextType ==
  ASSUME TypeOK, [Next]_vars
  PROVE  TypeOK'
<1>1. CASE KeyboardStep
  BY <1>1, KeyboardType
<1>2. CASE Replace
  BY <1>2, ReplaceType
<1>3. ASSUME NEW p \in Proc, Start(p) \/ HostStep(p)
      PROVE  TypeOK'
  <2>1. CASE Start(p)
    BY <2>1, StartType
  <2>2. CASE Open(p)
    BY <2>2, OpenType
  <2>3. CASE Ask(p)
    BY <2>3, AskType
  <2>4. CASE Retry(p)
    BY <2>4, RetryType
  <2>5. CASE Skip(p)
    BY <2>5, SkipType
  <2>6. CASE Accept(p)
    BY <2>6, AcceptType
  <2>7. CASE Abandon(p)
    BY <2>7, AbandonType
  <2> QED BY <1>3, <2>1, <2>2, <2>3, <2>4, <2>5, <2>6, <2>7
        DEF HostStep, TimeOut, Disconnected, OpenFails
<1>4. CASE UNCHANGED vars
  BY <1>4 DEF vars, TypeOK, HidTypeOK
<1> QED BY <1>1, <1>2, <1>3, <1>4 DEF Next

\* Every state of every behaviour is well typed and every run well placed in
\* its loops over pages, groups and cells: raw_transaction is only ever asked
\* for a page or cell that exists.
THEOREM TypeCorrect == Spec => []TypeOK
<1>1. SyncInit => TypeOK
  BY InitType
<1>2. TypeOK /\ [Next]_vars => TypeOK'
  BY NextType
<1> QED BY <1>1, <1>2, PTL DEF Spec

(***************************************************************************)
(* No keymap write to a keyboard with other firmware.                      *)
(***************************************************************************)

\* In the first state no descriptor is open and no request is under way.
LEMMA CompatibilityInit ==
  ASSUME SyncInit
  PROVE  CompatibilityInv
BY DEF SyncInit, HidInit, CompatibilityInv, HashesAreCurrent, KeymapStageChecked,
       KeymapWritesCompatible, WritesUnder, Enter

\* The keyboard answers with the page it has, so a hash that is queued is the
\* hash of the firmware there.
LEMMA CompatibilityKeyboard ==
  ASSUME TypeOK, CompatibilityInv, KeyboardStep
  PROVE  CompatibilityInv'
<1>1. /\ run' = run /\ abi' = abi /\ fd' = fd
      /\ toDevice # <<>> /\ toDevice' = Tail(toDevice)
  BY DEF KeyboardStep, Handle, LoseRequest
<1>2. toDevice \in Seq(Request)
  BY DEF TypeOK, HidTypeOK
<1>3. KeymapWritesCompatible'
  BY <1>1, <1>2 DEF CompatibilityInv, KeymapWritesCompatible, WritesUnder
<1>4. KeymapStageChecked'
  BY <1>1 DEF CompatibilityInv, KeymapStageChecked
<1>5. HashesAreCurrent'
  <2> SUFFICES ASSUME NEW p \in Proc, fd[p] = "open", NEW i \in 1..Len(queue'[p]),
                      queue'[p][i].op = "query", queue'[p][i].at = HashPage
               PROVE  queue'[p][i].val = abi
    BY <1>1 DEF HashesAreCurrent
  <2>1. queue[p] \in Seq(Response)
    BY DEF TypeOK, HidTypeOK
  <2>2. CASE queue'[p] = queue[p]
    BY <2>2 DEF CompatibilityInv, HashesAreCurrent
  <2>3. CASE queue'[p] # queue[p]
    <3> DEFINE r == Answer(Head(toDevice))
    <3>1. queue' = Broadcast(r)
      BY <2>3 DEF KeyboardStep, Handle, LoseRequest
    <3>2. queue'[p] = Append(queue[p], r)
      BY <2>3, <3>1 DEF Broadcast
    <3>3. r.op = "query" /\ r.at = HashPage => r.val = abi
      BY DEF Answer
    <3> HIDE DEF r
    <3>4. \/ i \in 1..Len(queue[p]) /\ queue'[p][i] = queue[p][i]
          \/ queue'[p][i] = r
      BY <2>1, <3>2
    <3> QED BY <3>3, <3>4 DEF CompatibilityInv, HashesAreCurrent
  <2> QED BY <2>2, <2>3
<1> QED BY <1>3, <1>4, <1>5 DEF CompatibilityInv

\* After a replacement no descriptor is open and nothing is on its way.
LEMMA CompatibilityReplace ==
  ASSUME TypeOK, CompatibilityInv, Replace
  PROVE  CompatibilityInv'
<1>1. toDevice' = <<>> /\ \A p \in Proc : fd'[p] # "open"
  BY DEF Replace, Reconnect, TypeOK, HidTypeOK
<1> QED BY <1>1 DEF CompatibilityInv, HashesAreCurrent, KeymapStageChecked,
                    KeymapWritesCompatible, WritesUnder

\* A command that starts is at the probe, and has checked nothing.
LEMMA CompatibilityStart ==
  ASSUME TypeOK, CompatibilityInv, NEW p \in Proc, Start(p)
  PROVE  CompatibilityInv'
<1>1. \A o \in Proc : run'[o] = IF o = p THEN Enter("probe") ELSE run[o]
  BY DEF Start, TypeOK
<1>2. \A o \in Proc : run'[o] # run[o] => run'[o].stage = "probe"
  BY <1>1 DEF Enter
<1>3. KeymapStageChecked'
  BY <1>1, <1>2 DEF Start, CompatibilityInv, KeymapStageChecked
<1> QED BY <1>3 DEF Start, CompatibilityInv, HashesAreCurrent, KeymapWritesCompatible,
                    WritesUnder

\* A command that opens the device has an empty queue, and checks before it writes.
LEMMA CompatibilityOpen ==
  ASSUME TypeOK, CompatibilityInv, NEW p \in Proc, Open(p)
  PROVE  CompatibilityInv'
<1>1. /\ abi' = abi /\ toDevice' = toDevice
      /\ \A o \in Proc \ {p} : run'[o] = run[o] /\ fd'[o] = fd[o] /\ queue'[o] = queue[o]
      /\ queue'[p] = <<>>
      /\ run'[p] = Move(run[p], FirstStep(run[p].stage), 1, 1, FALSE)
  BY DEF Open, OpenHid, TypeOK, HidTypeOK
<1>2. HashesAreCurrent' /\ KeymapWritesCompatible'
  BY <1>1 DEF CompatibilityInv, HashesAreCurrent, KeymapWritesCompatible, WritesUnder
<1>3. /\ run'[p].stage = run[p].stage /\ run'[p].pos = 1
      /\ run'[p].stage = "keymap" => run'[p].step = "check"
  BY <1>1 DEF Move, FirstStep
<1>4. KeymapStageChecked'
  <2> SUFFICES ASSUME NEW o \in Proc, fd'[o] = "open", run'[o].stage = "keymap",
                      SawExpectedHash(run'[o]) \/ run'[o].step \in {"read", "write", "verify"}
               PROVE  abi = ExpectedAbi
    BY <1>1 DEF KeymapStageChecked, SawExpectedHash
  <2>1. CASE o = p
    BY <1>3, <2>1 DEF SawExpectedHash
  <2>2. CASE o # p
    BY <1>1, <2>2 DEF CompatibilityInv, KeymapStageChecked
  <2> QED BY <2>1, <2>2
<1> QED BY <1>2, <1>4 DEF CompatibilityInv

\* What a request that writes can be.
LEMMA WriteRequestShape ==
  ASSUME NEW p \in Proc, NEW s \in RunState, WellPlaced(s), Running(s), s.step # "open",
         RequestAt(p, s).op = "set"
  PROVE  /\ s.step = "write"
         /\ RequestAt(p, s).at = CellAt(s)
         /\ RequestAt(p, s).val = Desired[p][CellAt(s)]
BY DEF RequestAt, Query, Get, Set

\* The cell a run stands at belongs to the stage it is in.
LEMMA CellOfStage ==
  ASSUME NEW s \in RunState, WellPlaced(s), Running(s),
         s.step \in {"read", "write", "verify"}
  PROVE  /\ s.stage = "keymap" => CellAt(s) \in KeyCells
         /\ s.stage = "via" => CellAt(s) \in ViaCells
<1>1. /\ s.grp \in 1..Len(Plan[s.stage]) /\ GroupAt(s) = Plan[s.stage][s.grp]
      /\ s.pos \in 1..Len(GroupAt(s)) /\ CellAt(s) = GroupAt(s)[s.pos]
      /\ CellAt(s) \in Cell
  BY Placed DEF CellAt
<1>2. Plan["keymap"] = KeyGroups /\ Plan["via"] = ViaGroups
  BY DEF Plan
<1> QED BY <1>1, <1>2 DEF KeyCells, ViaCells, InGroups

\* A command writes a key only in the stage it entered by comparing the hash.
LEMMA CompatibilityWrite ==
  ASSUME TypeOK, CompatibilityInv, NEW p \in Proc, Ask(p) \/ Retry(p)
  PROVE  CompatibilityInv'
<1> DEFINE s == run[p]
           q == RequestAt(p, s)
<1>1. s \in RunState /\ WellPlaced(s) /\ Running(s) /\ s.step # "open"
  BY DEF Ask, Retry, Alive, TypeOK, WellPlaced
<1>2. /\ abi' = abi /\ fd' = fd /\ queue' = queue
      /\ fd[p] = "open" /\ toDevice' = Append(toDevice, q)
  BY DEF Ask, Retry, WriteRequest
<1>3. \A o \in Proc : /\ run'[o].stage = run[o].stage /\ run'[o].step = run[o].step
                      /\ run'[o].pos = run[o].pos /\ run'[o].differs = run[o].differs
  <2>1. CASE Retry(p)
    BY <2>1 DEF Retry
  <2>2. CASE Ask(p)
    <3>1. \A o \in Proc \ {p} : run'[o] = run[o]
      BY <2>2 DEF Ask, TypeOK
    <3>2. run'[p] = [s EXCEPT !.waiting = TRUE]
      BY <2>2 DEF Ask, TypeOK
    <3>3. /\ run'[p].stage = s.stage /\ run'[p].step = s.step
          /\ run'[p].pos = s.pos /\ run'[p].differs = s.differs
      BY <1>1, <3>2 DEF RunState
    <3> QED BY <3>1, <3>3
  <2> QED BY <2>1, <2>2
<1>4. HashesAreCurrent' /\ KeymapStageChecked'
  BY <1>2, <1>3 DEF CompatibilityInv, HashesAreCurrent, KeymapStageChecked, SawExpectedHash
<1>5. q.op = "set" /\ q.at \in KeyCells => abi = ExpectedAbi
  <2> SUFFICES ASSUME q.op = "set", q.at \in KeyCells
               PROVE  abi = ExpectedAbi
    OBVIOUS
  <2>1. s.step = "write" /\ CellAt(s) \in KeyCells
    BY <1>1, WriteRequestShape
  <2>2. s.stage \in {"keymap", "via"}
    BY <1>1, <2>1, Placed
  <2>3. s.stage = "keymap"
    BY <1>1, <2>1, <2>2, CellOfStage, SyncAssumption
  <2> QED BY <1>2, <2>1, <2>3 DEF CompatibilityInv, KeymapStageChecked
<1>6. KeymapWritesCompatible'
  <2>1. toDevice \in Seq(Request)
    BY DEF TypeOK, HidTypeOK
  <2> SUFFICES ASSUME NEW i \in 1..Len(toDevice'), toDevice'[i].op = "set",
                      toDevice'[i].at \in KeyCells
               PROVE  abi = ExpectedAbi
    BY <1>2 DEF KeymapWritesCompatible, WritesUnder
  <2> HIDE DEF q
  <2>2. \/ i \in 1..Len(toDevice) /\ toDevice'[i] = toDevice[i]
        \/ toDevice'[i] = q
    BY <1>2, <2>1
  <2> QED BY <1>5, <2>2 DEF CompatibilityInv, KeymapWritesCompatible, WritesUnder
<1> QED BY <1>4, <1>6 DEF CompatibilityInv

\* A queue that has lost its head holds nothing it did not hold.
LEMMA TailElement ==
  ASSUME NEW S, NEW q \in Seq(S), q # <<>>, NEW i \in 1..Len(Tail(q))
  PROVE  \E j \in 1..Len(q) : Tail(q)[i] = q[j]
<1>1. i + 1 \in 1..Len(q) /\ Tail(q)[i] = q[i + 1]
  OBVIOUS
<1> QED BY <1>1

\* A report that is discarded leaves a shorter queue and nothing else.
LEMMA CompatibilitySkip ==
  ASSUME TypeOK, CompatibilityInv, NEW p \in Proc, Skip(p)
  PROVE  CompatibilityInv'
<1>1. /\ abi' = abi /\ fd' = fd /\ toDevice' = toDevice /\ run' = run
      /\ queue[p] # <<>> /\ queue'[p] = Tail(queue[p])
      /\ \A o \in Proc \ {p} : queue'[o] = queue[o]
  BY DEF Skip, Discard, TypeOK, HidTypeOK
<1>2. KeymapStageChecked' /\ KeymapWritesCompatible'
  BY <1>1 DEF CompatibilityInv, KeymapStageChecked, KeymapWritesCompatible, WritesUnder
<1>3. HashesAreCurrent'
  <2> SUFFICES ASSUME NEW o \in Proc, fd[o] = "open", NEW i \in 1..Len(queue'[o]),
                      queue'[o][i].op = "query", queue'[o][i].at = HashPage
               PROVE  queue'[o][i].val = abi
    BY <1>1 DEF HashesAreCurrent
  <2>1. queue[o] \in Seq(Response)
    BY DEF TypeOK, HidTypeOK
  <2>2. \E j \in 1..Len(queue[o]) : queue'[o][i] = queue[o][j]
    <3>1. CASE o = p
      <4>1. /\ queue[o] # <<>> /\ queue'[o] = Tail(queue[o])
            /\ i \in 1..Len(Tail(queue[o]))
        BY <1>1, <3>1
      <4>2. \E j \in 1..Len(queue[o]) : Tail(queue[o])[i] = queue[o][j]
        BY <2>1, <4>1, TailElement
      <4> QED BY <4>1, <4>2
    <3>2. CASE o # p
      BY <1>1, <3>2
    <3> QED BY <3>1, <3>2
  <2> QED BY <2>2 DEF CompatibilityInv, HashesAreCurrent
<1> QED BY <1>2, <1>3 DEF CompatibilityInv

\* The end of a run, or of a stage, closes its descriptor.
LEMMA CompatibilityAbandon ==
  ASSUME TypeOK, CompatibilityInv, NEW p \in Proc, Abandon(p)
  PROVE  CompatibilityInv'
<1>1. /\ abi' = abi /\ toDevice' = toDevice /\ fd'[p] = "closed"
      /\ \A o \in Proc \ {p} : run'[o] = run[o] /\ fd'[o] = fd[o] /\ queue'[o] = queue[o]
  BY DEF Abandon, CloseHid, TypeOK, HidTypeOK
<1> QED BY <1>1 DEF CompatibilityInv, HashesAreCurrent, KeymapStageChecked,
                    SawExpectedHash, KeymapWritesCompatible, WritesUnder

\* What accepting an answer changes, and what the answer answers.
LEMMA AcceptFacts ==
  ASSUME TypeOK, NEW p \in Proc, Accept(p)
  PROVE  LET s == run[p]
             r == Head(queue[p])
             n == AfterAnswer(p, s, r)
         IN /\ s \in RunState /\ WellPlaced(s) /\ s.waiting /\ Running(s) /\ s.step # "open"
            /\ fd[p] = "open" /\ queue[p] # <<>> /\ r \in Response
            /\ r = queue[p][1] /\ 1 \in 1..Len(queue[p])
            /\ Matches(RequestAt(p, s), r)
            /\ run'[p] = n
            /\ \A o \in Proc \ {p} : run'[o] = run[o] /\ fd'[o] = fd[o] /\ queue'[o] = queue[o]
            /\ \/ n.stage = s.stage /\ fd'[p] = "open" /\ queue'[p] = Tail(queue[p])
               \/ n.stage # s.stage /\ fd'[p] = "closed" /\ queue'[p] = <<>>
            /\ reg' = reg /\ abi' = abi /\ toDevice' = toDevice /\ replaced' = replaced
<1> DEFINE s == run[p]
           r == Head(queue[p])
           n == AfterAnswer(p, s, r)
<1>1. s \in RunState /\ WellPlaced(s) /\ s.waiting
  BY DEF Accept, TypeOK
<1>2. Running(s) /\ s.step # "open"
  BY <1>1 DEF WellPlaced
<1>3. /\ run' = [run EXCEPT ![p] = n] /\ replaced' = replaced
      /\ Receive(p, RequestAt(p, s), n.stage = s.stage)
  BY DEF Accept
<1> HIDE DEF n
<1>4. /\ fd[p] = "open" /\ queue[p] # <<>> /\ Matches(RequestAt(p, s), r)
      /\ fd' = IF n.stage = s.stage THEN fd ELSE [fd EXCEPT ![p] = "closed"]
      /\ queue' = [queue EXCEPT ![p] = IF n.stage = s.stage THEN Tail(queue[p]) ELSE <<>>]
      /\ reg' = reg /\ abi' = abi /\ toDevice' = toDevice
  BY <1>3 DEF Receive
<1>5. queue[p] \in Seq(Response)
  BY DEF TypeOK, HidTypeOK
<1>6. r \in Response /\ r = queue[p][1] /\ 1 \in 1..Len(queue[p])
  BY <1>4, <1>5
<1>7. run'[p] = n /\ \A o \in Proc \ {p} : run'[o] = run[o]
  BY <1>3 DEF TypeOK
<1>8. \A o \in Proc \ {p} : fd'[o] = fd[o] /\ queue'[o] = queue[o]
  BY <1>4 DEF TypeOK, HidTypeOK
<1>9. \/ n.stage = s.stage /\ fd'[p] = "open" /\ queue'[p] = Tail(queue[p])
      \/ n.stage # s.stage /\ fd'[p] = "closed" /\ queue'[p] = <<>>
  BY <1>4 DEF TypeOK, HidTypeOK
<1> QED BY <1>1, <1>2, <1>3, <1>4, <1>6, <1>7, <1>8, <1>9 DEF n

\* In the check loop of the keymap stage: what the loop has seen after a page
\* it had seen before, or the page was the one with the hash and as expected.
LEMMA AfterPageSaw ==
  ASSUME NEW s \in RunState, WellPlaced(s), s.stage = "keymap", s.step = "check",
         NEW same \in BOOLEAN,
         LET n == AfterPage(s, same) IN
         /\ n.stage = "keymap"
         /\ SawExpectedHash(n) \/ n.step \in {"read", "write", "verify"}
  PROVE  \/ SawExpectedHash(s)
         \/ same /\ StatusPages[s.pos] = HashPage
<1> DEFINE n == AfterPage(s, same)
           differs == s.differs \/ ~ same
<1>1. /\ Checks[s.stage] = StatusPages /\ s.pos \in 1..Len(StatusPages)
      /\ StatusPages \in Seq(Page)
      /\ \E i \in 1..Len(StatusPages) : StatusPages[i] = HashPage
  BY SyncAssumption DEF WellPlaced, Running, Checks, Ended
<1>2. CASE s.pos < Len(StatusPages)
  <2>1. n = Move(s, "check", 1, s.pos + 1, differs)
    BY <1>1, <1>2 DEF AfterPage
  <2>2. n.step = "check" /\ n.pos = s.pos + 1 /\ n.differs = differs
    BY <2>1 DEF Move
  <2>3. SawExpectedHash(n)
    BY <2>2
  <2> HIDE DEF n
  <2>4. ~ differs /\ \E i \in 1..((s.pos + 1) - 1) : StatusPages[i] = HashPage
    BY <2>2, <2>3 DEF SawExpectedHash
  <2> QED BY <1>1, <2>4 DEF SawExpectedHash
<1>3. CASE ~ (s.pos < Len(StatusPages))
  <2>1. s.pos = Len(StatusPages)
    BY <1>1, <1>3
  <2>2. ~ differs
    <3> SUFFICES ASSUME differs
                 PROVE  FALSE
      OBVIOUS
    <3>1. n = Enter("failed")
      BY <1>1, <1>3 DEF AfterPage
    <3> QED BY <3>1 DEF Enter
  <2> QED BY <1>1, <2>1, <2>2 DEF SawExpectedHash
<1> QED BY <1>2, <1>3

\* A command takes up its keys only on an answer that says the expected hash,
\* and such an answer in its queue is true of the keyboard.
LEMMA CompatibilityAccept ==
  ASSUME TypeOK, CompatibilityInv, NEW p \in Proc, Accept(p)
  PROVE  CompatibilityInv'
<1> DEFINE s == run[p]
           r == Head(queue[p])
           n == AfterAnswer(p, s, r)
<1>1. /\ s \in RunState /\ WellPlaced(s) /\ s.waiting /\ Running(s) /\ s.step # "open"
      /\ fd[p] = "open" /\ queue[p] # <<>>
      /\ r = queue[p][1] /\ 1 \in 1..Len(queue[p])
      /\ Matches(RequestAt(p, s), r)
      /\ run'[p] = n
      /\ \A o \in Proc \ {p} : run'[o] = run[o] /\ fd'[o] = fd[o] /\ queue'[o] = queue[o]
      /\ \/ n.stage = s.stage /\ fd'[p] = "open" /\ queue'[p] = Tail(queue[p])
         \/ n.stage # s.stage /\ fd'[p] = "closed" /\ queue'[p] = <<>>
      /\ abi' = abi /\ toDevice' = toDevice
  BY AcceptFacts
<1> HIDE DEF r, n
<1>2. KeymapWritesCompatible'
  BY <1>1 DEF CompatibilityInv, KeymapWritesCompatible, WritesUnder
<1>3. HashesAreCurrent'
  <2> SUFFICES ASSUME NEW o \in Proc, fd'[o] = "open", NEW i \in 1..Len(queue'[o]),
                      queue'[o][i].op = "query", queue'[o][i].at = HashPage
               PROVE  queue'[o][i].val = abi
    BY <1>1 DEF HashesAreCurrent
  <2>1. queue[o] \in Seq(Response)
    BY DEF TypeOK, HidTypeOK
  <2>2. fd[o] = "open" /\ \E j \in 1..Len(queue[o]) : queue'[o][i] = queue[o][j]
    <3>1. CASE o = p
      <4>1. /\ queue[o] # <<>> /\ queue'[o] = Tail(queue[o])
            /\ i \in 1..Len(Tail(queue[o]))
        BY <1>1, <3>1
      <4>2. \E j \in 1..Len(queue[o]) : Tail(queue[o])[i] = queue[o][j]
        BY <2>1, <4>1, TailElement
      <4> QED BY <1>1, <3>1, <4>1, <4>2
    <3>2. CASE o # p
      BY <1>1, <3>2
    <3> QED BY <3>1, <3>2
  <2> QED BY <2>2 DEF CompatibilityInv, HashesAreCurrent
<1>4. KeymapStageChecked'
  <2> SUFFICES ASSUME NEW o \in Proc, fd'[o] = "open", run'[o].stage = "keymap",
                      SawExpectedHash(run'[o]) \/ run'[o].step \in {"read", "write", "verify"}
               PROVE  abi = ExpectedAbi
    BY <1>1 DEF KeymapStageChecked, SawExpectedHash
  <2>1. CASE o # p
    BY <1>1, <2>1 DEF CompatibilityInv, KeymapStageChecked
  <2>2. CASE o = p
    <3>1. n.stage = "keymap" /\ s.stage = "keymap"
          /\ (SawExpectedHash(n) \/ n.step \in {"read", "write", "verify"})
      BY <1>1, <2>2
    <3>2. CASE s.step = "check"
      <4> DEFINE same == r.at # HashPage \/ r.val = ExpectedAbi
      <4>1. n = AfterPage(s, same)
        BY <3>2 DEF n, AfterAnswer
      <4>2. SawExpectedHash(s) \/ (same /\ StatusPages[s.pos] = HashPage)
        BY <1>1, <3>1, <3>2, <4>1, AfterPageSaw
      <4>3. RequestAt(p, s) = Query(StatusPages[s.pos])
        BY <3>1, <3>2 DEF RequestAt, Checks
      <4>4. r.op = "query" /\ r.at = StatusPages[s.pos]
        BY <1>1, <4>3 DEF Matches, Query
      <4>5. CASE SawExpectedHash(s)
        BY <1>1, <3>1, <4>5 DEF CompatibilityInv, KeymapStageChecked
      <4>6. CASE same /\ StatusPages[s.pos] = HashPage
        BY <1>1, <4>4, <4>6 DEF CompatibilityInv, HashesAreCurrent
      <4> QED BY <4>2, <4>5, <4>6
    <3>3. CASE s.step # "check"
      <4>1. s.step \in {"read", "write", "verify"}
        BY <1>1, <3>3 DEF RunState, Step
      <4> QED BY <1>1, <3>1, <4>1 DEF CompatibilityInv, KeymapStageChecked
    <3> QED BY <3>2, <3>3
  <2> QED BY <2>1, <2>2
<1> QED BY <1>2, <1>3, <1>4 DEF CompatibilityInv

\* Every step keeps the invariant of the compatibility check.
LEMMA CompatibilityNext ==
  ASSUME TypeOK, CompatibilityInv, [Next]_vars
  PROVE  CompatibilityInv'
<1>1. CASE KeyboardStep
  BY <1>1, CompatibilityKeyboard
<1>2. CASE Replace
  BY <1>2, CompatibilityReplace
<1>3. ASSUME NEW p \in Proc, Start(p) \/ HostStep(p)
      PROVE  CompatibilityInv'
  <2>1. CASE Start(p)
    BY <2>1, CompatibilityStart
  <2>2. CASE Open(p)
    BY <2>2, CompatibilityOpen
  <2>3. CASE Ask(p) \/ Retry(p)
    BY <2>3, CompatibilityWrite
  <2>4. CASE Skip(p)
    BY <2>4, CompatibilitySkip
  <2>5. CASE Accept(p)
    BY <2>5, CompatibilityAccept
  <2>6. CASE Abandon(p)
    BY <2>6, CompatibilityAbandon
  <2> QED BY <1>3, <2>1, <2>2, <2>3, <2>4, <2>5, <2>6
        DEF HostStep, TimeOut, Disconnected, OpenFails
<1>4. CASE UNCHANGED vars
  BY <1>4 DEF vars, CompatibilityInv, HashesAreCurrent, KeymapStageChecked,
              SawExpectedHash, KeymapWritesCompatible, WritesUnder
<1> QED BY <1>1, <1>2, <1>3, <1>4 DEF Next

\* Answers that tell the ABI are about the keyboard that is connected, and a run
\* that has got past the hash page on the descriptor it writes over has seen the
\* expected one (the status pages in sync_keymap_for_device): the inductive
\* invariant behind the next theorem.
THEOREM CompatibilityInvariant == Spec => []CompatibilityInv
<1>1. SyncInit => TypeOK /\ CompatibilityInv
  BY InitType, CompatibilityInit
<1>2. TypeOK /\ CompatibilityInv /\ [Next]_vars => TypeOK' /\ CompatibilityInv'
  BY NextType, CompatibilityNext
<1> QED BY <1>1, <1>2, PTL DEF Spec

\* sync_keymap_for_device reads the status on the descriptor it then writes
\* over, so that no keymap write is ever on its way to a keyboard with other
\* firmware, whenever the keyboard is replaced and whatever is lost, repeated
\* or mistaken for an answer to somebody else.
THEOREM KeymapWritesSafe == Spec => []KeymapWritesCompatible
<1>1. CompatibilityInv => KeymapWritesCompatible
  BY DEF CompatibilityInv
<1> QED BY <1>1, CompatibilityInvariant, PTL

(***************************************************************************)
(* Convergence.                                                            *)
(***************************************************************************)

\* A run that enters a stage other than "via" or "ok" has settled nothing.
LEMMA NothingSettled ==
  ASSUME NEW stage \in {"off", "probe", "compat", "keymap", "skipped", "failed"},
         NEW c
  PROVE  ~ Settled(Enter(stage), c)
BY DEF Settled, Enter

\* Settling a group settles its cells and no other.
LEMMA NextGroupSettles ==
  ASSUME NEW s \in RunState, WellPlaced(s), Running(s),
         s.step \in {"read", "write", "verify"},
         NEW c \in Cell, Settled(NextGroup(s), c)
  PROVE  \/ Settled(s, c)
         \/ \E i \in 1..Len(GroupAt(s)) : GroupAt(s)[i] = c
<1>1. /\ s.stage \in {"keymap", "via"}
      /\ Len(Plan[s.stage]) \in Nat /\ s.grp \in 1..Len(Plan[s.stage])
      /\ GroupAt(s) = Plan[s.stage][s.grp]
  BY Placed
<1>2. \A g \in 1..s.grp :
        (\E i \in 1..Len(Plan[s.stage][g]) : Plan[s.stage][g][i] = c)
          => \/ Settled(s, c)
             \/ \E i \in 1..Len(GroupAt(s)) : GroupAt(s)[i] = c
  <2> SUFFICES ASSUME NEW g \in 1..s.grp,
                      \E i \in 1..Len(Plan[s.stage][g]) : Plan[s.stage][g][i] = c
               PROVE  \/ Settled(s, c)
                      \/ \E i \in 1..Len(GroupAt(s)) : GroupAt(s)[i] = c
    OBVIOUS
  <2>1. CASE g = s.grp
    BY <1>1, <2>1
  <2>2. CASE g # s.grp
    <3>1. g \in 1..(s.grp - 1)
      BY <1>1, <2>2
    <3> QED BY <3>1 DEF Settled
  <2> QED BY <2>1, <2>2
<1>3. CASE s.grp < Len(Plan[s.stage])
  <2> DEFINE n == NextGroup(s)
  <2>1. n = Move(s, "read", s.grp + 1, 1, FALSE)
    BY <1>3 DEF NextGroup
  <2>2. n.stage = s.stage /\ n.step = "read" /\ n.grp = s.grp + 1 /\ n.pos = 1
    BY <2>1 DEF Move
  <2> HIDE DEF n
  <2>3. \/ c \in KeyCells /\ s.stage \in {"via", "ok"}
        \/ c \in ViaCells /\ s.stage = "ok"
        \/ \E g \in 1..((s.grp + 1) - 1) : \E i \in 1..Len(Plan[s.stage][g]) :
             Plan[s.stage][g][i] = c
    BY <2>2 DEF Settled, n
  <2>4. (s.grp + 1) - 1 = s.grp
    BY <1>1
  <2> QED BY <1>2, <2>3, <2>4 DEF Settled
<1>4. CASE ~ (s.grp < Len(Plan[s.stage]))
  <2>1. s.grp = Len(Plan[s.stage])
    BY <1>1, <1>4
  <2>2. Plan["keymap"] = KeyGroups /\ Plan["via"] = ViaGroups
    BY DEF Plan
  <2>3. CASE s.stage = "keymap"
    <3>1. NextGroup(s) = Enter("via")
      BY <1>4, <2>3 DEF NextGroup
    <3>2. c \in KeyCells
      BY <3>1 DEF Settled, Enter
    <3>3. \E g \in 1..s.grp : \E i \in 1..Len(Plan[s.stage][g]) : Plan[s.stage][g][i] = c
      BY <2>1, <2>2, <2>3, <3>2 DEF KeyCells, InGroups
    <3> QED BY <1>2, <3>3
  <2>4. CASE s.stage = "via"
    <3>1. NextGroup(s) = Enter("ok")
      BY <1>4, <2>4 DEF NextGroup
    <3>2. c \in KeyCells \/ c \in ViaCells
      BY <3>1 DEF Settled, Enter
    <3>3. CASE c \in KeyCells
      BY <2>4, <3>3 DEF Settled
    <3>4. CASE c \in ViaCells
      <4>1. \E g \in 1..s.grp : \E i \in 1..Len(Plan[s.stage][g]) : Plan[s.stage][g][i] = c
        BY <2>1, <2>2, <2>4, <3>4 DEF ViaCells, InGroups
      <4> QED BY <1>2, <4>1
    <3> QED BY <3>2, <3>3, <3>4
  <2> QED BY <1>1, <2>3, <2>4
<1> QED BY <1>3, <1>4

\* A move within the group settles at most the cell it leaves.
LEMMA MoveSettles ==
  ASSUME NEW s \in RunState, WellPlaced(s), Running(s),
         s.step \in {"read", "write", "verify"}, NEW differs \in BOOLEAN,
         NEW c \in Cell, Settled(Move(s, s.step, s.grp, s.pos + 1, differs), c),
         s.step = "read" => (s.differs => differs)
  PROVE  \/ Settled(s, c)
         \/ c = CellAt(s) /\ s.step = "read" /\ ~ differs
         \/ c = CellAt(s) /\ s.step = "write"
<1> DEFINE n == Move(s, s.step, s.grp, s.pos + 1, differs)
<1>1. n.stage = s.stage /\ n.step = s.step /\ n.grp = s.grp /\ n.pos = s.pos + 1
      /\ n.differs = differs
  BY DEF Move
<1>2. s.pos \in Nat \ {0} /\ CellAt(s) = GroupAt(s)[s.pos] /\ s.differs \in BOOLEAN
  BY Placed DEF CellAt, RunState
<1>3. GroupAt(n) = GroupAt(s)
  BY <1>1 DEF GroupAt
<1>4. Settled(n, c)
  OBVIOUS
<1> HIDE DEF n
<1>5. \/ c \in KeyCells /\ s.stage \in {"via", "ok"}
      \/ c \in ViaCells /\ s.stage = "ok"
      \/ \E g \in 1..(s.grp - 1) : \E i \in 1..Len(Plan[s.stage][g]) :
           Plan[s.stage][g][i] = c
      \/ /\ (s.step = "read" /\ ~ differs) \/ s.step = "write"
         /\ \E i \in 1..((s.pos + 1) - 1) : GroupAt(s)[i] = c
      \/ s.step = "verify" /\ \E i \in 1..Len(GroupAt(s)) : GroupAt(s)[i] = c
  BY <1>1, <1>3, <1>4 DEF Settled
<1>6. CASE /\ (s.step = "read" /\ ~ differs) \/ s.step = "write"
           /\ \E i \in 1..((s.pos + 1) - 1) : GroupAt(s)[i] = c
  <2>1. PICK i \in 1..((s.pos + 1) - 1) : GroupAt(s)[i] = c
    BY <1>6
  <2>2. i = s.pos \/ i \in 1..(s.pos - 1)
    BY <1>2, <2>1
  <2>3. CASE i = s.pos
    BY <1>2, <1>6, <2>1, <2>3
  <2>4. CASE i \in 1..(s.pos - 1)
    BY <1>6, <2>1, <2>4 DEF Settled
  <2> QED BY <2>2, <2>3, <2>4
<1> QED BY <1>5, <1>6 DEF Settled

\* An answer settles at most the cell it is about, and that cell only if it
\* was read as desired or written.
LEMMA AnswerSettles ==
  ASSUME NEW p \in Proc, NEW s \in RunState, WellPlaced(s), Running(s), s.step # "open",
         NEW r, NEW c \in Cell, Settled(AfterAnswer(p, s, r), c)
  PROVE  \/ Settled(s, c)
         \/ c = CellAt(s) /\ s.step = "read" /\ r.val = Desired[p][c]
         \/ c = CellAt(s) /\ s.step = "write"
<1> DEFINE n == AfterAnswer(p, s, r)
           same == r.val = Desired[p][CellAt(s)]
           differs == s.differs \/ ~ same
<1>1. s.step \in {"check", "read", "write", "verify"} /\ s.differs \in BOOLEAN
  BY DEF RunState, Step
<1>2. CASE s.step = "check"
  <2> DEFINE page == r.at # HashPage \/ r.val = ExpectedAbi
  <2>1. n = AfterPage(s, page)
    BY <1>2 DEF AfterAnswer
  <2>2. s.stage \in {"probe", "compat", "keymap"}
    BY <1>2 DEF WellPlaced, Checks
  <2>3. CASE \E pos, d : n = Move(s, "check", 1, pos, d)
    BY <2>2, <2>3 DEF Settled, Move
  <2>4. CASE n = Move(s, "read", 1, 1, FALSE)
    <3>1. n.stage = s.stage /\ n.step = "read" /\ n.grp = 1 /\ n.pos = 1
      BY <2>4 DEF Move
    <3> HIDE DEF n
    <3>2. Settled(n, c)
      BY DEF n
    <3> QED BY <2>2, <3>1, <3>2 DEF Settled
  <2>5. CASE \E stage \in {"compat", "keymap", "failed"} : n = Enter(stage)
    BY <2>5, NothingSettled
  <2> QED BY <2>1, <2>3, <2>4, <2>5 DEF AfterPage
<1>3. CASE s.step \in {"read", "write", "verify"}
  <2>1. /\ s.stage \in {"keymap", "via"} /\ s.pos \in 1..Len(GroupAt(s))
        /\ Len(GroupAt(s)) \in Nat /\ CellAt(s) = GroupAt(s)[s.pos]
    BY <1>3, Placed DEF CellAt
  <2>2. CASE n = Enter("failed")
    BY <2>2, NothingSettled
  <2>3. CASE ~ AtGroupEnd(s)
    <3>1. n = Move(s, s.step, s.grp, s.pos + 1, IF s.step = "write" THEN FALSE ELSE differs)
      BY <1>3, <2>3 DEF AfterAnswer, AfterRead, AfterWrite, AfterVerify
    <3>2. (IF s.step = "write" THEN FALSE ELSE differs) \in BOOLEAN
      BY <1>1
    <3>3. \/ Settled(s, c)
          \/ c = CellAt(s) /\ s.step = "read"
               /\ ~ (IF s.step = "write" THEN FALSE ELSE differs)
          \/ c = CellAt(s) /\ s.step = "write"
      BY <1>3, <3>1, <3>2, MoveSettles
    <3> QED BY <3>3
  <2>4. CASE AtGroupEnd(s) /\ s.step = "read" /\ n # Enter("failed")
    <3>1. s.pos = Len(GroupAt(s))
      BY <2>4 DEF AtGroupEnd
    <3>2. CASE differs
      <4>1. n = Move(s, "write", s.grp, 1, FALSE)
        BY <2>4, <3>2 DEF AfterAnswer, AfterRead
      <4>2. n.stage = s.stage /\ n.step = "write" /\ n.grp = s.grp /\ n.pos = 1
        BY <4>1 DEF Move
      <4> HIDE DEF n
      <4>3. Settled(n, c)
        BY DEF n
      <4> QED BY <1>3, <4>2, <4>3 DEF Settled
    <3>3. CASE ~ differs
      <4>1. n = NextGroup(s)
        BY <2>4, <3>3 DEF AfterAnswer, AfterRead
      <4>2. \/ Settled(s, c)
            \/ \E i \in 1..Len(GroupAt(s)) : GroupAt(s)[i] = c
        BY <1>3, <4>1, NextGroupSettles
      <4>3. ASSUME NEW i \in 1..Len(GroupAt(s)), GroupAt(s)[i] = c
            PROVE  Settled(s, c) \/ (c = CellAt(s) /\ r.val = Desired[p][c])
        <5>1. i = s.pos \/ i \in 1..(s.pos - 1)
          BY <2>1, <3>1
        <5>2. CASE i = s.pos
          BY <2>1, <3>3, <4>3, <5>2
        <5>3. CASE i \in 1..(s.pos - 1)
          BY <2>4, <3>3, <4>3, <5>3 DEF Settled
        <5> QED BY <5>1, <5>2, <5>3
      <4> QED BY <2>4, <4>2, <4>3
    <3> QED BY <3>2, <3>3
  <2>5. CASE AtGroupEnd(s) /\ s.step = "write" /\ n # Enter("failed")
    <3>1. s.pos = Len(GroupAt(s))
      BY <2>5 DEF AtGroupEnd
    <3>2. \/ Settled(s, c)
          \/ \E i \in 1..Len(GroupAt(s)) : GroupAt(s)[i] = c
      <4>1. CASE s.stage = "via"
        <5>1. n = Move(s, "verify", s.grp, 1, FALSE)
          BY <2>5, <4>1 DEF AfterAnswer, AfterWrite
        <5>2. n.stage = s.stage /\ n.step = "verify" /\ n.grp = s.grp
          BY <5>1 DEF Move
        <5>3. GroupAt(n) = GroupAt(s)
          BY <5>2 DEF GroupAt
        <5> HIDE DEF n
        <5>4. Settled(n, c)
          BY DEF n
        <5> QED BY <1>3, <5>2, <5>3, <5>4 DEF Settled
      <4>2. CASE s.stage # "via"
        <5>1. n = NextGroup(s)
          BY <2>5, <4>2 DEF AfterAnswer, AfterWrite
        <5> QED BY <1>3, <5>1, NextGroupSettles
      <4> QED BY <4>1, <4>2
    <3>3. ASSUME NEW i \in 1..Len(GroupAt(s)), GroupAt(s)[i] = c
          PROVE  Settled(s, c) \/ c = CellAt(s)
      <4>1. i = s.pos \/ i \in 1..(s.pos - 1)
        BY <2>1, <3>1
      <4>2. CASE i = s.pos
        BY <2>1, <3>3, <4>2
      <4>3. CASE i \in 1..(s.pos - 1)
        BY <2>5, <3>3, <4>3 DEF Settled
      <4> QED BY <4>1, <4>2, <4>3
    <3> QED BY <2>5, <3>2, <3>3
  <2>6. CASE AtGroupEnd(s) /\ s.step = "verify" /\ n # Enter("failed")
    <3>1. n = NextGroup(s)
      BY <2>6 DEF AfterAnswer, AfterVerify
    <3>2. \/ Settled(s, c)
          \/ \E i \in 1..Len(GroupAt(s)) : GroupAt(s)[i] = c
      BY <1>3, <3>1, NextGroupSettles
    <3> QED BY <2>6, <3>2 DEF Settled
  <2> QED BY <1>3, <2>2, <2>3, <2>4, <2>5, <2>6
<1> QED BY <1>1, <1>2, <1>3

\* The three parts of the invariant, for a common configuration.
Converging == WritesAreDesired /\ AnswersHold /\ SettledCellsHold

\* In the first state no write is under way and no command has settled a cell.
LEMMA ConvergenceInit ==
  ASSUME SyncInit
  PROVE  Converging
<1>1. WritesAreDesired /\ AnswersHold
  BY DEF SyncInit, HidInit, WritesAreDesired, AnswersHold
<1>2. \A p \in Proc : run[p] = Enter("off")
  BY DEF SyncInit
<1>3. SettledCellsHold
  BY <1>2, NothingSettled DEF SettledCellsHold
<1> QED BY <1>1, <1>3 DEF Converging

\* Whatever the keyboard handles, a cell that is as desired stays so.
LEMMA ConvergenceKeyboard ==
  ASSUME TypeOK, Converging, KeyboardStep
  PROVE  Converging'
<1> DEFINE q == Head(toDevice)
<1>1. /\ run' = run /\ replaced' = replaced
      /\ toDevice # <<>> /\ toDevice' = Tail(toDevice) /\ toDevice \in Seq(Request)
      /\ reg \in [Cell -> Value]
      /\ reg' = reg \/ (q.op = "set" /\ reg' = [reg EXCEPT ![q.at] = q.val])
  BY DEF KeyboardStep, Handle, LoseRequest, TypeOK, HidTypeOK
<1>2. q \in Request /\ q = toDevice[1] /\ 1 \in 1..Len(toDevice)
  BY <1>1
<1>3. q.op = "set" => \A o \in Proc : q.val = Desired[o][q.at]
  BY <1>2 DEF Converging, WritesAreDesired
<1> HIDE DEF q
<1>4. \A o \in Proc, c \in Cell : reg[c] = Desired[o][c] => reg'[c] = Desired[o][c]
  BY <1>1, <1>3
<1>5. WritesAreDesired'
  <2> SUFFICES ASSUME NEW o \in Proc, NEW i \in 1..Len(toDevice'), toDevice'[i].op = "set"
               PROVE  toDevice'[i].val = Desired[o][toDevice'[i].at]
    BY DEF WritesAreDesired
  <2>1. \E j \in 1..Len(toDevice) : Tail(toDevice)[i] = toDevice[j]
    BY <1>1, TailElement
  <2> QED BY <1>1, <2>1 DEF Converging, WritesAreDesired
<1>6. AnswersHold'
  <2> SUFFICES ASSUME NEW p \in Proc, NEW o \in Proc, NEW i \in 1..Len(queue'[p])
               PROVE  LET r == queue'[p][i] IN
                      /\ r.op = "set" => r.val = Desired[o][r.at]
                      /\ r.op \in {"get", "set"} /\ r.val = Desired[o][r.at]
                           => reg'[r.at] = r.val
    BY DEF AnswersHold
  <2> DEFINE r == queue'[p][i]
  <2>1. queue[p] \in Seq(Response)
    BY DEF TypeOK, HidTypeOK
  <2>2. CASE i \in 1..Len(queue[p]) /\ r = queue[p][i]
    <3>1. r \in Response
      BY <2>1, <2>2
    <3>2. r.op \in {"get", "set"} => r.at \in Cell
      BY <3>1 DEF Response
    <3>3. /\ r.op = "set" => r.val = Desired[o][r.at]
          /\ r.op \in {"get", "set"} /\ r.val = Desired[o][r.at] => reg[r.at] = r.val
      BY <2>2 DEF Converging, AnswersHold
    <3> HIDE DEF r
    <3> QED BY <1>4, <3>2, <3>3 DEF r
  <2>3. CASE queue'[p] # queue[p] /\ r = Answer(q)
    <3>1. Handle
      BY <2>3 DEF KeyboardStep, LoseRequest
    <3>2. reg' = IF q.op = "set" THEN [reg EXCEPT ![q.at] = q.val] ELSE reg
      BY <3>1 DEF Handle, q
    <3>3. /\ r.op = q.op /\ r.at = q.at
          /\ q.op = "set" => r.val = q.val
          /\ q.op = "get" => r.val = reg[q.at]
      BY <2>3 DEF Answer
    <3>4. q.op \in {"get", "set"} => q.at \in Cell
      BY <1>2 DEF Request
    <3> HIDE DEF r
    <3>5. r.op = "set" => r.val = Desired[o][r.at] /\ reg'[r.at] = r.val
      BY <1>1, <1>3, <3>2, <3>3, <3>4
    <3>6. r.op = "get" => reg'[r.at] = r.val
      BY <3>2, <3>3
    <3> QED BY <3>5, <3>6 DEF r
  <2>4. \/ i \in 1..Len(queue[p]) /\ r = queue[p][i]
        \/ queue'[p] # queue[p] /\ r = Answer(q)
    <3>1. CASE queue'[p] = queue[p]
      BY <3>1
    <3>2. CASE queue'[p] # queue[p]
      <4>1. queue' = Broadcast(Answer(q))
        BY <3>2 DEF KeyboardStep, Handle, LoseRequest, q
      <4>2. queue'[p] = Append(queue[p], Answer(q))
        BY <3>2, <4>1 DEF Broadcast
      <4> QED BY <2>1, <3>2, <4>2
    <3> QED BY <3>1, <3>2
  <2> QED BY <2>2, <2>3, <2>4
<1>7. SettledCellsHold'
  BY <1>1, <1>4 DEF Converging, SettledCellsHold
<1> QED BY <1>5, <1>6, <1>7 DEF Converging

\* A replacement empties the queues, and excuses the commands that have started.
LEMMA ConvergenceReplace ==
  ASSUME TypeOK, Converging, Replace
  PROVE  Converging'
<1>1. toDevice' = <<>> /\ \A p \in Proc : queue'[p] = <<>>
  BY DEF Replace, Reconnect
<1>2. WritesAreDesired' /\ AnswersHold'
  BY <1>1 DEF WritesAreDesired, AnswersHold
<1>3. \A p \in Proc \ replaced' : run'[p].stage = "off"
  BY DEF Replace
<1>4. SettledCellsHold'
  BY <1>3 DEF SettledCellsHold, Settled, Running
<1> QED BY <1>2, <1>4 DEF Converging

\* A run that enters a stage forgets what it has settled; that and what
\* becomes of its queue is all that the next lemma needs of an action.
LEMMA ConvergenceQuiet ==
  ASSUME TypeOK, Converging, NEW p \in Proc,
         reg' = reg, toDevice' = toDevice, replaced' = replaced,
         \A o \in Proc \ {p} : run'[o] = run[o] /\ queue'[o] = queue[o],
         \A i \in 1..Len(queue'[p]) : \E j \in 1..Len(queue[p]) : queue'[p][i] = queue[p][j],
         \A c \in Cell : Settled(run'[p], c) =>
           \/ Settled(run[p], c)
           \/ p \notin replaced => reg[c] = Desired[p][c]
  PROVE  Converging'
<1>1. WritesAreDesired'
  BY DEF Converging, WritesAreDesired
<1>2. AnswersHold'
  <2> SUFFICES ASSUME NEW u \in Proc, NEW o \in Proc, NEW i \in 1..Len(queue'[u])
               PROVE  LET r == queue'[u][i] IN
                      /\ r.op = "set" => r.val = Desired[o][r.at]
                      /\ r.op \in {"get", "set"} /\ r.val = Desired[o][r.at]
                           => reg[r.at] = r.val
    BY DEF AnswersHold
  <2>1. \E j \in 1..Len(queue[u]) : queue'[u][i] = queue[u][j]
    BY DEF TypeOK
  <2> QED BY <2>1 DEF Converging, AnswersHold
<1>3. SettledCellsHold'
  BY DEF Converging, SettledCellsHold
<1> QED BY <1>1, <1>2, <1>3 DEF Converging

\* A write that is sent, or sent again, carries the configured value.
LEMMA ConvergenceWrite ==
  ASSUME SameConfiguration, TypeOK, Converging, NEW p \in Proc, Ask(p) \/ Retry(p)
  PROVE  Converging'
<1> DEFINE s == run[p]
           q == RequestAt(p, s)
<1>1. s \in RunState /\ WellPlaced(s) /\ Running(s) /\ s.step # "open"
  BY DEF Ask, Retry, Alive, TypeOK, WellPlaced
<1>2. /\ reg' = reg /\ queue' = queue /\ replaced' = replaced
      /\ toDevice' = Append(toDevice, q) /\ toDevice \in Seq(Request)
  BY DEF Ask, Retry, WriteRequest, TypeOK, HidTypeOK
<1>3. \A o \in Proc, c \in Cell : Settled(run'[o], c) => Settled(run[o], c)
  <2>1. CASE Retry(p)
    BY <2>1 DEF Retry
  <2>2. CASE Ask(p)
    <3>1. \A o \in Proc \ {p} : run'[o] = run[o]
      BY <2>2 DEF Ask, TypeOK
    <3>2. run'[p] = [s EXCEPT !.waiting = TRUE]
      BY <2>2 DEF Ask, TypeOK
    <3>3. /\ run'[p].stage = s.stage /\ run'[p].step = s.step /\ run'[p].grp = s.grp
          /\ run'[p].pos = s.pos /\ run'[p].differs = s.differs
      BY <1>1, <3>2 DEF RunState
    <3>4. \A c \in Cell : Settled(run'[p], c) => Settled(run[p], c)
      BY <3>3 DEF Settled, Running, GroupAt
    <3> QED BY <3>1, <3>4
  <2> QED BY <2>1, <2>2
<1>4. SettledCellsHold'
  BY <1>2, <1>3 DEF Converging, SettledCellsHold
<1>5. AnswersHold'
  BY <1>2 DEF Converging, AnswersHold
<1>6. q.op = "set" => \A o \in Proc : q.val = Desired[o][q.at]
  <2> SUFFICES ASSUME q.op = "set", NEW o \in Proc
               PROVE  q.val = Desired[o][q.at]
    OBVIOUS
  <2>1. q.at = CellAt(s) /\ q.val = Desired[p][CellAt(s)]
    BY <1>1, WriteRequestShape
  <2> QED BY <2>1 DEF SameConfiguration
<1>7. WritesAreDesired'
  <2> SUFFICES ASSUME NEW o \in Proc, NEW i \in 1..Len(toDevice'), toDevice'[i].op = "set"
               PROVE  toDevice'[i].val = Desired[o][toDevice'[i].at]
    BY DEF WritesAreDesired
  <2> HIDE DEF q
  <2>1. \/ i \in 1..Len(toDevice) /\ toDevice'[i] = toDevice[i]
        \/ toDevice'[i] = q
    BY <1>2
  <2> QED BY <1>6, <2>1 DEF Converging, WritesAreDesired
<1> QED BY <1>4, <1>5, <1>7 DEF Converging

\* Accepting an answer is where what is read becomes what is relied on.
LEMMA AcceptSettles ==
  ASSUME SameConfiguration, TypeOK, Converging, NEW p \in Proc, Accept(p),
         NEW c \in Cell, Settled(run'[p], c)
  PROVE  Settled(run[p], c) \/ reg[c] = Desired[p][c]
<1> DEFINE s == run[p]
           r == Head(queue[p])
           n == AfterAnswer(p, s, r)
<1>1. /\ s \in RunState /\ WellPlaced(s) /\ Running(s) /\ s.step # "open"
      /\ r = queue[p][1] /\ 1 \in 1..Len(queue[p])
      /\ Matches(RequestAt(p, s), r) /\ run'[p] = n
  BY AcceptFacts
<1>2. \/ Settled(s, c)
      \/ c = CellAt(s) /\ s.step = "read" /\ r.val = Desired[p][c]
      \/ c = CellAt(s) /\ s.step = "write"
  BY <1>1, AnswerSettles
<1> HIDE DEF n, r
<1>3. /\ r.op = "set" => r.val = Desired[p][r.at]
      /\ r.op \in {"get", "set"} /\ r.val = Desired[p][r.at] => reg[r.at] = r.val
  BY <1>1 DEF Converging, AnswersHold
<1>4. CASE c = CellAt(s) /\ s.step = "read" /\ r.val = Desired[p][c]
  <2>1. RequestAt(p, s) = Get(c)
    BY <1>4 DEF RequestAt
  <2>2. r.op = "get" /\ r.at = c
    BY <1>1, <2>1 DEF Matches, Get
  <2> QED BY <1>3, <1>4, <2>2
<1>5. CASE c = CellAt(s) /\ s.step = "write"
  <2>1. RequestAt(p, s) = Set(c, Desired[p][c])
    BY <1>5 DEF RequestAt
  <2>2. r.op = "set" /\ r.at = c
    BY <1>1, <2>1 DEF Matches, Set
  <2> QED BY <1>3, <2>2
<1> QED BY <1>2, <1>4, <1>5

\* Whatever a command does, the cells it has settled are as configured.
LEMMA ConvergenceHost ==
  ASSUME SameConfiguration, TypeOK, Converging, NEW p \in Proc, Start(p) \/ HostStep(p)
  PROVE  Converging'
<1>0. queue[p] \in Seq(Response)
  BY DEF TypeOK, HidTypeOK
<1>1. CASE Start(p)
  <2>1. run'[p] = Enter("probe") /\ \A o \in Proc \ {p} : run'[o] = run[o]
    BY <1>1 DEF Start, TypeOK
  <2>2. /\ reg' = reg /\ toDevice' = toDevice /\ replaced' = replaced /\ queue' = queue
    BY <1>1 DEF Start
  <2> QED BY <2>1, <2>2, NothingSettled, ConvergenceQuiet
<1>2. CASE Open(p)
  <2>1. /\ run'[p] = Move(run[p], FirstStep(run[p].stage), 1, 1, FALSE)
        /\ \A o \in Proc \ {p} : run'[o] = run[o] /\ queue'[o] = queue[o]
        /\ queue'[p] = <<>>
        /\ reg' = reg /\ toDevice' = toDevice /\ replaced' = replaced
    BY <1>2 DEF Open, OpenHid, TypeOK, HidTypeOK
  <2>2. /\ run'[p].stage = run[p].stage /\ run'[p].grp = 1 /\ run'[p].pos = 1
        /\ run'[p].step \in {"read", "check"}
    BY <2>1 DEF Move, FirstStep
  <2>3. \A c \in Cell : Settled(run'[p], c) => Settled(run[p], c)
    BY <2>2 DEF Settled
  <2>4. \A i \in 1..Len(queue'[p]) : \E j \in 1..Len(queue[p]) : queue'[p][i] = queue[p][j]
    BY <2>1
  <2> QED BY <2>1, <2>3, <2>4, ConvergenceQuiet
<1>3. CASE Ask(p) \/ Retry(p)
  BY <1>3, ConvergenceWrite
<1>4. CASE Skip(p)
  <2>1. /\ run' = run /\ reg' = reg /\ toDevice' = toDevice /\ replaced' = replaced
        /\ queue[p] # <<>> /\ queue'[p] = Tail(queue[p])
        /\ \A o \in Proc \ {p} : queue'[o] = queue[o]
    BY <1>4 DEF Skip, Discard, TypeOK, HidTypeOK
  <2>2. \A i \in 1..Len(queue'[p]) : \E j \in 1..Len(queue[p]) : queue'[p][i] = queue[p][j]
    BY <1>0, <2>1, TailElement
  <2> QED BY <2>1, <2>2, ConvergenceQuiet
<1>5. CASE Accept(p)
  <2>1. /\ reg' = reg /\ toDevice' = toDevice /\ replaced' = replaced
        /\ queue[p] # <<>> /\ (queue'[p] = Tail(queue[p]) \/ queue'[p] = <<>>)
        /\ \A o \in Proc \ {p} : run'[o] = run[o] /\ queue'[o] = queue[o]
    BY <1>5, AcceptFacts
  <2>2. \A i \in 1..Len(queue'[p]) : \E j \in 1..Len(queue[p]) : queue'[p][i] = queue[p][j]
    <3>1. CASE queue'[p] = Tail(queue[p])
      BY <1>0, <2>1, <3>1, TailElement
    <3>2. CASE queue'[p] = <<>>
      BY <3>2
    <3> QED BY <2>1, <3>1, <3>2
  <2>3. \A c \in Cell : Settled(run'[p], c) =>
          Settled(run[p], c) \/ reg[c] = Desired[p][c]
    BY <1>5, AcceptSettles
  <2> QED BY <2>1, <2>2, <2>3, ConvergenceQuiet
<1>6. CASE Abandon(p)
  <2>1. /\ \E stage \in {"skipped", "failed"} : run'[p] = Enter(stage)
        /\ \A o \in Proc \ {p} : run'[o] = run[o] /\ queue'[o] = queue[o]
        /\ queue'[p] = <<>>
        /\ reg' = reg /\ toDevice' = toDevice /\ replaced' = replaced
    BY <1>6 DEF Abandon, CloseHid, TypeOK, HidTypeOK
  <2>2. \A c \in Cell : ~ Settled(run'[p], c)
    BY <2>1, NothingSettled
  <2>3. \A i \in 1..Len(queue'[p]) : \E j \in 1..Len(queue[p]) : queue'[p][i] = queue[p][j]
    BY <2>1
  <2> QED BY <2>1, <2>2, <2>3, ConvergenceQuiet
<1> QED BY <1>1, <1>2, <1>3, <1>4, <1>5, <1>6
      DEF HostStep, TimeOut, Disconnected, OpenFails

\* Every step keeps the invariant of convergence.
LEMMA ConvergenceNext ==
  ASSUME SameConfiguration, TypeOK, Converging, [Next]_vars
  PROVE  Converging'
<1>1. CASE KeyboardStep
  BY <1>1, ConvergenceKeyboard
<1>2. CASE Replace
  BY <1>2, ConvergenceReplace
<1>3. CASE \E p \in Proc : Start(p) \/ HostStep(p)
  BY <1>3, ConvergenceHost
<1>4. CASE UNCHANGED vars
  BY <1>4 DEF vars, Converging, WritesAreDesired, AnswersHold, SettledCellsHold
<1> QED BY <1>1, <1>2, <1>3, <1>4 DEF Next

\* With one configuration, what is on its way to the keyboard is as configured,
\* an answer that says so stays true however late it is read, and so does what
\* a run has made of it (raw_transaction, sync_keymap_for_device and
\* sync_via_state_for_device): the inductive invariant behind convergence.
THEOREM ConvergenceInvariant == Spec => []ConvergenceInv
<1>1. SyncInit => TypeOK /\ ConvergenceInv
  BY InitType, ConvergenceInit DEF ConvergenceInv, Converging
<1>2. TypeOK /\ ConvergenceInv /\ [Next]_vars => TypeOK' /\ ConvergenceInv'
  BY NextType, ConvergenceNext DEF ConvergenceInv, Converging, SameConfiguration
<1> QED BY <1>1, <1>2, PTL DEF Spec

\* Any number of overlapping runs of one configuration: a run that succeeded
\* has left every key, layout option and macro as configured, for as long as
\* the keyboard is not replaced.
THEOREM Converges == Spec => []ConvergedOnSuccess
<1>1. TypeOK /\ ConvergenceInv => ConvergedOnSuccess
  <2> SUFFICES ASSUME SameConfiguration, ConvergenceInv, NEW p \in Proc,
                      run[p].stage = "ok", p \notin replaced, NEW c \in Governed
               PROVE  reg[c] = Desired[p][c]
    BY DEF ConvergedOnSuccess, Carries
  <2>1. c \in Cell /\ Settled(run[p], c)
    BY DEF Governed, KeyCells, ViaCells, Settled
  <2> QED BY <2>1 DEF ConvergenceInv, SettledCellsHold
<1> QED BY <1>1, TypeCorrect, ConvergenceInvariant, PTL

(***************************************************************************)
(* Refinement.                                                             *)
(***************************************************************************)

\* Commands of one configuration want the same value of a governed cell.
LEMMA WantIsCommon ==
  ASSUME SameConfiguration, NEW p \in Proc, NEW c \in Governed
  PROVE  Want[c] = Desired[p][c]
<1>1. (CHOOSE o \in Proc : TRUE) \in Proc
  BY ConstantsAssumption
<1> QED BY <1>1 DEF SameConfiguration, Want

\* A run that moves without ending leaves what ApplyPromise sees as it is.
LEMMA QuietStep ==
  ASSUME TypeOK, NEW p \in Proc, reg' = reg,
         \A o \in Proc \ {p} : run'[o] = run[o],
         run[p].stage \notin Ended, run'[p].stage \notin Ended
  PROVE  UNCHANGED <<Store, Outcome>>
BY DEF Store, Outcome

\* A run that gives up does what ApplyPromise allows at any time.
LEMMA GiveUpStep ==
  ASSUME TypeOK, NEW p \in Proc, reg' = reg,
         \A o \in Proc \ {p} : run'[o] = run[o],
         run[p].stage \notin Ended, run'[p].stage \in {"failed", "skipped"}
  PROVE  Promise!GiveUp(p)
<1>1. Store' = Store
  BY DEF Store
<1>2. Outcome[p] = "open"
  BY DEF Outcome
<1>3. Outcome' = [Outcome EXCEPT ![p] = run'[p].stage]
  BY DEF Outcome, Ended
<1> QED BY <1>1, <1>2, <1>3 DEF Promise!GiveUp

\* A write the keyboard handles is a write of the configured value.
LEMMA WriteStep ==
  ASSUME SameConfiguration, TypeOK, Converging, KeyboardStep
  PROVE  [Promise!Next]_<<Store, Outcome>>
<1> DEFINE q == Head(toDevice)
<1>1. /\ run' = run /\ toDevice # <<>> /\ toDevice \in Seq(Request)
      /\ reg \in [Cell -> Value]
      /\ reg' = reg \/ (q.op = "set" /\ reg' = [reg EXCEPT ![q.at] = q.val])
  BY DEF KeyboardStep, Handle, LoseRequest, TypeOK, HidTypeOK
<1>2. q \in Request /\ q = toDevice[1] /\ 1 \in 1..Len(toDevice)
  BY <1>1
<1>3. q.op = "set" => q.at \in Cell /\ \A o \in Proc : q.val = Desired[o][q.at]
  BY <1>2 DEF Converging, WritesAreDesired, Request
<1>4. Outcome' = Outcome
  BY <1>1 DEF Outcome
<1> HIDE DEF q
<1>5. CASE reg' = reg
  BY <1>4, <1>5 DEF Store
<1>6. CASE q.op = "set" /\ reg' = [reg EXCEPT ![q.at] = q.val] /\ q.at \notin Governed
  <2>1. Store' = Store
    BY <1>1, <1>3, <1>6 DEF Store, Governed, KeyCells, ViaCells
  <2> QED BY <1>4, <2>1
<1>7. CASE q.op = "set" /\ reg' = [reg EXCEPT ![q.at] = q.val] /\ q.at \in Governed
  <2>1. PICK o \in Proc : TRUE
    BY ConstantsAssumption
  <2>2. q.val = Want[q.at]
    BY <1>3, <1>7, <2>1, WantIsCommon
  <2>3. \A c \in Governed : reg'[c] = IF c = q.at THEN Want[q.at] ELSE reg[c]
    BY <1>1, <1>3, <1>7, <2>2 DEF Governed, KeyCells, ViaCells
  <2>4. Store' = [Store EXCEPT ![q.at] = Want[q.at]]
    BY <1>7, <2>3 DEF Store
  <2>5. Promise!Write(q.at)
    BY <1>4, <2>4 DEF Promise!Write
  <2> QED BY <1>7, <2>5 DEF Promise!Next
<1> QED BY <1>1, <1>5, <1>6, <1>7

\* A run that succeeds finds everything as configured.
LEMMA SuccessStep ==
  ASSUME SameConfiguration, TypeOK, Converging, replaced = {},
         NEW p \in Proc, Accept(p), run'[p].stage = "ok"
  PROVE  Promise!Succeed(p)
<1>1. /\ Running(run[p]) /\ reg' = reg
      /\ \A o \in Proc \ {p} : run'[o] = run[o]
  BY AcceptFacts
<1>2. \A c \in Governed : reg[c] = Want[c]
  <2> SUFFICES ASSUME NEW c \in Governed
               PROVE  reg[c] = Want[c]
    OBVIOUS
  <2>1. c \in Cell /\ Settled(run'[p], c)
    BY DEF Governed, KeyCells, ViaCells, Settled
  <2>2. Settled(run[p], c) \/ reg[c] = Desired[p][c]
    BY <2>1, AcceptSettles
  <2>3. reg[c] = Desired[p][c]
    BY <2>1, <2>2 DEF Converging, SettledCellsHold
  <2> QED BY <2>3, WantIsCommon
<1>3. Store = Want
  BY <1>2 DEF Store, Want
<1>4. Outcome[p] = "open" /\ Store' = Store
  BY <1>1 DEF Outcome, Store, Running
<1>5. Outcome' = [Outcome EXCEPT ![p] = "ok"]
  BY <1>1 DEF Outcome, Ended
<1> QED BY <1>3, <1>4, <1>5 DEF Promise!Succeed

\* Every step of the system is a step of the promise, or one it does not see.
LEMMA RefinedStep ==
  ASSUME SameConfiguration, ~ MayReplug, TypeOK, Converging, replaced = {}, [Next]_vars
  PROVE  [Promise!Next]_<<Store, Outcome>>
<1>1. CASE KeyboardStep
  BY <1>1, WriteStep
<1>2. CASE Replace
  BY <1>2 DEF Replace, Reconnect
<1>3. ASSUME NEW p \in Proc, Start(p) \/ HostStep(p)
      PROVE  [Promise!Next]_<<Store, Outcome>>
  <2>1. CASE Start(p)
    <3>1. /\ run[p].stage = "off" /\ run'[p] = Enter("probe") /\ reg' = reg
          /\ \A o \in Proc \ {p} : run'[o] = run[o]
      BY <2>1 DEF Start, TypeOK
    <3>2. run[p].stage \notin Ended /\ run'[p].stage \notin Ended
      BY <3>1 DEF Enter, Ended
    <3> QED BY <3>1, <3>2, QuietStep
  <2>2. CASE Open(p)
    <3>1. /\ Running(run[p]) /\ reg' = reg
          /\ \A o \in Proc \ {p} : run'[o] = run[o]
          /\ run'[p] = Move(run[p], FirstStep(run[p].stage), 1, 1, FALSE)
      BY <2>2 DEF Open, OpenHid, Alive, TypeOK
    <3>2. run[p].stage \notin Ended /\ run'[p].stage \notin Ended
      BY <3>1 DEF Move, Running
    <3> QED BY <3>1, <3>2, QuietStep
  <2>3. CASE Ask(p)
    <3>1. /\ Running(run[p]) /\ reg' = reg /\ run[p] \in RunState
          /\ \A o \in Proc \ {p} : run'[o] = run[o]
          /\ run'[p] = [run[p] EXCEPT !.waiting = TRUE]
      BY <2>3 DEF Ask, WriteRequest, Alive, TypeOK
    <3>2. run'[p].stage = run[p].stage
      BY <3>1 DEF RunState
    <3>3. run[p].stage \notin Ended /\ run'[p].stage \notin Ended
      BY <3>1, <3>2 DEF Running
    <3> QED BY <3>1, <3>3, QuietStep
  <2>4. CASE Retry(p) \/ Skip(p)
    <3>1. reg' = reg /\ run' = run
      BY <2>4 DEF Retry, Skip, WriteRequest, Discard
    <3> QED BY <3>1 DEF Store, Outcome
  <2>5. CASE Accept(p)
    <3>1. /\ Running(run[p]) /\ reg' = reg
          /\ \A o \in Proc \ {p} : run'[o] = run[o]
      BY <2>5, AcceptFacts
    <3>2. CASE run'[p].stage = "ok"
      BY <2>5, <3>2, SuccessStep DEF Promise!Next
    <3>3. CASE run'[p].stage \in {"failed", "skipped"}
      BY <3>1, <3>3, GiveUpStep DEF Promise!Next, Running
    <3>4. CASE run'[p].stage \notin Ended
      BY <3>1, <3>4, QuietStep DEF Running
    <3> QED BY <3>2, <3>3, <3>4 DEF Ended
  <2>6. CASE Abandon(p) /\ Alive(p)
    <3>1. /\ reg' = reg /\ run[p].stage \notin Ended
          /\ \A o \in Proc \ {p} : run'[o] = run[o]
          /\ run'[p].stage \in {"failed", "skipped"}
      BY <2>6 DEF Abandon, CloseHid, Alive, Running, Enter, TypeOK
    <3> QED BY <3>1, GiveUpStep DEF Promise!Next
  <2>7. TimeOut(p) \/ Disconnected(p) \/ OpenFails(p) => Abandon(p) /\ Alive(p)
    BY DEF TimeOut, Disconnected, OpenFails, TypeOK, WellPlaced, Alive
  <2> QED BY <1>3, <2>1, <2>2, <2>3, <2>4, <2>5, <2>6, <2>7 DEF HostStep
<1>4. CASE UNCHANGED vars
  BY <1>4 DEF vars, Store, Outcome
<1> QED BY <1>1, <1>2, <1>3, <1>4 DEF Next

\* The first state of the system is a first state of the promise.
LEMMA RefinedInit ==
  ASSUME SyncInit
  PROVE  Promise!Init
<1>1. Store \in [Governed -> Value]
  BY DEF SyncInit, HidInit, Store, Governed, KeyCells, ViaCells
<1>2. Outcome = [p \in Proc |-> "open"]
  BY DEF SyncInit, Outcome, Enter, Ended
<1> QED BY <1>1, <1>2 DEF Promise!Init

\* silakka54-sync keeps what ApplyPromise promises: runs of one configuration
\* against a keyboard that stays put only ever move its storage towards that
\* configuration, and one that reports success has found all of it there.
THEOREM Refines ==
  SameConfiguration /\ ~ MayReplug => (Spec => KeepsPromise)
<1> DEFINE Inv == /\ SameConfiguration /\ ~ MayReplug
                  /\ TypeOK /\ Converging /\ replaced = {}
<1>1. SameConfiguration /\ ~ MayReplug /\ SyncInit => Inv /\ Promise!Init
  BY InitType, ConvergenceInit, RefinedInit DEF SyncInit
<1>2. Inv /\ [Next]_vars => Inv'
  <2>1. ~ MayReplug /\ [Next]_vars => replaced' = replaced
    BY DEF Next, KeyboardStep, Replace, Reconnect, Start, HostStep, Open, Ask, Retry,
           Skip, Accept, TimeOut, Disconnected, OpenFails, Abandon, vars
  <2>2. SameConfiguration => SameConfiguration'
    BY DEF SameConfiguration
  <2> QED BY <2>1, <2>2, NextType, ConvergenceNext
<1>3. Inv /\ [Next]_vars => [Promise!Next]_(Promise!vars)
  BY RefinedStep DEF Promise!vars
<1>4. Promise!Init /\ [][Promise!Next]_(Promise!vars) => KeepsPromise
  BY DEF KeepsPromise, Promise!Spec
<1> HIDE DEF Inv
<1> QED BY <1>1, <1>2, <1>3, <1>4, PTL DEF Spec
=============================================================================
