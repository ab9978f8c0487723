-------------------------- MODULE KeymapTurnsProofs --------------------------
(***************************************************************************)
(* Proofs about runs of KeymapSync that come one after the other, each     *)
(* with a configuration of its own: the last one wins, whatever the ones   *)
(* before it have left between the host and the keyboard.                  *)
(***************************************************************************)
EXTENDS KeymapSyncProofs

Probed == {"compat", "keymap", "via", "ok"}
Allowed(stage, step) == stage \in Probed \ {"ok"} /\ step # "open"

(***************************************************************************)
(* How many requests a run has written.                                    *)
(***************************************************************************)

\* The number of requests is a number.
LEMMA WrittenType ==
  ASSUME NEW s \in RunState
  PROVE  /\ Answered(s) \in Nat /\ Written(s) \in Nat
         /\ Len(StatusPages) \in Nat \ {0}
<1>1. StatusPages \in Seq(Page) /\ StatusPages # <<>>
  BY SyncAssumption
<1>2. Len(StatusPages) \in Nat \ {0}
  BY <1>1
<1>3. PagesBegun(s) \in Nat
  BY DEF PagesBegun, RunState
<1>4. (IF s.step = "write" THEN 2 ELSE 1) \in Nat
  OBVIOUS
<1>5. Answered(s) \in Nat
  BY <1>2, <1>3, <1>4 DEF Answered
<1> QED BY <1>2, <1>5 DEF Written

\* Writing the request of a step counts one.
LEMMA AskWritten ==
  ASSUME NEW s \in RunState, ~ s.waiting
  PROVE  Written([s EXCEPT !.waiting = TRUE]) = Written(s) + 1
<1> DEFINE n == [s EXCEPT !.waiting = TRUE]
<1>1. n.waiting = TRUE /\ n.stage = s.stage /\ n.step = s.step /\ n.pos = s.pos
  BY DEF RunState
<1> HIDE DEF n
<1>2. Answered(n) = Answered(s)
  BY <1>1 DEF Answered, PagesBegun
<1>3. Answered(s) \in Nat
  BY WrittenType
<1> QED BY <1>1, <1>2, <1>3 DEF Written, n

\* A settled group leads to the next group, to the VIA stage or to the end.
LEMMA NextGroupWritten ==
  ASSUME NEW s \in RunState, WellPlaced(s), Running(s), s.waiting,
         s.step \in {"read", "write", "verify"}
  PROVE  LET n == NextGroup(s) IN
         /\ (n.stage = s.stage /\ n.step = "read") \/ n.step = "open"
         /\ n.stage \in {"keymap", "via", "ok"}
         /\ Written(n) <= Written(s)
<1> DEFINE n == NextGroup(s)
<1>1. s.stage \in {"keymap", "via"} /\ Len(StatusPages) \in Nat \ {0}
  BY Placed, WrittenType
<1>2. Written(s) >= 2 * Len(StatusPages) + 2
  <2>1. Written(s) = 2 * Len(StatusPages) + (IF s.step = "write" THEN 2 ELSE 1) + 1
    BY <1>1 DEF Written, Answered
  <2> QED BY <1>1, <2>1
<1>3. /\ (n.stage = s.stage /\ n.step = "read") \/ n.step = "open"
      /\ n.stage \in {"keymap", "via", "ok"}
      /\ n.stage = "keymap" => n.step = "read"
      /\ n.waiting = FALSE /\ n.step # "write"
  BY <1>1 DEF NextGroup, Move, Enter
<1> HIDE DEF n
<1>4. Written(n) <= 2 * Len(StatusPages) + 1
  BY <1>1, <1>3 DEF Written, Answered
<1>5. Written(s) \in Nat /\ Written(n) \in Nat
  <2>1. n \in RunState
    BY NextGroupWellPlaced DEF n
  <2> QED BY <2>1, WrittenType
<1> QED BY <1>1, <1>2, <1>3, <1>4, <1>5 DEF n

\* After a page of the status a run has written no more than it had.
LEMMA PageWritten ==
  ASSUME NEW s \in RunState, WellPlaced(s), Running(s), s.waiting, s.step = "check",
         NEW same \in BOOLEAN
  PROVE  LET n == AfterPage(s, same) IN
         /\ (n.stage = s.stage /\ n.step # "open") \/ n.step = "open"
         /\ n.stage # "off" /\ (n.stage = "probe" => s.stage = "probe")
         /\ Running(n) => Written(n) <= Written(s)
<1> DEFINE n == AfterPage(s, same)
           differs == s.differs \/ ~ same
<1>1. /\ s.stage \in {"probe", "compat", "keymap"}
      /\ s.pos \in 1..Len(Checks[s.stage]) /\ s.pos \in Nat
  BY DEF WellPlaced, Checks, RunState
<1>2. /\ Len(Checks["probe"]) = 1
      /\ Checks["compat"] = StatusPages /\ Checks["keymap"] = StatusPages
  BY DEF Checks
<1>3. Len(StatusPages) \in Nat \ {0}
  BY WrittenType
<1>4. Written(s) = Answered(s) + 1
  BY DEF Written
<1>5. /\ s.stage = "probe" => Answered(s) = 0
      /\ s.stage = "compat" => Answered(s) = s.pos
      /\ s.stage = "keymap" => Answered(s) = Len(StatusPages) + s.pos
  BY <1>1 DEF Answered, PagesBegun
<1>6. CASE s.pos < Len(Checks[s.stage])
  <2>1. n = Move(s, "check", 1, s.pos + 1, differs)
    BY <1>6 DEF AfterPage
  <2>2. /\ n.stage = s.stage /\ n.step = "check" /\ n.pos = s.pos + 1
        /\ n.waiting = FALSE
    BY <2>1 DEF Move
  <2> HIDE DEF n
  <2>3. s.stage # "probe"
    <3> SUFFICES ASSUME s.stage = "probe"
                 PROVE  FALSE
      OBVIOUS
    <3>1. Len(Checks[s.stage]) = 1
      BY <1>2
    <3> QED BY <1>1, <1>6, <3>1
  <2>4. Written(n) = Answered(n) + 0
    BY <2>2 DEF Written
  <2>5. /\ s.stage = "compat" => Answered(n) = s.pos + 1
        /\ s.stage = "keymap" => Answered(n) = Len(StatusPages) + (s.pos + 1)
    BY <2>2 DEF Answered, PagesBegun
  <2>6. Written(n) <= Written(s)
    BY <1>1, <1>3, <1>4, <1>5, <2>3, <2>4, <2>5
  <2> QED BY <1>1, <2>2, <2>6 DEF n
<1>7. CASE ~ (s.pos < Len(Checks[s.stage]))
  <2>1. s.stage # "probe" => s.pos = Len(StatusPages)
    BY <1>1, <1>2, <1>3, <1>7
  <2>2. CASE \E stage \in {"failed", "compat", "keymap"} : n = Enter(stage)
    <3>1. \/ n = Enter("failed")
          \/ n = Enter("compat") /\ s.stage = "probe"
          \/ n = Enter("keymap") /\ s.stage = "compat"
      <4>1. /\ Enter("failed") # Enter("compat") /\ Enter("failed") # Enter("keymap")
            /\ Enter("compat") # Enter("keymap")
        BY DEF Enter
      <4>2. n = IF differs THEN Enter("failed")
                ELSE IF s.stage = "probe" THEN Enter("compat")
                ELSE IF s.stage = "compat" THEN Enter("keymap")
                ELSE Move(s, "read", 1, 1, FALSE)
        BY <1>7 DEF AfterPage
      <4>3. n.step = "open"
        BY <2>2 DEF Enter
      <4>4. Move(s, "read", 1, 1, FALSE).step = "read"
        BY DEF Move
      <4> HIDE DEF n, differs
      <4> QED BY <4>2, <4>3, <4>4
    <3>2. /\ n.step = "open" /\ n.waiting = FALSE /\ n.stage \notin {"off", "probe"}
          /\ \/ n.stage = "failed"
             \/ n.stage = "compat" /\ s.stage = "probe"
             \/ n.stage = "keymap" /\ s.stage = "compat"
      BY <3>1 DEF Enter
    <3> HIDE DEF n
    <3>3. Written(n) = Answered(n) + 0
      BY <3>2 DEF Written
    <3>4. /\ n.stage = "compat" => Answered(n) = 1
          /\ n.stage = "keymap" => Answered(n) = Len(StatusPages) + 1
      BY <3>2 DEF Answered, PagesBegun
    <3>5. Running(n) => Written(n) <= Written(s)
      BY <1>3, <1>4, <1>5, <2>1, <3>2, <3>3, <3>4 DEF Running, Ended
    <3> QED BY <3>2, <3>5 DEF n
  <2>3. CASE n = Move(s, "read", 1, 1, FALSE) /\ s.stage = "keymap"
    <3>1. n.stage = "keymap" /\ n.step = "read" /\ n.waiting = FALSE
      BY <2>3 DEF Move
    <3> HIDE DEF n
    <3>2. Written(n) = 2 * Len(StatusPages) + 1 + 0
      BY <3>1 DEF Written, Answered
    <3>3. Written(s) = Len(StatusPages) + Len(StatusPages) + 1
      BY <1>4, <1>5, <2>1, <2>3
    <3>4. Written(n) <= Written(s)
      BY <1>3, <3>2, <3>3
    <3> QED BY <2>3, <3>1, <3>4 DEF n
  <2> QED BY <1>1, <1>7, <2>2, <2>3 DEF AfterPage
<1> QED BY <1>6, <1>7

\* An answer leaves a run in its stage, or opens another: in either case it has
\* written no more than it had.
LEMMA AnswerWritten ==
  ASSUME NEW s \in RunState, WellPlaced(s), Running(s), s.waiting, NEW p, NEW r
  PROVE  LET n == AfterAnswer(p, s, r) IN
         /\ (n.stage = s.stage /\ n.step # "open") \/ n.step = "open"
         /\ n.stage # "off" /\ (n.stage = "probe" => s.stage = "probe")
         /\ Running(n) => Written(n) <= Written(s)
<1> DEFINE n == AfterAnswer(p, s, r)
           same == r.val = Desired[p][CellAt(s)]
           differs == s.differs \/ ~ same
<1>1. s.step \in {"check", "read", "write", "verify"} /\ s.differs \in BOOLEAN
  BY DEF WellPlaced, RunState, Step
<1>2. CASE s.step = "check"
  <2>1. n = AfterPage(s, r.at # HashPage \/ r.val = ExpectedAbi)
    BY <1>2 DEF AfterAnswer
  <2> QED BY <1>2, <2>1, PageWritten
<1>3. CASE s.step \in {"read", "write", "verify"}
  <2>1. /\ s.stage \in {"keymap", "via"} /\ Len(StatusPages) \in Nat \ {0}
    BY <1>3, Placed, WrittenType
  <2>2. Written(s) = 2 * Len(StatusPages) + (IF s.step = "write" THEN 2 ELSE 1) + 1
    BY <1>3, <2>1 DEF Written, Answered
  <2>3. \/ n = Enter("failed")
        \/ n = NextGroup(s)
        \/ \E step, pos, d :
             /\ n = Move(s, step, s.grp, pos, d)
             /\ step \in {"read", "write", "verify"}
    BY <1>3 DEF AfterAnswer, AfterRead, AfterWrite, AfterVerify
  <2>4. CASE n = Enter("failed")
    <3>1. n.stage = "failed" /\ n.step = "open"
      BY <2>4 DEF Enter
    <3> HIDE DEF n
    <3> QED BY <3>1 DEF Running, Ended, n
  <2>5. CASE n = NextGroup(s)
    BY <1>3, <2>1, <2>5, NextGroupWritten
  <2>6. ASSUME NEW step \in {"read", "write", "verify"}, NEW pos, NEW d,
               n = Move(s, step, s.grp, pos, d)
        PROVE  /\ n.stage = s.stage /\ n.step # "open"
               /\ Written(n) <= Written(s)
    <3>1. n.stage = s.stage /\ n.step = step /\ n.waiting = FALSE
      BY <2>6 DEF Move
    <3> HIDE DEF n
    <3>2. Written(n) = 2 * Len(StatusPages) + (IF step = "write" THEN 2 ELSE 1) + 0
      BY <2>1, <3>1 DEF Written, Answered
    <3> QED BY <2>1, <2>2, <3>1, <3>2
  <2> QED BY <2>1, <2>3, <2>4, <2>5, <2>6
<1> QED BY <1>1, <1>2, <1>3

(***************************************************************************)
(* The invariant of runs in turn.                                          *)
(***************************************************************************)

\* In the first state nothing is in flight and it is nobody's turn.
LEMMA TurnInit ==
  ASSUME SyncInit
  PROVE  TurnInv
BY DEF SyncInit, HidInit, TurnInv

\* The request at the head is handled or lost: a probe that is handled had no
\* write behind it, a write that is handled is the run's own once it has probed.
LEMMA TurnKeyboard ==
  ASSUME TypeOK, TurnInv, KeyboardStep
  PROVE  TurnInv'
<1> DEFINE q == Head(toDevice)
<1>1. /\ run' = run /\ replaced' = replaced /\ solo' = solo
      /\ toDevice # <<>> /\ toDevice' = Tail(toDevice) /\ toDevice \in Seq(Request)
      /\ reg \in [Cell -> Value]
      /\ reg' = reg \/ (q.op = "set" /\ reg' = [reg EXCEPT ![q.at] = q.val])
  BY DEF KeyboardStep, Handle, LoseRequest, TypeOK, HidTypeOK
<1>2. q \in Request /\ q = toDevice[1] /\ 1 \in 1..Len(toDevice)
  BY <1>1
<1>3. /\ Len(toDevice) \in Nat /\ Len(toDevice') = Len(toDevice) - 1
      /\ \A i \in 1..Len(toDevice') :
           i + 1 \in 1..Len(toDevice) /\ toDevice'[i] = toDevice[i + 1]
  BY <1>1
<1>4. ~ \A p \in Proc : run[p].stage = "off"
  BY <1>1 DEF TurnInv
<1> SUFFICES ASSUME solo # None
             PROVE  /\ NobodyElse' /\ ProbesAreFollowed' /\ NoWriteBehindProbe'
                    /\ ProbeClearsWrites' /\ OwnWritesInFlight'
                    /\ OwnAnswersHold' /\ OwnCellsHold'
  BY <1>1, <1>4 DEF TurnInv
<1>5. solo \in Proc
  BY DEF TypeOK
<1>6. /\ NobodyElse /\ ProbesAreFollowed /\ NoWriteBehindProbe /\ ProbeClearsWrites
      /\ OwnWritesInFlight /\ OwnAnswersHold /\ OwnCellsHold
  BY DEF TurnInv
<1> HIDE DEF q
<1>7. NobodyElse'
  BY <1>1, <1>6 DEF NobodyElse, Alive
<1>8. ProbesAreFollowed'
  <2> SUFFICES ASSUME Alive(solo), NEW i \in 1..Len(toDevice'), IsProbe(toDevice'[i])
               PROVE  Written(run[solo]) <= Len(toDevice') - i + 1
    BY <1>1 DEF ProbesAreFollowed, Alive
  <2>1. Written(run[solo]) <= Len(toDevice) - (i + 1) + 1
    BY <1>3, <1>6 DEF ProbesAreFollowed
  <2>2. Written(run[solo]) \in Nat
    BY <1>5, WrittenType DEF TypeOK
  <2> QED BY <1>3, <2>1, <2>2
<1>9. NoWriteBehindProbe'
  <2> SUFFICES ASSUME NEW i \in 1..Len(toDevice'), NEW j \in 1..Len(toDevice'),
                      i < j, IsProbe(toDevice'[i])
               PROVE  toDevice'[j].op # "set"
    BY DEF NoWriteBehindProbe
  <2>1. /\ i + 1 \in 1..Len(toDevice) /\ toDevice'[i] = toDevice[i + 1]
        /\ j + 1 \in 1..Len(toDevice) /\ toDevice'[j] = toDevice[j + 1]
    BY <1>3
  <2>2. i + 1 < j + 1
    BY <1>3
  <2> QED BY <1>6, <2>1, <2>2 DEF NoWriteBehindProbe
<1>10. \A i \in 1..Len(toDevice') : \E j \in 1..Len(toDevice) : toDevice'[i] = toDevice[j]
  BY <1>3
<1>11. NoWriteInFlight => NoWriteInFlight'
  BY <1>10 DEF NoWriteInFlight
<1>12. IsProbe(q) => NoWriteInFlight'
  <2> SUFFICES ASSUME IsProbe(q), NEW i \in 1..Len(toDevice')
               PROVE  toDevice'[i].op # "set"
    BY DEF NoWriteInFlight
  <2> QED BY <1>2, <1>3, <1>6 DEF NoWriteBehindProbe
<1>13. queue[solo] \in Seq(Response)
  BY <1>5 DEF TypeOK, HidTypeOK
<1>14. /\ queue'[solo] = queue[solo] \/ queue'[solo] = Append(queue[solo], Answer(q))
       /\ queue'[solo] # queue[solo] => Handle
  <2>1. CASE queue'[solo] = queue[solo]
    BY <2>1
  <2>2. CASE queue'[solo] # queue[solo]
    <3>1. Handle
      BY <2>2 DEF KeyboardStep, LoseRequest
    <3>2. queue' = Broadcast(Answer(q))
      BY <2>2, <3>1 DEF Handle, q
    <3> QED BY <1>5, <2>2, <3>1, <3>2 DEF Broadcast
  <2> QED BY <2>1, <2>2
<1>15. \A i \in 1..Len(queue'[solo]) :
         \/ i \in 1..Len(queue[solo]) /\ queue'[solo][i] = queue[solo][i]
         \/ queue'[solo][i] = Answer(q) /\ Handle
  BY <1>13, <1>14
<1>16. Answer(q).op = q.op /\ Answer(q).at = q.at
  BY DEF Answer
<1>17. ProbeClearsWrites'
  <2> SUFFICES ASSUME run[solo].stage = "probe", run[solo].step # "open",
                      NEW i \in 1..Len(queue'[solo]), IsProbe(queue'[solo][i])
               PROVE  NoWriteInFlight'
    BY <1>1 DEF ProbeClearsWrites
  <2> QED BY <1>6, <1>11, <1>12, <1>15, <1>16 DEF ProbeClearsWrites, IsProbe
<1>18. OwnWritesInFlight'
  BY <1>1, <1>6, <1>10 DEF OwnWritesInFlight
<1>19. run[solo].stage \in Probed =>
         \A c \in Cell : reg[c] = Desired[solo][c] => reg'[c] = Desired[solo][c]
  <2>1. run[solo].stage \in Probed /\ q.op = "set" => q.val = Desired[solo][q.at]
    BY <1>2, <1>6 DEF OwnWritesInFlight, Probed
  <2> QED BY <1>1, <2>1
<1>20. OwnAnswersHold'
  <2> SUFFICES ASSUME run[solo].stage \in {"compat", "keymap", "via"},
                      run[solo].step # "open", NEW i \in 1..Len(queue'[solo])
               PROVE  LET r == queue'[solo][i] IN
                      /\ r.op = "set" => r.val = Desired[solo][r.at]
                      /\ r.op \in {"get", "set"} /\ r.val = Desired[solo][r.at]
                           => reg'[r.at] = r.val
    BY <1>1 DEF OwnAnswersHold
  <2> DEFINE r == queue'[solo][i]
  <2>1. CASE i \in 1..Len(queue[solo]) /\ r = queue[solo][i]
    <3>1. r \in Response
      BY <1>13, <2>1
    <3>2. r.op \in {"get", "set"} => r.at \in Cell
      BY <3>1 DEF Response
    <3>3. /\ r.op = "set" => r.val = Desired[solo][r.at]
          /\ r.op \in {"get", "set"} /\ r.val = Desired[solo][r.at] => reg[r.at] = r.val
      BY <1>6, <2>1 DEF OwnAnswersHold
    <3> HIDE DEF r
    <3> QED BY <1>19, <3>2, <3>3 DEF r, Probed
  <2>2. CASE r = Answer(q) /\ Handle
    <3>1. reg' = IF q.op = "set" THEN [reg EXCEPT ![q.at] = q.val] ELSE reg
      BY <2>2 DEF Handle, q
    <3>2. /\ r.op = q.op /\ r.at = q.at
          /\ q.op = "set" => r.val = q.val
          /\ q.op = "get" => r.val = reg[q.at]
      BY <2>2 DEF Answer
    <3>3. q.op \in {"get", "set"} => q.at \in Cell
      BY <1>2 DEF Request
    <3>4. q.op = "set" => q.val = Desired[solo][q.at]
      BY <1>2, <1>6 DEF OwnWritesInFlight
    <3> HIDE DEF r
    <3>5. r.op = "set" => r.val = Desired[solo][r.at] /\ reg'[r.at] = r.val
      BY <1>1, <3>1, <3>2, <3>3, <3>4
    <3>6. r.op = "get" => reg'[r.at] = r.val
      BY <3>1, <3>2
    <3> QED BY <3>5, <3>6 DEF r
  <2> QED BY <1>15, <2>1, <2>2
<1>21. OwnCellsHold'
  <2> SUFFICES ASSUME solo \notin replaced, NEW c \in Cell, Settled(run[solo], c)
               PROVE  reg'[c] = Desired[solo][c]
    BY <1>1 DEF OwnCellsHold
  <2>1. run[solo].stage \in Probed
    <3>1. /\ run[solo] \in RunState /\ WellPlaced(run[solo])
      BY <1>5 DEF TypeOK
    <3> QED BY <3>1, Placed DEF Settled, Probed
  <2> QED BY <1>6, <1>19, <2>1 DEF OwnCellsHold
<1> QED BY <1>7, <1>8, <1>9, <1>17, <1>18, <1>20, <1>21

\* A replacement empties the line and every queue, and excuses the run.
LEMMA TurnReplace ==
  ASSUME TypeOK, TurnInv, Replace
  PROVE  TurnInv'
<1>1. /\ toDevice' = <<>> /\ run' = run /\ solo' = solo
      /\ \A p \in Proc : queue'[p] = <<>>
      /\ replaced' = {p \in Proc : run[p].stage # "off"}
  BY DEF Replace, Reconnect
<1> SUFFICES ASSUME solo # None
             PROVE  /\ NobodyElse' /\ ProbesAreFollowed' /\ NoWriteBehindProbe'
                    /\ ProbeClearsWrites' /\ OwnWritesInFlight'
                    /\ OwnAnswersHold' /\ OwnCellsHold'
  BY <1>1 DEF TurnInv
<1>2. solo \in Proc
  BY DEF TypeOK
<1>3. NobodyElse'
  BY <1>1 DEF TurnInv, NobodyElse, Alive
<1>4. ProbesAreFollowed' /\ NoWriteBehindProbe' /\ OwnWritesInFlight'
  BY <1>1 DEF ProbesAreFollowed, NoWriteBehindProbe, OwnWritesInFlight
<1>5. ProbeClearsWrites' /\ OwnAnswersHold'
  BY <1>1, <1>2 DEF ProbeClearsWrites, OwnAnswersHold
<1>6. solo \notin replaced' => \A c \in Cell : ~ Settled(run[solo], c)
  BY <1>1, <1>2 DEF Settled, Running
<1>7. OwnCellsHold'
  BY <1>1, <1>6 DEF OwnCellsHold
<1> QED BY <1>3, <1>4, <1>5, <1>7

\* The next run finds what its predecessor has left in flight, and no write of
\* it behind a probe.
LEMMA TurnStart ==
  ASSUME TypeOK, TurnInv, NEW p \in Proc, Start(p)
  PROVE  TurnInv'
<1>1. /\ run'[p] = Enter("probe") /\ \A o \in Proc \ {p} : run'[o] = run[o]
      /\ toDevice' = toDevice /\ queue' = queue
      /\ solo' = IF InTurn /\ \A o \in Proc : ~ Alive(o) THEN p ELSE None
  BY DEF Start, TypeOK
<1>2. run'[p].stage = "probe" /\ run'[p].step = "open" /\ run'[p].waiting = FALSE
  BY <1>1 DEF Enter
<1> SUFFICES ASSUME solo' # None
             PROVE  /\ NobodyElse' /\ ProbesAreFollowed' /\ NoWriteBehindProbe'
                    /\ ProbeClearsWrites' /\ OwnWritesInFlight'
                    /\ OwnAnswersHold' /\ OwnCellsHold'
  BY <1>2 DEF TurnInv
<1>3. solo' = p /\ InTurn /\ \A o \in Proc : ~ Alive(o)
  BY <1>1
<1>4. NoWriteBehindProbe
  <2>1. CASE solo # None
    BY <2>1 DEF TurnInv
  <2>2. CASE \A o \in Proc : run[o].stage = "off"
    <3>1. toDevice = <<>>
      BY <2>2 DEF TurnInv
    <3> QED BY <3>1 DEF NoWriteBehindProbe
  <2> QED BY <1>3, <2>1, <2>2 DEF InTurn
<1>5. NobodyElse'
  BY <1>1, <1>3 DEF NobodyElse, Alive
<1>6. ProbesAreFollowed'
  <2> SUFFICES ASSUME NEW i \in 1..Len(toDevice)
               PROVE  Written(run'[p]) <= Len(toDevice) - i + 1
    BY <1>1, <1>3 DEF ProbesAreFollowed
  <2>1. Written(run'[p]) = 0
    BY <1>2 DEF Written, Answered
  <2>2. Len(toDevice) \in Nat
    BY DEF TypeOK, HidTypeOK
  <2> QED BY <2>1, <2>2
<1>7. NoWriteBehindProbe'
  BY <1>1, <1>4 DEF NoWriteBehindProbe
<1>8. ProbeClearsWrites' /\ OwnWritesInFlight' /\ OwnAnswersHold'
  BY <1>2, <1>3 DEF ProbeClearsWrites, OwnWritesInFlight, OwnAnswersHold
<1>9. OwnCellsHold'
  BY <1>1, <1>3, NothingSettled DEF OwnCellsHold
<1> QED BY <1>5, <1>6, <1>7, <1>8, <1>9

\* A step of the run that leaves the keyboard and the line alone: what it reads
\* of its queue and where it goes is all that the invariant needs to know.
LEMMA TurnQuiet ==
  ASSUME TypeOK, TypeOK', TurnInv, solo # None,
         toDevice' = toDevice, reg' = reg, replaced' = replaced, solo' = solo,
         \A o \in Proc \ {solo} : run'[o] = run[o],
         run'[solo].stage # "off",
         \A i \in 1..Len(queue'[solo]) :
           \E j \in 1..Len(queue[solo]) : queue'[solo][i] = queue[solo][j],
         Running(run'[solo]) =>
           Running(run[solo]) /\ Written(run'[solo]) <= Written(run[solo]),
         run'[solo].step # "open" =>
           \/ queue'[solo] = <<>>
           \/ run[solo].step # "open" /\ run'[solo].stage = run[solo].stage,
         run'[solo].stage \in Probed => run[solo].stage \in Probed \/ NoWriteInFlight,
         \A c \in Cell : Settled(run'[solo], c) =>
           \/ Settled(run[solo], c)
           \/ solo \notin replaced => reg[c] = Desired[solo][c]
  PROVE  TurnInv'
<1>1. solo \in Proc /\ run[solo] \in RunState /\ run'[solo] \in RunState
  BY DEF TypeOK
<1>2. /\ NobodyElse /\ ProbesAreFollowed /\ NoWriteBehindProbe /\ ProbeClearsWrites
      /\ OwnWritesInFlight /\ OwnAnswersHold /\ OwnCellsHold
  BY DEF TurnInv
<1>3. NobodyElse' /\ NoWriteBehindProbe'
  BY <1>2 DEF NobodyElse, Alive, NoWriteBehindProbe
<1>4. ProbesAreFollowed'
  <2> SUFFICES ASSUME Running(run'[solo]), NEW i \in 1..Len(toDevice), IsProbe(toDevice[i])
               PROVE  Written(run'[solo]) <= Len(toDevice) - i + 1
    BY DEF ProbesAreFollowed, Alive
  <2>1. Written(run[solo]) <= Len(toDevice) - i + 1
    BY <1>2 DEF ProbesAreFollowed, Alive
  <2>2. Written(run[solo]) \in Nat /\ Written(run'[solo]) \in Nat
    BY <1>1, WrittenType
  <2>3. Len(toDevice) \in Nat
    BY DEF TypeOK, HidTypeOK
  <2> QED BY <2>1, <2>2, <2>3
<1>5. ProbeClearsWrites'
  BY <1>2 DEF ProbeClearsWrites, NoWriteInFlight
<1>6. OwnWritesInFlight'
  BY <1>2 DEF OwnWritesInFlight, NoWriteInFlight, Probed
<1>7. OwnAnswersHold'
  <2> SUFFICES ASSUME run'[solo].stage \in {"compat", "keymap", "via"},
                      run'[solo].step # "open", NEW i \in 1..Len(queue'[solo])
               PROVE  LET r == queue'[solo][i] IN
                      /\ r.op = "set" => r.val = Desired[solo][r.at]
                      /\ r.op \in {"get", "set"} /\ r.val = Desired[solo][r.at]
                           => reg[r.at] = r.val
    BY DEF OwnAnswersHold
  <2>1. PICK j \in 1..Len(queue[solo]) : queue'[solo][i] = queue[solo][j]
    OBVIOUS
  <2>2. run[solo].step # "open" /\ run[solo].stage \in {"compat", "keymap", "via"}
    <3>1. queue'[solo] # <<>>
      OBVIOUS
    <3> QED BY <3>1
  <2> QED BY <1>2, <2>1, <2>2 DEF OwnAnswersHold
<1>8. OwnCellsHold'
  BY <1>2 DEF OwnCellsHold
<1> QED BY <1>1, <1>3, <1>4, <1>5, <1>6, <1>7, <1>8 DEF TurnInv

\* A request of the run joins the line.  A write does not join a line that holds
\* a probe: behind that probe are all requests of the run, and the line is short.
LEMMA TurnWrite ==
  ASSUME ShortLine, TypeOK, TurnInv, solo # None, Ask(solo) \/ Retry(solo)
  PROVE  TurnInv'
<1> DEFINE s == run[solo]
           q == RequestAt(solo, s)
<1>0. solo \in Proc
  BY DEF TypeOK
<1>1. s \in RunState /\ WellPlaced(s) /\ Running(s) /\ s.step # "open"
  BY <1>0 DEF Ask, Retry, Alive, TypeOK, WellPlaced
<1>2. /\ reg' = reg /\ queue' = queue /\ replaced' = replaced /\ solo' = solo
      /\ toDevice' = Append(toDevice, q) /\ toDevice \in Seq(Request)
      /\ Len(toDevice) < MaxInFlight
      /\ \A o \in Proc \ {solo} : run'[o] = run[o]
  BY <1>0 DEF Ask, Retry, WriteRequest, TypeOK, HidTypeOK
<1>3. /\ run'[solo].stage = s.stage /\ run'[solo].step = s.step
      /\ run'[solo].grp = s.grp /\ run'[solo].pos = s.pos
      /\ run'[solo].differs = s.differs
      /\ Written(run'[solo]) = Written(s) + 1 \/ (Written(run'[solo]) = Written(s) /\ s.waiting)
  <2>1. CASE Retry(solo)
    BY <2>1 DEF Retry
  <2>2. CASE Ask(solo)
    <3>1. run'[solo] = [s EXCEPT !.waiting = TRUE] /\ ~ s.waiting
      BY <1>0, <2>2 DEF Ask, TypeOK
    <3>2. Written(run'[solo]) = Written(s) + 1
      BY <1>1, <3>1, AskWritten
    <3> QED BY <1>1, <3>1, <3>2 DEF RunState
  <2> QED BY <2>1, <2>2
<1>4. /\ NobodyElse /\ ProbesAreFollowed /\ NoWriteBehindProbe /\ ProbeClearsWrites
      /\ OwnWritesInFlight /\ OwnAnswersHold /\ OwnCellsHold
  BY DEF TurnInv
<1>5. q.op = "set" => /\ s.step = "write" /\ s.stage \in {"keymap", "via"}
                      /\ q.at = CellAt(s) /\ q.val = Desired[solo][CellAt(s)]
  BY <1>0, <1>1, WriteRequestShape, Placed
<1>6. IsProbe(q) => s.stage = "probe"
  <2> SUFFICES ASSUME IsProbe(q)
               PROVE  s.stage = "probe"
    OBVIOUS
  <2>1. s.step = "check"
    BY DEF IsProbe, RequestAt, Set, Get
  <2>2. /\ s.stage \in {"probe", "compat", "keymap"} /\ s.pos \in 1..Len(Checks[s.stage])
        /\ Checks[s.stage][s.pos] = ProtocolPage
    BY <1>1, <2>1 DEF WellPlaced, Checks, IsProbe, RequestAt, Query
  <2>3. CASE s.stage # "probe"
    <3>1. Checks[s.stage] = StatusPages
      BY <2>2, <2>3 DEF Checks
    <3> QED BY <2>2, <3>1, SyncAssumption
  <2> QED BY <2>3
<1> HIDE DEF q
<1>7. /\ Len(toDevice) \in Nat /\ Len(toDevice') = Len(toDevice) + 1
      /\ \A i \in 1..Len(toDevice') :
           \/ i \in 1..Len(toDevice) /\ toDevice'[i] = toDevice[i]
           \/ i = Len(toDevice) + 1 /\ toDevice'[i] = q
  BY <1>2
<1>8. /\ Written(s) \in Nat /\ Len(StatusPages) \in Nat /\ MaxInFlight \in Nat
  BY <1>1, WrittenType, ConstantsAssumption
<1>9. ProbesAreFollowed'
  <2> SUFFICES ASSUME NEW i \in 1..Len(toDevice'), IsProbe(toDevice'[i])
               PROVE  Written(run'[solo]) <= Len(toDevice') - i + 1
    BY <1>2 DEF ProbesAreFollowed
  <2>1. CASE i \in 1..Len(toDevice) /\ toDevice'[i] = toDevice[i]
    <3>1. Written(s) <= Len(toDevice) - i + 1
      BY <1>1, <1>4, <2>1 DEF ProbesAreFollowed, Alive
    <3> QED BY <1>3, <1>7, <1>8, <2>1, <3>1
  <2>2. CASE i = Len(toDevice) + 1 /\ toDevice'[i] = q
    <3>1. s.stage = "probe"
      BY <1>6, <2>2
    <3>2. Written(run'[solo]) <= 1
      BY <1>3, <3>1 DEF Written, Answered
    <3> QED BY <1>7, <2>2, <3>2, <1>8, <1>3
  <2> QED BY <1>7, <2>1, <2>2
<1>10. q.op = "set" => \A i \in 1..Len(toDevice) : ~ IsProbe(toDevice[i])
  <2> SUFFICES ASSUME q.op = "set", NEW i \in 1..Len(toDevice), IsProbe(toDevice[i])
               PROVE  FALSE
    OBVIOUS
  <2>1. Written(s) <= Len(toDevice) - i + 1
    BY <1>1, <1>4 DEF ProbesAreFollowed, Alive
  <2>2. Answered(s) = 2 * Len(StatusPages) + 2
    BY <1>5 DEF Answered
  <2>3. Written(s) >= 2 * Len(StatusPages) + 2
    BY <1>8, <2>2 DEF Written
  <2>4. MaxInFlight <= 2 * Len(StatusPages) + 2
    BY DEF ShortLine
  <2> QED BY <1>2, <1>7, <1>8, <2>1, <2>3, <2>4
<1>11. NobodyElse'
  BY <1>2, <1>4 DEF NobodyElse, Alive
<1>12. NoWriteBehindProbe'
  <2> SUFFICES ASSUME NEW i \in 1..Len(toDevice'), NEW j \in 1..Len(toDevice'),
                      i < j, IsProbe(toDevice'[i])
               PROVE  toDevice'[j].op # "set"
    BY DEF NoWriteBehindProbe
  <2>1. i \in 1..Len(toDevice) /\ toDevice'[i] = toDevice[i]
    BY <1>7
  <2> QED BY <1>4, <1>7, <1>10, <2>1 DEF NoWriteBehindProbe
<1>13. ProbeClearsWrites'
  <2> SUFFICES ASSUME s.stage = "probe", NoWriteInFlight
               PROVE  NoWriteInFlight'
    BY <1>2, <1>3, <1>4 DEF ProbeClearsWrites
  <2>1. q.op # "set"
    BY <1>5
  <2> QED BY <1>7, <2>1 DEF NoWriteInFlight
<1>14. OwnWritesInFlight'
  BY <1>2, <1>3, <1>4, <1>5, <1>7 DEF OwnWritesInFlight
<1>15. OwnAnswersHold'
  BY <1>2, <1>3, <1>4 DEF OwnAnswersHold
<1>16. OwnCellsHold'
  <2> DEFINE t == run'[solo]
  <2>1. ASSUME NEW c \in Cell PROVE Settled(t, c) = Settled(s, c)
    <3>1. GroupAt(t) = GroupAt(s) /\ Running(t) = Running(s)
      BY <1>3 DEF GroupAt, Running
    <3>2. t.stage = s.stage /\ t.step = s.step /\ t.grp = s.grp /\ t.pos = s.pos /\ t.differs = s.differs
      BY <1>3
    <3> HIDE DEF s, t
    <3> QED BY <3>1, <3>2 DEF Settled
  <2> QED BY <1>2, <1>4, <2>1 DEF OwnCellsHold
<1>17. run'[solo].stage # "off"
  BY <1>1, <1>3 DEF Running
<1> QED BY <1>0, <1>2, <1>9, <1>11, <1>12, <1>13, <1>14, <1>15, <1>16, <1>17 DEF TurnInv

\* Who asks, while it is somebody's turn, is the one whose turn it is.
LEMMA TurnOfHost ==
  ASSUME TypeOK, TurnInv, NEW p \in Proc, HostStep(p)
  PROVE  Alive(p) /\ solo' = solo /\ (solo # None => p = solo)
<1>1. Alive(p)
  BY DEF HostStep, Open, Ask, Retry, Skip, Accept, TimeOut, Disconnected, OpenFails,
         TypeOK, WellPlaced, Alive
<1>2. solo' = solo
  BY DEF HostStep, Open, Ask, Retry, Skip, Accept, TimeOut, Disconnected, OpenFails,
         Abandon
<1> QED BY <1>1, <1>2 DEF TurnInv, NobodyElse

\* No step of a run takes it back to where it has not started.
LEMMA HostStaysStarted ==
  ASSUME TypeOK, NEW p \in Proc, HostStep(p), Alive(p)
  PROVE  run'[p].stage # "off"
<1>1. run[p] \in RunState /\ run[p].stage # "off"
  BY DEF Alive, Running, TypeOK
<1>2. CASE Open(p)
  <2>1. run'[p] = Move(run[p], FirstStep(run[p].stage), 1, 1, FALSE)
    BY <1>2 DEF Open, TypeOK
  <2> QED BY <1>1, <2>1 DEF Move
<1>3. CASE Ask(p)
  <2>1. run'[p] = [run[p] EXCEPT !.waiting = TRUE]
    BY <1>3 DEF Ask, TypeOK
  <2> QED BY <1>1, <2>1 DEF RunState
<1>4. CASE Retry(p) \/ Skip(p)
  BY <1>1, <1>4 DEF Retry, Skip
<1>5. CASE Accept(p)
  BY <1>5, AcceptFacts, AnswerWritten
<1>6. CASE Abandon(p)
  <2>1. \E stage \in {"skipped", "failed"} : run'[p] = Enter(stage)
    BY <1>6 DEF Abandon, TypeOK
  <2> QED BY <2>1 DEF Enter
<1> QED BY <1>2, <1>3, <1>4, <1>5, <1>6 DEF HostStep, TimeOut, Disconnected, OpenFails

\* The answer to the probe tells that no write of an earlier run is left, any
\* other answer is about a cell that the run may take as settled.
LEMMA TurnAccept ==
  ASSUME TypeOK, TypeOK', TurnInv, solo # None, solo \in Proc, Accept(solo), solo' = solo
  PROVE  TurnInv'
<1> DEFINE s == run[solo]
           r == Head(queue[solo])
           n == AfterAnswer(solo, s, r)
<1>1. /\ s \in RunState /\ WellPlaced(s) /\ s.waiting /\ Running(s) /\ s.step # "open"
      /\ queue[solo] # <<>> /\ r = queue[solo][1] /\ 1 \in 1..Len(queue[solo])
      /\ Matches(RequestAt(solo, s), r)
      /\ run'[solo] = n
      /\ \A o \in Proc \ {solo} : run'[o] = run[o]
      /\ \/ n.stage = s.stage /\ queue'[solo] = Tail(queue[solo])
         \/ n.stage # s.stage /\ queue'[solo] = <<>>
      /\ reg' = reg /\ toDevice' = toDevice /\ replaced' = replaced
  BY AcceptFacts
<1>2. /\ (n.stage = s.stage /\ n.step # "open") \/ n.step = "open"
      /\ n.stage # "off" /\ (n.stage = "probe" => s.stage = "probe")
      /\ Running(n) => Written(n) <= Written(s)
  BY <1>1, AnswerWritten
<1>3. \A c \in Cell : Settled(n, c) =>
        \/ Settled(s, c)
        \/ c = CellAt(s) /\ s.step = "read" /\ r.val = Desired[solo][c]
        \/ c = CellAt(s) /\ s.step = "write"
  BY <1>1, AnswerSettles
<1> HIDE DEF n, r
<1>4. ProbeClearsWrites /\ OwnAnswersHold
  BY DEF TurnInv
<1>5. \A i \in 1..Len(queue'[solo]) :
        \E j \in 1..Len(queue[solo]) : queue'[solo][i] = queue[solo][j]
  <2>0. queue[solo] \in Seq(Response)
    BY DEF TypeOK, HidTypeOK
  <2>1. CASE queue'[solo] = Tail(queue[solo])
    BY <1>1, <2>0, <2>1, TailElement
  <2>2. CASE queue'[solo] = <<>>
    BY <2>2
  <2> QED BY <1>1, <2>1, <2>2
<1>6. s.stage \in Probed \/ NoWriteInFlight
  <2>1. s.stage \in Probed \/ s.stage = "probe"
    BY <1>1 DEF Running, Ended, RunState, Stage, Probed
  <2> SUFFICES ASSUME s.stage = "probe"
               PROVE  NoWriteInFlight
    BY <2>1
  <2>2. s.step = "check" /\ s.pos \in 1..Len(Checks["probe"])
    <3>1. s.step \in {"check", "read", "write", "verify"}
      BY <1>1 DEF RunState, Step
    <3> QED BY <1>1, <3>1 DEF WellPlaced, Plan
  <2>3. Checks["probe"] = <<ProtocolPage>>
    BY DEF Checks
  <2>4. Checks[s.stage][s.pos] = ProtocolPage
    BY <2>2, <2>3
  <2>5. RequestAt(solo, s) = Query(ProtocolPage)
    BY <2>2, <2>4 DEF RequestAt
  <2>6. IsProbe(r)
    BY <1>1, <2>5 DEF Matches, Query, IsProbe
  <2> QED BY <1>1, <1>4, <2>6 DEF ProbeClearsWrites
<1>7. ASSUME NEW c \in Cell, Settled(n, c)
      PROVE  Settled(s, c) \/ reg[c] = Desired[solo][c]
  <2> SUFFICES ASSUME c = CellAt(s),
                      \/ s.step = "read" /\ r.val = Desired[solo][c]
                      \/ s.step = "write"
               PROVE  reg[c] = Desired[solo][c]
    BY <1>3, <1>7
  <2>1. s.stage \in {"keymap", "via"}
    BY <1>1, Placed
  <2>2. /\ r.op = "set" => r.val = Desired[solo][r.at]
        /\ r.op \in {"get", "set"} /\ r.val = Desired[solo][r.at] => reg[r.at] = r.val
    BY <1>1, <1>4, <2>1 DEF OwnAnswersHold
  <2>3. CASE s.step = "read" /\ r.val = Desired[solo][c]
    <3>1. RequestAt(solo, s) = Get(c)
      BY <2>3 DEF RequestAt
    <3>2. r.op = "get" /\ r.at = c
      BY <1>1, <3>1 DEF Matches, Get
    <3> QED BY <2>2, <2>3, <3>2
  <2>4. CASE s.step = "write"
    <3>1. RequestAt(solo, s) = Set(c, Desired[solo][c])
      BY <2>4 DEF RequestAt
    <3>2. r.op = "set" /\ r.at = c
      BY <1>1, <3>1 DEF Matches, Set
    <3> QED BY <2>2, <3>2
  <2> QED BY <2>3, <2>4
<1> QED BY <1>1, <1>2, <1>5, <1>6, <1>7, TurnQuiet

\* Whatever the run whose turn it is does, the invariant is kept.
LEMMA TurnHost ==
  ASSUME ShortLine, TypeOK, TypeOK', TurnInv, NEW p \in Proc, HostStep(p)
  PROVE  TurnInv'
<1>1. Alive(p) /\ solo' = solo /\ (solo # None => p = solo)
  BY TurnOfHost
<1>2. run'[p].stage # "off"
  BY <1>1, HostStaysStarted
<1>3. CASE solo = None
  BY <1>1, <1>2, <1>3 DEF TurnInv
<1>4. CASE solo # None
  <2>1. p = solo /\ solo \in Proc /\ run[solo] \in RunState /\ Running(run[solo])
    BY <1>1, <1>4 DEF TypeOK, Alive
  <2>2. CASE Open(solo)
    <3>1. /\ run'[solo] = Move(run[solo], FirstStep(run[solo].stage), 1, 1, FALSE)
          /\ \A o \in Proc \ {solo} : run'[o] = run[o]
          /\ queue'[solo] = <<>> /\ run[solo].step = "open"
          /\ reg' = reg /\ toDevice' = toDevice /\ replaced' = replaced
      BY <2>1, <2>2 DEF Open, OpenHid, TypeOK, HidTypeOK
    <3>2. /\ run'[solo].stage = run[solo].stage /\ run'[solo].grp = 1
          /\ run'[solo].pos = 1 /\ run'[solo].waiting = FALSE
          /\ run'[solo].step = IF run[solo].stage = "via" THEN "read" ELSE "check"
      BY <3>1 DEF Move, FirstStep
    <3>3. \A c \in Cell : Settled(run'[solo], c) => Settled(run[solo], c)
      BY <3>2 DEF Settled
    <3>4. run[solo].stage \in {"probe", "compat", "keymap", "via"}
      BY <2>1 DEF Running, RunState, Stage
    <3>5. Answered(run'[solo]) = Answered(run[solo])
      BY <3>1, <3>2, <3>4 DEF Answered, PagesBegun
    <3>6. Written(run'[solo]) <= Written(run[solo])
      <4>1. Answered(run[solo]) \in Nat
        BY <2>1, WrittenType
      <4> QED BY <3>2, <3>5, <4>1 DEF Written
    <3>7. \A i \in 1..Len(queue'[solo]) :
            \E j \in 1..Len(queue[solo]) : queue'[solo][i] = queue[solo][j]
      BY <3>1
    <3> QED BY <1>1, <1>2, <1>4, <2>1, <3>1, <3>2, <3>3, <3>6, <3>7, TurnQuiet
  <2>3. CASE Ask(solo) \/ Retry(solo)
    BY <1>4, <2>3, TurnWrite
  <2>4. CASE Skip(solo)
    <3>1. /\ run' = run /\ reg' = reg /\ toDevice' = toDevice /\ replaced' = replaced
          /\ queue[solo] # <<>> /\ queue'[solo] = Tail(queue[solo])
          /\ queue[solo] \in Seq(Response) /\ run[solo].waiting
      BY <2>1, <2>4 DEF Skip, Discard, TypeOK, HidTypeOK
    <3>2. \A i \in 1..Len(queue'[solo]) :
            \E j \in 1..Len(queue[solo]) : queue'[solo][i] = queue[solo][j]
      BY <3>1, TailElement
    <3>3. Written(run[solo]) \in Nat
      BY <2>1, WrittenType
    <3> QED BY <1>1, <1>2, <1>4, <2>1, <3>1, <3>2, <3>3, TurnQuiet
  <2>5. CASE Accept(solo)
    BY <1>1, <1>4, <2>1, <2>5, TurnAccept
  <2>6. CASE Abandon(solo)
    <3>1. /\ \E stage \in {"skipped", "failed"} : run'[solo] = Enter(stage)
          /\ \A o \in Proc \ {solo} : run'[o] = run[o]
          /\ queue'[solo] = <<>>
          /\ reg' = reg /\ toDevice' = toDevice /\ replaced' = replaced
      BY <2>1, <2>6 DEF Abandon, CloseHid, TypeOK, HidTypeOK
    <3>2. \A c \in Cell : ~ Settled(run'[solo], c)
      BY <3>1, NothingSettled
    <3>3. /\ ~ Running(run'[solo]) /\ run'[solo].step = "open"
          /\ run'[solo].stage \notin Probed
      BY <3>1 DEF Enter, Running, Ended, Probed
    <3>4. \A i \in 1..Len(queue'[solo]) :
            \E j \in 1..Len(queue[solo]) : queue'[solo][i] = queue[solo][j]
      BY <3>1
    <3> QED BY <1>1, <1>2, <1>4, <2>1, <3>1, <3>2, <3>3, <3>4, TurnQuiet
  <2> QED BY <2>1, <2>2, <2>3, <2>4, <2>5, <2>6 DEF HostStep, TimeOut, Disconnected, OpenFails
<1> QED BY <1>3, <1>4

\* Every step keeps the invariant of runs in turn.
LEMMA TurnNext ==
  ASSUME ShortLine, TypeOK, TypeOK', TurnInv, [Next]_vars
  PROVE  TurnInv'
<1>1. CASE KeyboardStep
  BY <1>1, TurnKeyboard
<1>2. CASE Replace
  BY <1>2, TurnReplace
<1>3. CASE \E p \in Proc : Start(p) \/ HostStep(p)
  BY <1>3, TurnStart, TurnHost
<1>4. CASE UNCHANGED vars
  BY <1>4 DEF vars, TurnInv, NobodyElse, ProbesAreFollowed, NoWriteBehindProbe,
              ProbeClearsWrites, NoWriteInFlight, OwnWritesInFlight, OwnAnswersHold,
              OwnCellsHold, Alive
<1> QED BY <1>1, <1>2, <1>3, <1>4 DEF Next

\* On a short line no write of sync_keymap_for_device is ever behind a probe of
\* probe_via_device, so the answer to a probe tells that no write of an earlier
\* run is left, and all that a run settles stays settled: the inductive
\* invariant behind LastRunWins.
THEOREM TurnInvariant == ShortLine => (Spec => []TurnInv)
<1> DEFINE Inv == ShortLine /\ TypeOK /\ TurnInv
<1>1. ShortLine /\ SyncInit => Inv
  BY InitType, TurnInit
<1>2. Inv /\ [Next]_vars => Inv'
  <2>1. ShortLine => ShortLine'
    BY DEF ShortLine
  <2> QED BY <2>1, NextType, TurnNext
<1>3. Inv => TurnInv
  OBVIOUS
<1> HIDE DEF Inv
<1> QED BY <1>1, <1>2, <1>3, PTL DEF Spec

\* Any number of runs that come one after the other, each with a configuration
\* of its own and however each of them ends: the last one, if it succeeds, leaves
\* its own configuration on the keyboard, for every key, layout option and macro,
\* and nothing its predecessors left in flight takes that back.
THEOREM LastRunWinsInTurn == ShortLine => (Spec => []LastRunWins)
<1>1. TypeOK /\ TurnInv => LastRunWins
  <2> SUFFICES ASSUME TurnInv, solo # None, run[solo].stage = "ok", solo \notin replaced,
                      NEW c \in Governed
               PROVE  reg[c] = Desired[solo][c]
    BY DEF LastRunWins, Carries
  <2>1. c \in Cell /\ Settled(run[solo], c)
    BY DEF Governed, KeyCells, ViaCells, Settled
  <2> QED BY <2>1 DEF TurnInv, OwnCellsHold
<1> QED BY <1>1, TypeCorrect, TurnInvariant, PTL
=============================================================================
