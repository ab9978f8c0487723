------------------------ MODULE FlashFirmwareProofs ------------------------
(***************************************************************************)
(* Proofs about FlashFirmware for any number of runs and boards.           *)
(*                                                                         *)
(* The invariant FlashInv says of each run, by itself, how what it         *)
(* remembers stands to the boards (Sound below); only OwnHalf is about the *)
(* boards alone.  A run's step touches the memory of that run and, when it *)
(* asks or writes, one board; a board's step at most takes descriptors     *)
(* away.  So each action is checked by what it makes of one run and of one *)
(* board.                                                                  *)
(***************************************************************************)
EXTENDS FlashFirmware, TLAPS

\* Where a run may be.
PC == {"idle", "list", "probe", "jump", "new", "any", "copy", "verify", "ok", "failed"}

\* What TypeOK says of the boards.
WorldTyped ==
  /\ board \in [Board -> {"away", "hid", "jumping", "boot", "starting"}]
  /\ mount \in [Board -> Path \cup {None}]
  /\ \A b \in Board : mount[b] # None => board[b] = "boot"
  /\ \A a, b \in Board : mount[a] = mount[b] /\ a # b => mount[a] = None
  /\ firmware \in [Board -> Firmware]

\* What FlashInv says of one run with memory r.
Sound(r) ==
  /\ \A b \in r.held : board[b] \in {"hid", "jumping"} /\ firmware[b].half = r.half
  /\ "stray" \notin troubles =>
       \A b \in Board :
         /\ r.pc \in {"list", "probe", "jump", "new"} /\ mount[b] # None =>
              mount[b] \in r.before \/ b = r.asked
         /\ r.pc = "copy" /\ ~ r.blind /\ mount[b] = r.target => b = r.asked
  /\ Calm => (r.asked \in Board => Side[r.asked] = r.half)
  /\ r.pc \in {"list", "probe", "jump"} => r.asked = None
  /\ r.pc = "any" => r.blind
  /\ r.pc = "copy" => r.target # None
  /\ OneOfEach /\ Calm =>
       (r.pc = "ok" /\ r.asked \in Board => firmware[r.asked] = Packaged(r.half))

\* The world is as it was.
SameWorld == UNCHANGED <<board, mount, firmware>>

\* A run that has just been told its half, or has ended without a word, is
\* well typed, and remembers nothing.
LEMMA AtTyped ==
  ASSUME NEW pc \in PC, NEW h \in Half
  PROVE  /\ At(pc, h) \in Run
         /\ At(pc, h).pc = pc /\ At(pc, h).half = h /\ At(pc, h).held = {}
         /\ At(pc, h).asked = None /\ At(pc, h).blind = FALSE
BY DEF At, Run, PC

\* FlashInv is OwnHalf and the soundness of every run.
LEMMA InvIsSound == FlashInv <=> OwnHalf /\ \A p \in Proc : Sound(run[p])
BY DEF FlashInv, HeldReports, NewIsAsked, AskedIsOfTheHalf, InStage, VerifiedIsFlashed,
       Sound, OwnHalf, Calm

\* The same of the next state.
LEMMA InvIsSoundNext == FlashInv' <=> OwnHalf' /\ \A p \in Proc : Sound(run[p])'
BY DEF FlashInv, HeldReports, NewIsAsked, AskedIsOfTheHalf, InStage, VerifiedIsFlashed,
       Sound, OwnHalf, Calm

\* A sound run that has ended without a word stays so whatever happens.
LEMMA FailedIsSound ==
  ASSUME NEW h \in Half, NEW pc \in {"idle", "failed"}
  PROVE  Sound(At(pc, h)) /\ Sound(At(pc, h))'
BY FlashAssumption DEF Sound, At

\* The step of one run changes its memory only, and to a well-typed one.
LEMMA SetTyped ==
  ASSUME TypeOK, NEW p \in Proc, NEW r \in Run, Set(p, r)
  PROVE  /\ run' \in [Proc -> Run]
         /\ run'[p] = r
         /\ \A o \in Proc \ {p} : run'[o] = run[o]
BY DEF TypeOK, Set

\* What a step does to the bounds and the list of troubles.
Counted == /\ moves' \in 0..MaxMoves /\ starts' \in 0..MaxStarts
           /\ troubles' \subseteq Trouble /\ troubles \subseteq troubles'

\* A run that has asked a board, or written to one.
LEMMA RunWith ==
  ASSUME NEW s \in Run, NEW b \in Board
  PROVE  /\ [s EXCEPT !.pc = "new", !.asked = b] \in Run
         /\ [s EXCEPT !.pc = "verify", !.wrote = b] \in Run
<1>1. [s EXCEPT !.pc = "new", !.asked = b] \in Run
  BY DEF Run
<1>2. [s EXCEPT !.pc = "verify", !.wrote = b] \in Run
  BY DEF Run
<1> QED BY <1>1, <1>2

\* A run makes a step to a sound memory, and leaves the boards alone.
LEMMA RunStep ==
  ASSUME TypeOK, FlashInv, Counted, SameWorld,
         NEW p \in Proc, NEW r \in Run, Set(p, r), Sound(r)
  PROVE  TypeOK' /\ FlashInv'
<1>1. TypeOK'
  BY SetTyped DEF TypeOK, SameWorld, Counted
<1>2. \A s : Sound(s) => Sound(s)'
  BY DEF Sound, SameWorld, Counted, Calm
<1>3. \A o \in Proc : Sound(run[o])'
  <2> SUFFICES ASSUME NEW o \in Proc PROVE Sound(run[o])'
    OBVIOUS
  <2>1. Sound(run'[o])
    BY SetTyped, InvIsSound
  <2> QED BY <2>1, <1>2 DEF Sound, SameWorld, Counted, Calm
<1>4. OwnHalf'
  BY InvIsSound DEF OwnHalf, SameWorld, Counted
<1> QED BY <1>1, <1>3, <1>4, InvIsSoundNext

\* A run ends without a word.
LEMMA FailStep ==
  ASSUME TypeOK, FlashInv, Counted, SameWorld, NEW p \in Proc, Fail(p)
  PROVE  TypeOK' /\ FlashInv'
<1> DEFINE r == At("failed", run[p].half)
<1>1. run[p].half \in Half
  BY DEF TypeOK, Run
<1>2. r \in Run /\ Sound(r)
  BY <1>1, AtTyped, FailedIsSound DEF PC
<1>3. Set(p, r)
  BY DEF Fail
<1> QED BY <1>2, <1>3, RunStep

\* A step that changes no board and raises no trouble, or that it failed.
LEMMA Counting ==
  ASSUME TypeOK, Quiet \/ Fault
  PROVE  Counted /\ SameWorld
BY DEF TypeOK, Quiet, Fault, Counted, SameWorld, Trouble

\* A run starts: every volume there is has been there before.
LEMMA StartStep ==
  ASSUME TypeOK, FlashInv, NEW p \in Proc, Start(p)
  PROVE  TypeOK' /\ FlashInv'
<1>1. PICK h \in Half : Set(p, [At("list", h) EXCEPT !.before = Volumes])
  BY DEF Start
<1> DEFINE r == [At("list", h) EXCEPT !.before = Volumes]
<1>2. Counted /\ SameWorld
  <2>1. moves' \in 0..MaxMoves /\ starts' \in 0..MaxStarts /\ SameWorld
    BY FlashAssumption DEF TypeOK, Start, SameWorld
  <2>2. troubles' \subseteq Trouble /\ troubles \subseteq troubles'
    BY DEF TypeOK, Start, Raise, Trouble
  <2> QED BY <2>1, <2>2 DEF Counted
<1>3. Volumes \in SUBSET Path
  BY DEF TypeOK, Volumes
<1>4. r \in Run
  BY <1>3 DEF At, Run
<1>5. Sound(r)
  BY FlashAssumption DEF Sound, At, Volumes
<1> QED BY <1>1, <1>2, <1>4, <1>5, RunStep

\* A run that has listed the boards remembers nothing else that is new.
LEMMA ListStep ==
  ASSUME TypeOK, FlashInv, NEW p \in Proc, List(p)
  PROVE  TypeOK' /\ FlashInv'
<1> DEFINE s == run[p]
           r == [s EXCEPT !.pc = "probe", !.todo = Connected]
<1>1. s \in Run /\ s.pc = "list" /\ Sound(s)
  BY InvIsSound DEF TypeOK, List
<1>2. CASE Fail(p) /\ Fault
  BY <1>2, Counting, FailStep
<1>3. CASE Set(p, r) /\ Quiet
  <2>1. r \in Run /\ Sound(r)
    BY <1>1 DEF Run, Sound, Connected
  <2> QED BY <1>3, <2>1, Counting, RunStep
<1> QED BY <1>2, <1>3 DEF List

\* A board that is kept open reports the half of the run.
LEMMA ProbeStep ==
  ASSUME TypeOK, FlashInv, NEW p \in Proc, Probe(p)
  PROVE  TypeOK' /\ FlashInv'
<1> DEFINE s == run[p]
<1>1. s \in Run /\ s.pc = "probe" /\ Sound(s)
  BY InvIsSound DEF TypeOK, Probe
<1>2. PICK b \in s.todo :
        LET rest == [s EXCEPT !.todo = @ \ {b}] IN
        \/ /\ board[b] = "hid" /\ firmware[b].half = s.half
           /\ Set(p, [rest EXCEPT !.candidates = @ \cup {b}, !.held = @ \cup {b}])
           /\ Quiet
        \/ Set(p, [rest EXCEPT !.other = TRUE]) /\ Quiet
        \/ Set(p, rest) /\ (Quiet \/ Fault)
  BY DEF Probe
<1> DEFINE rest == [s EXCEPT !.todo = @ \ {b}]
           kept == [rest EXCEPT !.candidates = @ \cup {b}, !.held = @ \cup {b}]
           other == [rest EXCEPT !.other = TRUE]
<1>3. rest \in Run /\ kept \in Run /\ other \in Run
  BY <1>1 DEF Run
<1>4. Sound(rest) /\ Sound(other)
  BY <1>1 DEF Sound, Run
<1>5. CASE /\ board[b] = "hid" /\ firmware[b].half = s.half
           /\ Set(p, kept) /\ Quiet
  <2>1. Sound(kept)
    BY <1>1, <1>5 DEF Sound, Run
  <2> QED BY <1>3, <1>5, <2>1, Counting, RunStep
<1>6. CASE Set(p, other) /\ Quiet
  BY <1>3, <1>4, <1>6, Counting, RunStep
<1>7. CASE Set(p, rest) /\ (Quiet \/ Fault)
  BY <1>3, <1>4, <1>7, Counting, RunStep
<1> QED BY <1>2, <1>5, <1>6, <1>7

\* Deciding whom to ask changes only where the run stands.
LEMMA DecideStep ==
  ASSUME TypeOK, FlashInv, NEW p \in Proc, Decide(p)
  PROVE  TypeOK' /\ FlashInv'
<1> DEFINE s == run[p]
           ask == [s EXCEPT !.pc = "jump"]
           any == [s EXCEPT !.pc = "any", !.blind = TRUE]
<1>1. s \in Run /\ s.pc = "probe" /\ Sound(s)
  BY InvIsSound DEF TypeOK, Decide
<1>2. Set(p, ask) \/ Set(p, any) \/ Fail(p)
  BY DEF Decide
<1>3. Counted /\ SameWorld
  BY Counting DEF Decide
<1>4. ask \in Run /\ Sound(ask) /\ any \in Run /\ Sound(any)
  BY <1>1 DEF Run, Sound
<1> QED BY <1>2, <1>3, <1>4, RunStep, FailStep

\* A new volume is that of the board that was asked.
LEMMA TakeNewStep ==
  ASSUME TypeOK, FlashInv, NEW p \in Proc, TakeNew(p)
  PROVE  TypeOK' /\ FlashInv'
<1> DEFINE s == run[p]
<1>1. PICK m \in Path : New(p) = {m} /\ Set(p, [s EXCEPT !.pc = "copy", !.target = m])
  BY DEF TakeNew
<1> DEFINE r == [s EXCEPT !.pc = "copy", !.target = m]
<1>2. s \in Run /\ s.pc = "new" /\ Sound(s)
  BY InvIsSound DEF TypeOK, TakeNew
<1>3. r \in Run
  BY <1>2 DEF Run
<1>4. m \notin s.before /\ m # None
  BY <1>1, FlashAssumption DEF New
<1>5. Sound(r)
  BY <1>2, <1>4 DEF Sound, Run
<1> QED BY <1>1, <1>3, <1>5, Counting, RunStep DEF TakeNew

\* A run that falls back, or takes what volume there is, is blind.
LEMMA BlindStep ==
  ASSUME TypeOK, FlashInv, NEW p \in Proc, FallBack(p) \/ TakeAny(p)
  PROVE  TypeOK' /\ FlashInv'
<1> DEFINE s == run[p]
           any == [s EXCEPT !.pc = "any", !.blind = TRUE]
<1>1. s \in Run /\ s.pc \in {"new", "any"} /\ Sound(s)
  BY InvIsSound DEF TypeOK, FallBack, TakeAny
<1>2. CASE FallBack(p)
  <2>1. any \in Run /\ Sound(any)
    BY <1>1 DEF Run, Sound
  <2>2. Counted /\ SameWorld
    BY <1>2 DEF TypeOK, FallBack, Raise, Counted, SameWorld, Trouble
  <2> QED BY <1>2, <2>1, <2>2, RunStep DEF FallBack
<1>3. CASE TakeAny(p)
  <2>1. PICK m \in Path : Set(p, [s EXCEPT !.pc = "copy", !.target = m])
    BY <1>3 DEF TakeAny
  <2>0. m # None
    BY FlashAssumption
  <2> DEFINE r == [s EXCEPT !.pc = "copy", !.target = m]
  <2>2. s.pc = "any"
    BY <1>3 DEF TakeAny
  <2>3. r \in Run /\ Sound(r)
    BY <1>1, <2>0, <2>2 DEF Run, Sound
  <2> QED BY <1>3, <2>1, <2>3, Counting, RunStep DEF TakeAny
<1> QED BY <1>2, <1>3

\* Giving up, on a volume or on the verification.
LEMMA GiveUpStep ==
  ASSUME TypeOK, FlashInv, NEW p \in Proc, GiveUp(p) \/ VerifyTimeOut(p)
  PROVE  TypeOK' /\ FlashInv'
<1>1. Counted /\ SameWorld
  BY DEF TypeOK, GiveUp, VerifyTimeOut, Raise, Counted, SameWorld, Trouble
<1> QED BY <1>1, FailStep DEF GiveUp, VerifyTimeOut

\* The board that is seen is the only one of its half, and so the one asked.
LEMMA VerifyStep ==
  ASSUME TypeOK, FlashInv, NEW p \in Proc, Verify(p)
  PROVE  TypeOK' /\ FlashInv'
<1> DEFINE s == run[p]
           r == [s EXCEPT !.pc = "ok"]
<1>1. s \in Run /\ s.pc = "verify" /\ Sound(s) /\ OwnHalf
  BY InvIsSound DEF TypeOK, Verify
<1>2. PICK b \in Board : firmware[b] = Packaged(s.half)
  BY DEF Verify, Seen, Connected
<1>3. firmware[b].half = s.half /\ s.half # None
  BY <1>1, <1>2, FlashAssumption DEF Packaged, Run
<1>4. r \in Run /\ r.asked = s.asked /\ r.half = s.half /\ r.pc = "ok" /\ r.held = s.held
  BY <1>1 DEF Run
<1>5. ASSUME OneOfEach, Calm, s.asked \in Board PROVE s.asked = b
  <2>1. Side[b] = s.half
    BY <1>1, <1>3, <1>5 DEF OwnHalf, Calm
  <2>2. Side[s.asked] = s.half
    BY <1>1, <1>5 DEF Sound
  <2> QED BY <1>5, <2>1, <2>2 DEF OneOfEach
<1>6. Sound(r)
  BY <1>1, <1>2, <1>4, <1>5 DEF Sound
<1> QED BY <1>4, <1>6, Counting, RunStep DEF Verify

\* A step after which the boards are well typed, no half has the other one's
\* firmware, and every run is sound.
LEMMA WorldStep ==
  ASSUME TypeOK, Counted, WorldTyped', run' \in [Proc -> Run],
         OwnHalf', \A p \in Proc : Sound(run[p])'
  PROVE  TypeOK' /\ FlashInv'
<1>1. TypeOK'
  BY DEF TypeOK, WorldTyped, Counted
<1> QED BY <1>1, InvIsSoundNext

\* The board that jumps has reported the half, and has no volume.
LEMMA JumpStep ==
  ASSUME TypeOK, FlashInv, NEW p \in Proc, Jump(p)
  PROVE  TypeOK' /\ FlashInv'
<1> DEFINE s == run[p]
<1>1. s \in Run /\ s.pc = "jump" /\ Sound(s) /\ OwnHalf
  BY InvIsSound DEF TypeOK, Jump
<1>2. PICK b \in s.candidates :
        \/ /\ b \in s.held
           /\ board' = [board EXCEPT ![b] = "jumping"]
           /\ \/ Set(p, [s EXCEPT !.pc = "new", !.asked = b]) /\ UNCHANGED troubles
              \/ Fail(p) /\ troubles' = troubles \cup {"fault"}
           /\ UNCHANGED <<mount, firmware, moves, starts>>
        \/ Fail(p) /\ (Quiet \/ Fault)
  BY DEF Jump
<1>3. CASE Fail(p) /\ (Quiet \/ Fault)
  BY <1>3, Counting, FailStep
<1>4. CASE /\ b \in s.held
           /\ board' = [board EXCEPT ![b] = "jumping"]
           /\ \/ Set(p, [s EXCEPT !.pc = "new", !.asked = b]) /\ UNCHANGED troubles
              \/ Fail(p) /\ troubles' = troubles \cup {"fault"}
           /\ UNCHANGED <<mount, firmware, moves, starts>>
  <2> DEFINE r == [s EXCEPT !.pc = "new", !.asked = b]
             f == At("failed", s.half)
  <2>1. b \in Board /\ board[b] \in {"hid", "jumping"} /\ firmware[b].half = s.half
    BY <1>1, <1>4 DEF Run, Sound
  <2>2. WorldTyped'
    BY <1>4, <2>1 DEF TypeOK, WorldTyped
  <2>3. Counted /\ Calm' = Calm /\ ("stray" \in troubles' <=> "stray" \in troubles)
    BY <1>4 DEF TypeOK, Counted, Trouble, Calm
  <2>4. OwnHalf'
    BY <1>1, <1>4, <2>3 DEF OwnHalf, Calm
  <2>5. s.half # None /\ (Calm => Side[b] = s.half)
    <3>1. s.half \in Half /\ s.half # None
      BY <1>1, FlashAssumption DEF Run
    <3>2. Calm => firmware[b].half \in {Side[b], None}
      BY <1>1, <2>1 DEF OwnHalf, Calm
    <3> QED BY <2>1, <3>1, <3>2
  <2>6. r \in Run /\ f \in Run
    <3>1. s.half \in Half
      BY <1>1 DEF Run
    <3> QED BY <1>1, <2>1, <3>1, RunWith, AtTyped DEF PC
  <2>7. PICK n \in Run : Set(p, n) /\ (n = r \/ n = f)
    BY <1>4, <2>6 DEF Fail
  <2>8. /\ run' \in [Proc -> Run] /\ run'[p] = n
        /\ \A o \in Proc \ {p} : run'[o] = run[o]
    BY <2>7, SetTyped
  <2>9. Sound(n)'
    <3>1. CASE n = f
      BY <3>1, <1>1, FlashAssumption DEF Sound, At, Run
    <3>2. CASE n = r
      <4>1. /\ n.held = s.held /\ n.half = s.half /\ n.pc = "new" /\ n.asked = b
            /\ n.before = s.before /\ s.asked = None
        BY <1>1, <3>2 DEF Run, Sound
      <4>2. \A x \in n.held : board'[x] \in {"hid", "jumping"} /\ firmware'[x].half = n.half
        BY <1>1, <1>4, <4>1 DEF Sound, TypeOK
      <4>3. "stray" \notin troubles' =>
              \A x \in Board : mount'[x] # None => mount'[x] \in n.before \/ x = n.asked
        BY <1>1, <1>4, <2>3, <4>1, FlashAssumption DEF Sound
      <4> QED BY <2>3, <2>5, <4>1, <4>2, <4>3 DEF Sound
    <3> QED BY <2>7, <3>1, <3>2
  <2>10. \A o \in Proc : Sound(run[o])'
    <3> SUFFICES ASSUME NEW o \in Proc PROVE Sound(run[o])'
      OBVIOUS
    <3>1. CASE o = p
      BY <2>8, <2>9, <3>1 DEF Sound
    <3>2. CASE o # p
      <4>1. Sound(run[o]) /\ run'[o] = run[o] /\ run[o] \in Run
        BY <2>8, <3>2, InvIsSound DEF TypeOK
      <4>2. \A x \in run[o].held : board'[x] \in {"hid", "jumping"}
        BY <1>4, <4>1 DEF TypeOK, Sound, Run
      <4> QED BY <1>4, <2>3, <4>1, <4>2 DEF Sound
    <3> QED BY <3>1, <3>2
  <2>11. Counted /\ run' \in [Proc -> Run]
    BY <2>3, <2>8
  <2> QED BY <2>2, <2>4, <2>10, <2>11, WorldStep
<1> QED BY <1>2, <1>3, <1>4

\* A file that reaches a board is, unless the run is blind, that of its half.
LEMMA CopyToStep ==
  ASSUME TypeOK, FlashInv, NEW p \in Proc, run[p].pc = "copy",
         NEW b \in Board, mount[b] = run[p].target,
         NEW takes \in BOOLEAN, NEW succeeds \in BOOLEAN, CopyTo(p, b, takes, succeeds)
  PROVE  TypeOK' /\ FlashInv'
<1> DEFINE s == run[p]
           r == [s EXCEPT !.pc = "verify", !.wrote = b]
           f == At("failed", s.half)
<1>1. s \in Run /\ Sound(s) /\ OwnHalf /\ s.half \in Half
  BY InvIsSound DEF TypeOK, Run
<1>2. r \in Run /\ f \in Run
  BY <1>1, RunWith, AtTyped DEF PC
<1>3. PICK n \in Run : Set(p, n) /\ (n = r \/ n = f)
  BY <1>2 DEF CopyTo, Fail
<1>4. /\ run' \in [Proc -> Run] /\ run'[p] = n
      /\ \A o \in Proc \ {p} : run'[o] = run[o]
  BY <1>3, SetTyped
<1>5. /\ Counted /\ (Calm' => Calm /\ ~ s.blind)
      /\ ("stray" \in troubles' <=> "stray" \in troubles)
  <2>1. troubles' = troubles \cup {t \in {"fault"} : ~ (takes /\ succeeds)}
                             \cup {t \in {"blind"} : s.blind}
    BY DEF CopyTo
  <2>2. troubles' \subseteq Trouble /\ troubles \subseteq troubles'
    BY <2>1 DEF TypeOK, Trouble
  <2>3. moves' \in 0..MaxMoves /\ starts' \in 0..MaxStarts
    BY DEF CopyTo, TypeOK
  <2> QED BY <2>1, <2>2, <2>3 DEF Counted, Calm
<1>6. s.target # None /\ board[b] = "boot"
  BY <1>1 DEF Sound, TypeOK
<1>7. \/ ~ takes /\ SameWorld
      \/ /\ takes
         /\ firmware' = [firmware EXCEPT ![b] = Packaged(s.half)]
         /\ board' = [board EXCEPT ![b] = "starting"]
         /\ mount' = [mount EXCEPT ![b] = None]
  BY DEF CopyTo, SameWorld
<1>8. Packaged(s.half) \in Firmware /\ Packaged(s.half).half = s.half
  BY <1>1 DEF Packaged, Firmware
<1>9. WorldTyped'
  BY <1>7, <1>8 DEF TypeOK, WorldTyped, SameWorld
<1>10. Calm' => b = s.asked /\ Side[b] = s.half
  BY <1>1, <1>5 DEF Sound, Calm
<1>11. OwnHalf'
  BY <1>1, <1>5, <1>7, <1>8, <1>10 DEF OwnHalf, Calm, SameWorld, TypeOK
<1>12. Sound(n)'
  <2>1. CASE n = f
    BY <2>1, <1>1, FlashAssumption DEF Sound, At
  <2>2. CASE n = r
    <3>1. n.held = s.held /\ n.half = s.half /\ n.pc = "verify" /\ n.asked = s.asked
      BY <1>1, <2>2 DEF Run
    <3>2. \A x \in s.held : x \in Board /\ x # b
      BY <1>1, <1>6 DEF Sound, Run
    <3>3. \A x \in n.held : board'[x] \in {"hid", "jumping"} /\ firmware'[x].half = n.half
      BY <1>1, <1>7, <3>1, <3>2 DEF Sound, TypeOK, SameWorld
    <3> QED BY <1>1, <1>5, <3>1, <3>3 DEF Sound
  <2> QED BY <1>3, <2>1, <2>2
<1>13. \A o \in Proc : Sound(run[o])'
  <2> SUFFICES ASSUME NEW o \in Proc, o # p PROVE Sound(run[o])'
    BY <1>4, <1>12 DEF Sound
  <2>1. Sound(run[o]) /\ run'[o] = run[o] /\ run[o] \in Run
    BY <1>4, InvIsSound DEF TypeOK
  <2>2. \A x \in run[o].held : x \in Board /\ x # b
    BY <1>6, <2>1 DEF Sound, Run
  <2>3. \A x \in run[o].held : board'[x] \in {"hid", "jumping"} /\ firmware'[x].half = run[o].half
    BY <1>7, <2>1, <2>2 DEF Sound, TypeOK, SameWorld
  <2>4. \A x \in Board : mount'[x] # None => mount'[x] = mount[x]
    BY <1>7 DEF TypeOK, SameWorld
  <2>5. run[o].pc = "copy" => run[o].target # None
    BY <2>1 DEF Sound
  <2>6. ASSUME OneOfEach, Calm', run[o].pc = "ok", run[o].asked \in Board
        PROVE  firmware'[run[o].asked] = Packaged(run[o].half)
    <3>1. Calm /\ Side[run[o].asked] = run[o].half
      BY <1>5, <2>1, <2>6 DEF Sound
    <3>2. firmware[run[o].asked] = Packaged(run[o].half)
      BY <2>1, <2>6, <3>1 DEF Sound
    <3> QED BY <1>7, <1>10, <2>6, <3>1, <3>2 DEF TypeOK, SameWorld
  <2> QED BY <1>5, <2>1, <2>3, <2>4, <2>5, <2>6 DEF Sound
<1> QED BY <1>4, <1>5, <1>9, <1>11, <1>13, WorldStep

\* A copy reaches a board, or nobody.
LEMMA CopyStep ==
  ASSUME TypeOK, FlashInv, NEW p \in Proc, Copy(p)
  PROVE  TypeOK' /\ FlashInv'
<1> DEFINE s == run[p]
           r == [s EXCEPT !.pc = "verify"]
<1>1. s \in Run /\ s.pc = "copy" /\ Sound(s)
  BY InvIsSound DEF TypeOK, Copy
<1>2. CASE \E b \in Board : \E takes, succeeds \in BOOLEAN :
             mount[b] = s.target /\ CopyTo(p, b, takes, succeeds)
  BY <1>1, <1>2, CopyToStep
<1>3. CASE Fail(p) /\ Quiet
  BY <1>3, Counting, FailStep
<1>4. CASE Set(p, r) /\ Quiet
  <2>1. r \in Run /\ Sound(r)
    BY <1>1 DEF Run, Sound
  <2> QED BY <1>4, <2>1, Counting, RunStep
<1> QED BY <1>2, <1>3, <1>4 DEF Copy

\* A board moves: runs at most lose a descriptor, volumes come with a trouble
\* or to the run that asked, and firmware stays.
LEMMA BoardMoves ==
  ASSUME TypeOK, FlashInv, Counted, WorldTyped', firmware' = firmware,
         NEW b \in Board,
         run' = run \/ Drop(b),
         \A x \in Board : board'[x] # board[x] =>
           x = b /\ (Drop(b) \/ board[x] \notin {"hid", "jumping"}),
         \A x \in Board : mount'[x] # None =>
           \/ mount'[x] = mount[x]
           \/ \A p \in Proc : UnderWay(p) => run[p].asked = x \/ "stray" \in troubles'
  PROVE  TypeOK' /\ FlashInv'
<1>1. run \in [Proc -> Run]
  BY DEF TypeOK
<1>2. ASSUME NEW p \in Proc
      PROVE  /\ run'[p] \in Run
             /\ \E h \in SUBSET run[p].held : run'[p] = [run[p] EXCEPT !.held = h]
             /\ Drop(b) => b \notin run'[p].held
  <2>1. run[p] \in Run
    BY <1>1
  <2>2. ASSUME Drop(b)
        PROVE  run'[p] = [run[p] EXCEPT !.held = run[p].held \ {b}]
    BY <2>2 DEF Drop
  <2>3. ASSUME Drop(b) PROVE b \notin run'[p].held
    BY <2>1, <2>2, <2>3 DEF Run
  <2>4. \E h \in SUBSET run[p].held : run'[p] = [run[p] EXCEPT !.held = h]
    <3>1. CASE run' = run
      <4>1. run'[p] = [run[p] EXCEPT !.held = run[p].held]
        BY <2>1, <3>1 DEF Run
      <4> QED BY <4>1
    <3>2. CASE Drop(b)
      BY <2>2, <3>2
    <3> QED BY <3>1, <3>2
  <2>5. run'[p] \in Run
    BY <2>1, <2>4 DEF Run
  <2> QED BY <2>3, <2>4, <2>5
<1>3. run' \in [Proc -> Run]
  <2>1. CASE run' = run
    BY <1>1, <2>1
  <2>2. CASE Drop(b)
    BY <1>2, <2>2 DEF Drop
  <2> QED BY <2>1, <2>2
<1>4. (Calm' => Calm) /\ ("stray" \notin troubles' => "stray" \notin troubles)
  BY DEF Counted, Calm
<1>5. OwnHalf'
  BY <1>4, InvIsSound DEF OwnHalf, Calm
<1>6. \A p \in Proc : Sound(run[p])'
  <2> SUFFICES ASSUME NEW p \in Proc PROVE Sound(run[p])'
    OBVIOUS
  <2>1. Sound(run[p]) /\ run[p] \in Run
    BY <1>1, InvIsSound
  <2>2. /\ run'[p].pc = run[p].pc /\ run'[p].half = run[p].half
        /\ run'[p].before = run[p].before /\ run'[p].target = run[p].target
        /\ run'[p].asked = run[p].asked /\ run'[p].blind = run[p].blind
        /\ run'[p].held \subseteq run[p].held
    <3>1. PICK h \in SUBSET run[p].held : run'[p] = [run[p] EXCEPT !.held = h]
      BY <1>2
    <3> QED BY <2>1, <3>1 DEF Run
  <2>3. \A x \in run'[p].held : board'[x] \in {"hid", "jumping"} /\ firmware'[x].half = run'[p].half
    <3> SUFFICES ASSUME NEW x \in run'[p].held
                 PROVE  board'[x] \in {"hid", "jumping"} /\ firmware'[x].half = run'[p].half
      OBVIOUS
    <3>1. x \in run[p].held /\ x \in Board
      BY <2>1, <2>2 DEF Run
    <3>2. board[x] \in {"hid", "jumping"} /\ firmware[x].half = run[p].half
      BY <2>1, <3>1 DEF Sound
    <3>3. board'[x] = board[x]
      BY <1>2, <3>1, <3>2
    <3> QED BY <2>2, <3>2, <3>3
  <2>4. ASSUME "stray" \notin troubles', NEW x \in Board, mount'[x] # None, UnderWay(p)
        PROVE  mount'[x] = mount[x] \/ run[p].asked = x
    BY <2>4
  <2>5. ASSUME "stray" \notin troubles', NEW x \in Board
        PROVE  /\ run[p].pc \in {"list", "probe", "jump", "new"} /\ mount'[x] # None =>
                    mount'[x] \in run[p].before \/ x = run[p].asked
               /\ run[p].pc = "copy" /\ ~ run[p].blind /\ mount'[x] = run[p].target =>
                    x = run[p].asked
    <3>1. CASE run[p].pc \in {"list", "probe", "jump", "new"}
      BY <1>4, <2>1, <2>4, <2>5, <3>1 DEF Sound, UnderWay
    <3>2. CASE run[p].pc = "copy"
      BY <1>4, <2>1, <2>4, <2>5, <3>2 DEF Sound, UnderWay
    <3> QED BY <3>1, <3>2
  <2> QED BY <1>4, <2>1, <2>2, <2>3, <2>5 DEF Sound
<1> QED BY <1>3, <1>5, <1>6, WorldStep

\* What a board does by itself, or has done to it.
LEMMA BoardActs ==
  ASSUME TypeOK, FlashInv, NEW b \in Board, BoardStep(b)
  PROVE  TypeOK' /\ FlashInv'
<1>1. Counted
  <2>1. troubles' = troubles \/ \E t \in {"stray", "pulled"} : troubles' \in {troubles, troubles \cup {t}}
    BY DEF BoardStep, Mount, Boot, Restart, Plug, Unplug, Raise
  <2>2. moves' \in 0..MaxMoves /\ starts' \in 0..MaxStarts
    <3>1. moves \in 0..MaxMoves /\ starts \in 0..MaxStarts /\ MaxMoves \in Nat
      BY FlashAssumption DEF TypeOK
    <3>2. starts' = starts
      BY DEF BoardStep, Mount, Boot, Restart, Plug, Unplug
    <3>3. moves' = moves \/ (moves < MaxMoves /\ moves' = moves + 1)
      BY DEF BoardStep, Mount, Boot, Restart, Plug, Unplug
    <3> QED BY <3>1, <3>2, <3>3
  <2> QED BY <2>1, <2>2 DEF TypeOK, Counted, Trouble
<1>2. firmware' = firmware
  BY DEF BoardStep, Mount, Boot, Restart, Plug, Unplug
<1>3. CASE Mount(b)
  <2>1. PICK m \in Path \ Volumes : mount' = [mount EXCEPT ![b] = m]
    BY <1>3 DEF Mount
  <2>2. \A x \in Board : mount[x] # m
    BY <2>1, FlashAssumption DEF Volumes
  <2>3. WorldTyped'
    BY <1>3, <2>1, <2>2 DEF TypeOK, WorldTyped, Mount
  <2>4. \A x \in Board : mount'[x] # None =>
          mount'[x] = mount[x] \/ \A p \in Proc : UnderWay(p) => run[p].asked = x \/ "stray" \in troubles'
    BY <1>3, <2>1 DEF TypeOK, Mount, Raise
  <2>5. run' = run /\ board' = board
    BY <1>3 DEF Mount
  <2> QED BY <1>1, <1>2, <2>3, <2>4, <2>5, BoardMoves
<1>4. CASE Boot(b)
  <2>1. WorldTyped'
    BY <1>4 DEF TypeOK, WorldTyped, Boot
  <2>2. Drop(b) /\ mount' = mount /\ \A x \in Board : board'[x] # board[x] => x = b
    BY <1>4 DEF TypeOK, Boot
  <2> QED BY <1>1, <1>2, <2>1, <2>2, BoardMoves
<1>5. CASE Restart(b) \/ Plug(b)
  <2>1. WorldTyped'
    BY <1>5 DEF TypeOK, WorldTyped, Restart, Plug
  <2>2. run' = run /\ mount' = mount
        /\ \A x \in Board : board'[x] # board[x] => x = b /\ board[x] \notin {"hid", "jumping"}
    BY <1>5 DEF TypeOK, Restart, Plug
  <2> QED BY <1>1, <1>2, <2>1, <2>2, BoardMoves
<1>6. CASE Unplug(b)
  <2>1. WorldTyped'
    BY <1>6 DEF TypeOK, WorldTyped, Unplug
  <2>2. Drop(b) /\ \A x \in Board : board'[x] # board[x] => x = b
    BY <1>6 DEF TypeOK, Unplug
  <2>3. \A x \in Board : mount'[x] # None => mount'[x] = mount[x]
    BY <1>6 DEF TypeOK, Unplug
  <2> QED BY <1>1, <1>2, <2>1, <2>2, <2>3, BoardMoves
<1> QED BY <1>3, <1>4, <1>5, <1>6 DEF BoardStep

\* In the first state no run has begun, and every half has its own firmware,
\* or one that reports none.
LEMMA InitInv == Init => TypeOK /\ FlashInv
<1> SUFFICES ASSUME Init PROVE TypeOK /\ FlashInv
  OBVIOUS
<1>1. PICK h \in Half : \A p \in Proc : run[p] = At("idle", h)
  <2>1. (CHOOSE x \in Half : TRUE) \in Half
    BY FlashAssumption
  <2> QED BY <2>1 DEF Init
<1>2. OwnHalf
  BY FlashAssumption DEF Init, OwnHalf
<1>3. \A p \in Proc : Sound(run[p])
  BY <1>1, FailedIsSound
<1>4. WorldTyped
  BY FlashAssumption DEF Init, WorldTyped, Firmware
<1>5. run \in [Proc -> Run]
  BY <1>1, AtTyped DEF Init, PC
<1>6. TypeOK
  BY <1>4, <1>5, FlashAssumption DEF Init, TypeOK, WorldTyped
<1> QED BY <1>2, <1>3, <1>6, InvIsSound

\* Every step of a run or of a board keeps the types and the invariant.
LEMMA NextInv == TypeOK /\ FlashInv /\ [Next]_vars => TypeOK' /\ FlashInv'
<1> SUFFICES ASSUME TypeOK, FlashInv, [Next]_vars PROVE TypeOK' /\ FlashInv'
  OBVIOUS
<1>1. CASE \E p \in Proc : Start(p)
  BY <1>1, StartStep
<1>2. CASE \E p \in Proc : Step(p)
  BY <1>2, ListStep, ProbeStep, DecideStep, JumpStep, TakeNewStep, BlindStep, GiveUpStep,
     CopyStep, VerifyStep DEF Step
<1>3. CASE \E b \in Board : BoardStep(b)
  BY <1>3, BoardActs
<1>4. CASE UNCHANGED vars
  <2>1. TypeOK'
    BY <1>4 DEF TypeOK, vars
  <2>2. OwnHalf' /\ \A p \in Proc : Sound(run[p])'
    BY <1>4, InvIsSound DEF OwnHalf, Sound, vars, Calm
  <2> QED BY <2>1, <2>2, InvIsSoundNext
<1> QED BY <1>1, <1>2, <1>3, <1>4 DEF Next

\* In every state the types hold, and with them how the memory of each run
\* stands to the boards.
THEOREM FlashInvariant == Spec => [](TypeOK /\ FlashInv)
BY InitInv, NextInv, PTL DEF Spec

\* Every state is well typed: only a board in its bootloader has a volume, and
\* no two boards have one at the same place.
THEOREM FlashTypeCorrect == Spec => []TypeOK
BY FlashInvariant, PTL

\* However many boards and runs there are and however these overlap, fail and
\* time out: unless a run fell back on a volume it knew nothing of, or one
\* appeared that was not asked for, no half has the firmware of the other.
THEOREM OwnHalfKept == Spec => []OwnHalf
<1>1. FlashInv => OwnHalf
  BY DEF FlashInv
<1> QED BY <1>1, FlashInvariant, PTL

\* Likewise, with one board of each half, a run that reports its firmware
\* verified is right about the board that it asked to jump.
THEOREM VerifiedIsRight == Spec => []VerifiedIsFlashed
<1>1. FlashInv => VerifiedIsFlashed
  BY DEF FlashInv
<1> QED BY <1>1, FlashInvariant, PTL
=============================================================================
