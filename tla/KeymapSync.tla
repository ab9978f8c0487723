----------------------------- MODULE KeymapSync -----------------------------
(***************************************************************************)
(* sync_keymap_command_with_config of silakka54-sync against one keyboard: *)
(* the apply that the user, the activation script and the watch daemon all *)
(* run, any number of them at the same time.                               *)
(*                                                                         *)
(* A run opens the keyboard four times.  It probes the VIA protocol, reads *)
(* the firmware status to see whether the ABI is the expected one, reads   *)
(* that status again on the descriptor over which it then brings the       *)
(* keymap up to date, and finally brings layout options and macros up to   *)
(* date on a descriptor of their own.  Storage is compared and written in  *)
(* groups: a key is a group of one cell, the macro buffer one of several.  *)
(* A group that differs is written; layout options and macros are read     *)
(* back after the write, keys are not.                                     *)
(***************************************************************************)
EXTENDS HidTransaction, FiniteSets

CONSTANTS
    ProtocolPage,   \* stands for the VIA protocol version request
    StatusPages,    \* the pages firmware_status reads, in order
    KeyGroups,      \* the keymap entries, each a sequence of one cell
    ViaGroups,      \* layout options, then the macro buffer's chunks
    ExpectedAbi,    \* EXPECTED_ABI_HASH of the packaged firmware
    Desired         \* per run, what its configuration says of each cell


Plan == [keymap |-> KeyGroups, via |-> ViaGroups]
Checks == [probe |-> <<ProtocolPage>>, compat |-> StatusPages, keymap |-> StatusPages]
InGroups(c, groups) == \E g \in 1..Len(groups) : \E i \in 1..Len(groups[g]) : groups[g][i] = c
KeyCells == {c \in Cell : InGroups(c, KeyGroups)}
ViaCells == {c \in Cell : InGroups(c, ViaGroups)}
Governed == KeyCells \cup ViaCells

ASSUME SyncAssumption ==
    /\ ProtocolPage \in Page \ {HashPage}
    /\ StatusPages \in Seq(Page) /\ StatusPages # <<>>
    /\ \E i \in 1..Len(StatusPages) : StatusPages[i] = HashPage
    /\ \A i \in 1..Len(StatusPages) : StatusPages[i] # ProtocolPage
    /\ \A groups \in {KeyGroups, ViaGroups} :
         /\ groups \in Seq(Seq(Cell)) /\ groups # <<>>
         /\ \A g \in 1..Len(groups) : groups[g] # <<>>
    /\ KeyCells \cap ViaCells = {}
    /\ ExpectedAbi \in Abi
    /\ Desired \in [Proc -> [Cell -> Value]]

VARIABLES
    run,       \* per process: where its run stands
    replaced,  \* history: runs during or after which the keyboard was replaced
    solo       \* history: the latest run, or None once two runs have overlapped

vars == <<reg, abi, toDevice, fd, queue, run, replaced, solo>>

Ended == {"skipped", "failed", "ok"}
Stage == {"off", "probe", "compat", "keymap", "via"} \cup Ended
Step == {"open", "check", "read", "write", "verify"}

\* Where a run stands: its stage and step, the group and the position in it
\* (or the page) it has reached, whether it has seen a difference so far (in
\* the group, or between the ABI and the expected one), and whether it has a
\* transaction under way.
RunState == [stage : Stage, step : Step, grp : Nat, pos : Nat,
             differs : BOOLEAN, waiting : BOOLEAN]

Enter(stage) == [stage |-> stage, step |-> "open", grp |-> 1, pos |-> 1,
                 differs |-> FALSE, waiting |-> FALSE]

Move(s, step, grp, pos, differs) ==
    [stage |-> s.stage, step |-> step, grp |-> grp, pos |-> pos,
     differs |-> differs, waiting |-> FALSE]

Running(s) == s.stage \notin Ended \cup {"off"}
Alive(p) == Running(run[p])

SyncInit ==
    /\ HidInit
    /\ run = [p \in Proc |-> Enter("off")]
    /\ replaced = {}
    /\ solo = None

-----------------------------------------------------------------------------
(* Where a run goes next, as functions of where it stands *)

\* Mutant: the loop over a group runs one cell too far.
RunsPastGroup(s) == s.pos > Len(Plan[s.stage][s.grp])

GroupAt(s) == Plan[s.stage][s.grp]
CellAt(s) == GroupAt(s)[s.pos]
AtGroupEnd(s) == s.pos = Len(GroupAt(s))

\* The request a run has under way, or issues next.
RequestAt(p, s) ==
    CASE s.step = "check" -> Query(Checks[s.stage][s.pos])
      [] s.step = "write" -> Set(CellAt(s), Desired[p][CellAt(s)])
      [] OTHER -> Get(CellAt(s))

\* Mutant: a run ends once the keymap is done.
SkipsVia(s) ==
    IF s.grp < Len(Plan[s.stage])
      THEN Move(s, "read", s.grp + 1, 1, FALSE)
      ELSE Enter("ok")

\* The group is settled: the next one, the next stage, or the end of the run.
NextGroup(s) ==
    IF s.grp < Len(Plan[s.stage])
      THEN Move(s, "read", s.grp + 1, 1, FALSE)
      ELSE Enter(IF s.stage = "keymap" THEN "via" ELSE "ok")

\* Mutant: on the keymap's descriptor the status is read, not judged.
AfterPageUnjudged(s, same) ==
    LET differs == s.differs \/ ~ same IN
    IF s.pos < Len(Checks[s.stage]) THEN Move(s, "check", 1, s.pos + 1, differs)
    ELSE IF s.stage = "keymap" THEN Move(s, "read", 1, 1, FALSE)
    ELSE IF differs THEN Enter("failed")
    ELSE Enter(IF s.stage = "probe" THEN "compat" ELSE "keymap")

\* A page of the status; after the last one the ABI decides.
AfterPage(s, same) ==
    LET differs == s.differs \/ ~ same IN
    IF s.pos < Len(Checks[s.stage]) THEN Move(s, "check", 1, s.pos + 1, differs)
    ELSE IF differs THEN Enter("failed")
    ELSE IF s.stage = "probe" THEN Enter("compat")
    ELSE IF s.stage = "compat" THEN Enter("keymap")
    ELSE Move(s, "read", 1, 1, FALSE)

\* A cell was read: the group is compared as a whole before any write.
AfterRead(s, same) ==
    LET differs == s.differs \/ ~ same IN
    IF ~ AtGroupEnd(s) THEN Move(s, "read", s.grp, s.pos + 1, differs)
    ELSE IF differs THEN Move(s, "write", s.grp, 1, FALSE)
    ELSE NextGroup(s)

\* A write was acknowledged.
AfterWrite(s) ==
    IF ~ AtGroupEnd(s) THEN Move(s, "write", s.grp, s.pos + 1, FALSE)
    ELSE IF s.stage = "via" THEN Move(s, "verify", s.grp, 1, FALSE)
    ELSE NextGroup(s)

\* A cell was read back after the write.
AfterVerify(s, same) ==
    LET differs == s.differs \/ ~ same IN
    IF ~ AtGroupEnd(s) THEN Move(s, "verify", s.grp, s.pos + 1, differs)
    ELSE IF differs THEN Enter("failed")
    ELSE NextGroup(s)

AfterAnswer(p, s, r) ==
    CASE s.step = "check" -> AfterPage(s, r.at # HashPage \/ r.val = ExpectedAbi)
      [] s.step = "read" -> AfterRead(s, r.val = Desired[p][CellAt(s)])
      [] s.step = "write" -> AfterWrite(s)
      [] s.step = "verify" -> AfterVerify(s, r.val = Desired[p][CellAt(s)])

-----------------------------------------------------------------------------
(* Actions of a run *)

\* So far the runs have come one after the other, however each of them ended.
InTurn == solo # None \/ \A p \in Proc : run[p].stage = "off"

Start(p) ==
    /\ run[p].stage = "off"
    /\ run' = [run EXCEPT ![p] = Enter("probe")]
    /\ solo' = IF InTurn /\ \A o \in Proc : ~ Alive(o) THEN p ELSE None
    /\ UNCHANGED <<reg, abi, toDevice, fd, queue, replaced>>

\* Mutant: the keymap stage relies on the check made on an earlier descriptor.
ChecksOnce(stage) == IF stage \in {"keymap", "via"} THEN "read" ELSE "check"

\* The VIA stage reads no status: only the two before it look at the firmware.
FirstStep(stage) == IF stage = "via" THEN "read" ELSE "check"

Open(p) ==
    /\ Alive(p) /\ run[p].step = "open"
    /\ OpenHid(p)
    /\ run' = [run EXCEPT ![p] = Move(@, FirstStep(@.stage), 1, 1, FALSE)]
    /\ UNCHANGED <<replaced, solo>>

\* Mutant: a write is sent and not waited for.
AskAndGoOn(p) ==
    /\ Alive(p) /\ run[p].step # "open" /\ ~ run[p].waiting
    /\ WriteRequest(p, RequestAt(p, run[p]))
    /\ run' = [run EXCEPT ![p] = IF @.step = "write" /\ @.stage = "keymap"
                                  THEN AfterWrite(@)
                                  ELSE [@ EXCEPT !.waiting = TRUE]]
    /\ UNCHANGED <<replaced, solo>>

Ask(p) ==
    /\ Alive(p) /\ run[p].step # "open" /\ ~ run[p].waiting
    /\ WriteRequest(p, RequestAt(p, run[p]))
    /\ run' = [run EXCEPT ![p].waiting = TRUE]
    /\ UNCHANGED <<replaced, solo>>

\* Mutant: a request is written once.
RetryNever(p) == FALSE /\ UNCHANGED vars

Retry(p) ==
    /\ run[p].waiting
    /\ WriteRequest(p, RequestAt(p, run[p]))
    /\ UNCHANGED <<run, replaced, solo>>

Skip(p) ==
    /\ run[p].waiting
    /\ Discard(p, RequestAt(p, run[p]))
    /\ UNCHANGED <<run, replaced, solo>>

\* The answer to the transaction under way takes the run on.  Leaving the
\* stage closes the descriptor.
Accept(p) ==
    /\ run[p].waiting
    /\ LET s == run[p]
           next == AfterAnswer(p, s, Head(queue[p]))
       IN /\ Receive(p, RequestAt(p, s), next.stage = s.stage)
          /\ run' = [run EXCEPT ![p] = next]
    /\ UNCHANGED <<replaced, solo>>

\* A keyboard that does not even answer the probe is not a VIA device: the
\* command finds nothing to do and succeeds.  Later errors fail the run.
Abandon(p) ==
    /\ CloseHid(p)
    /\ run' = [run EXCEPT ![p] = Enter(IF @.stage = "probe" THEN "skipped" ELSE "failed")]
    /\ UNCHANGED <<replaced, solo>>

\* Mutant: every retry pushes the deadline out.
TimeOutWhenQuiet(p) ==
    MayTimeOut /\ run[p].waiting /\ toDevice = <<>> /\ Abandon(p)

TimeOut(p) == MayTimeOut /\ run[p].waiting /\ Abandon(p)

\* Reading or writing a dead descriptor fails.
Disconnected(p) == Alive(p) /\ fd[p] = "dead" /\ Abandon(p)

\* Opening fails while the keyboard is away.
OpenFails(p) == MayReplug /\ Alive(p) /\ run[p].step = "open" /\ Abandon(p)

HostStep(p) ==
    \/ Open(p) \/ Ask(p) \/ Retry(p) \/ Skip(p) \/ Accept(p)
    \/ TimeOut(p) \/ Disconnected(p) \/ OpenFails(p)

KeyboardStep ==
    /\ Handle \/ LoseRequest
    /\ UNCHANGED <<run, replaced, solo>>

Replace ==
    /\ Reconnect
    /\ replaced' = {p \in Proc : run[p].stage # "off"}
    /\ UNCHANGED <<run, solo>>

Next ==
    \/ KeyboardStep
    \/ Replace
    \/ \E p \in Proc : Start(p) \/ HostStep(p)

Spec == SyncInit /\ [][Next]_vars

\* The keyboard keeps answering and a run keeps executing: its loops neither
\* wait without a bound nor stop before they are done.
FairSpec ==
    /\ Spec
    /\ WF_vars(KeyboardStep)
    /\ \A p \in Proc : WF_vars(HostStep(p)) /\ WF_vars(TimeOut(p))

\* The answer to a request of p that is under way gets to p.
Deliver(p) ==
    /\ KeyboardStep
    /\ run[p].waiting /\ Head(toDevice) = RequestAt(p, run[p])
    /\ Len(queue'[p]) > Len(queue[p])

\* A request written again and again is not lost for ever.
RetrySpec ==
    /\ Spec
    /\ WF_vars(KeyboardStep)
    /\ \A p \in Proc :
         /\ WF_vars(Open(p)) /\ WF_vars(Ask(p)) /\ WF_vars(Retry(p))
         /\ WF_vars(Skip(p)) /\ WF_vars(Accept(p))
         /\ SF_vars(Deliver(p))

-----------------------------------------------------------------------------
(* Properties *)

\* A run that compares or writes stands at a cell that exists, one that
\* checks at a page that exists, and only such a run has a request out.
WellPlaced(s) ==
    /\ s.waiting => Running(s) /\ s.step # "open"
    /\ Running(s) /\ s.step = "check" =>
         s.stage \in DOMAIN Checks /\ s.pos \in 1..Len(Checks[s.stage])
    /\ Running(s) /\ s.step \in {"read", "write", "verify"} =>
         /\ s.stage \in DOMAIN Plan
         /\ s.grp \in 1..Len(Plan[s.stage])
         /\ s.pos \in 1..Len(GroupAt(s))

\* The types of both modules' variables, and every run well placed in its
\* loops over pages, groups and cells.
TypeOK ==
    /\ HidTypeOK
    /\ run \in [Proc -> RunState]
    /\ replaced \subseteq Proc
    /\ solo \in Proc \cup {None}
    /\ \A p \in Proc : WellPlaced(run[p])

Carries(cells, p) == \A c \in cells : reg[c] = Desired[p][c]
SameConfiguration == \A p, q \in Proc : Desired[p] = Desired[q]

\* Runs of one configuration, however they overlap, lose, repeat or mistake
\* each other's reports: once one of them has succeeded, and as long as the
\* keyboard is not replaced, every key, layout option and macro is as
\* configured, and no late duplicate of another run takes that back.
ConvergedOnSuccess ==
    SameConfiguration =>
      \A p \in Proc : run[p].stage = "ok" /\ p \notin replaced
                        => Carries(Governed, p)

\* Runs of different configurations that come one after the other: one that
\* succeeds leaves its own configuration on the keyboard.  What its predecessors
\* left in flight, those that timed out included, neither misleads it nor
\* overwrites what it wrote.
LastRunWins ==
    solo # None /\ run[solo].stage = "ok" /\ solo \notin replaced
      => Carries(Governed, solo)

WritesUnder(cells) ==
    \A i \in 1..Len(toDevice) :
      toDevice[i].op = "set" /\ toDevice[i].at \in cells => abi = ExpectedAbi

\* "not writing dynamic keymap": no keymap write is ever on its way to a
\* keyboard whose firmware is not the one the keymap was built for, even when
\* the keyboard is replaced between the check and the write.
KeymapWritesCompatible == WritesUnder(KeyCells)

\* "flash before applying live state": the same of layout options and macros.
ViaWritesCompatible == WritesUnder(ViaCells)

\* Every run that starts ends: the deadline of the transaction bounds every
\* wait for the keyboard, whatever is lost and whoever else is talking to it.
EveryRunEnds == \A p \in Proc : Alive(p) ~> run[p].stage \in Ended

\* Writing a request again every 10 ms makes up for every lost request and
\* answer: without a deadline, each run against a compatible keyboard succeeds.
RetryMasksLoss ==
    abi = ExpectedAbi => \A p \in Proc : Alive(p) ~> run[p].stage = "ok"

\* What ApplyPromise calls the store and the outcome of a run.
Want == [c \in Governed |-> Desired[CHOOSE p \in Proc : TRUE][c]]
Store == [c \in Governed |-> reg[c]]
Outcome == [p \in Proc |-> IF run[p].stage \in Ended THEN run[p].stage ELSE "open"]

Promise == INSTANCE ApplyPromise WITH
    Cell <- Governed, Want <- Want, store <- Store, outcome <- Outcome

\* Runs of one configuration against a keyboard that stays put implement
\* ApplyPromise, for all their duplicates, losses and mistaken answers.
KeepsPromise == Promise!Spec

-----------------------------------------------------------------------------
(* Strengthenings: why the safety properties above are kept by every step *)

\* A status answer a run can still read tells the ABI of the keyboard as it
\* is now: a replaced keyboard leaves no readable answer behind.
HashesAreCurrent ==
    \A p \in Proc : fd[p] = "open" =>
      \A i \in 1..Len(queue[p]) :
        queue[p][i].op = "query" /\ queue[p][i].at = HashPage => queue[p][i].val = abi

\* The page with the hash has been read and no difference was seen in it.
SawExpectedHash(s) ==
    /\ s.step = "check" /\ ~ s.differs
    /\ \E i \in 1..(s.pos - 1) : StatusPages[i] = HashPage

\* The keymap stage goes on to the keymap only on a descriptor of a keyboard
\* with the expected ABI.
KeymapStageChecked ==
    \A p \in Proc : fd[p] = "open" /\ run[p].stage = "keymap" =>
      (SawExpectedHash(run[p]) \/ run[p].step \in {"read", "write", "verify"}
         => abi = ExpectedAbi)

CompatibilityInv ==
    /\ HashesAreCurrent
    /\ KeymapStageChecked
    /\ KeymapWritesCompatible

\* With one configuration, nothing on its way to the keyboard differs from it.
WritesAreDesired ==
    \A p \in Proc : \A i \in 1..Len(toDevice) :
      toDevice[i].op = "set" => toDevice[i].val = Desired[p][toDevice[i].at]

\* With one configuration, an answer that says a cell is as desired, or that a
\* write was done, is still true when it is read, however late that is.
AnswersHold ==
    \A p, o \in Proc : \A i \in 1..Len(queue[p]) :
      LET r == queue[p][i] IN
      /\ r.op = "set" => r.val = Desired[o][r.at]
      /\ r.op \in {"get", "set"} /\ r.val = Desired[o][r.at] => reg[r.at] = r.val

\* What a run that stands at s has seen or made as desired.
Settled(s, c) ==
    \/ c \in KeyCells /\ s.stage \in {"via", "ok"}
    \/ c \in ViaCells /\ s.stage = "ok"
    \/ /\ Running(s) /\ s.step \in {"read", "write", "verify"}
       /\ \/ \E g \in 1..(s.grp - 1) : \E i \in 1..Len(Plan[s.stage][g]) :
               Plan[s.stage][g][i] = c
          \/ /\ (s.step = "read" /\ ~ s.differs) \/ s.step = "write"
             /\ \E i \in 1..(s.pos - 1) : GroupAt(s)[i] = c
          \/ /\ s.step = "verify"
             /\ \E i \in 1..Len(GroupAt(s)) : GroupAt(s)[i] = c

SettledCellsHold ==
    \A p \in Proc \ replaced : \A c \in Cell :
      Settled(run[p], c) => reg[c] = Desired[p][c]

ConvergenceInv ==
    SameConfiguration => WritesAreDesired /\ AnswersHold /\ SettledCellsHold

\* Runs in turn.  The line to the keyboard is short: it cannot hold all that a
\* run asks before its first write (the probe, the status twice, one cell) and
\* that write.
ShortLine == MaxInFlight <= 2 * Len(StatusPages) + 2

IsProbe(q) == q.op = "query" /\ q.at = ProtocolPage
NoWriteInFlight == \A i \in 1..Len(toDevice) : toDevice[i].op # "set"

\* How many requests a run that stands at s has written, at the least; those
\* of the first group it reads are counted once.
PagesBegun(s) == IF s.step = "check" THEN s.pos ELSE 1
Answered(s) ==
    CASE s.stage = "probe" -> 0
      [] s.stage = "compat" -> PagesBegun(s)
      [] s.stage = "keymap" /\ s.step \in {"open", "check"} ->
           Len(StatusPages) + PagesBegun(s)
      [] OTHER -> 2 * Len(StatusPages) + (IF s.step = "write" THEN 2 ELSE 1)
Written(s) == Answered(s) + (IF s.waiting THEN 1 ELSE 0)

\* The run whose turn it is, is the only one at work.
NobodyElse == \A p \in Proc \ {solo} : ~ Alive(p)

\* Behind every probe that is still in flight are all later requests of the
\* run, which is why it cannot have come to its first write.
ProbesAreFollowed ==
    Alive(solo) =>
      \A i \in 1..Len(toDevice) :
        IsProbe(toDevice[i]) => Written(run[solo]) <= Len(toDevice) - i + 1

\* No write is behind a probe: the answer to the probe comes when the writes of
\* all earlier runs have been handled, or lost.
NoWriteBehindProbe ==
    \A i, j \in 1..Len(toDevice) :
      i < j /\ IsProbe(toDevice[i]) => toDevice[j].op # "set"

ProbeClearsWrites ==
    run[solo].stage = "probe" /\ run[solo].step # "open" =>
      \A i \in 1..Len(queue[solo]) : IsProbe(queue[solo][i]) => NoWriteInFlight

\* Once probed, what is on its way to the keyboard is the run's own, and what
\* its descriptor has buffered is true of the keyboard as it is now.
OwnWritesInFlight ==
    run[solo].stage \in {"compat", "keymap", "via", "ok"} =>
      \A i \in 1..Len(toDevice) :
        toDevice[i].op = "set" => toDevice[i].val = Desired[solo][toDevice[i].at]

OwnAnswersHold ==
    run[solo].stage \in {"compat", "keymap", "via"} /\ run[solo].step # "open" =>
      \A i \in 1..Len(queue[solo]) :
        LET r == queue[solo][i] IN
        /\ r.op = "set" => r.val = Desired[solo][r.at]
        /\ r.op \in {"get", "set"} /\ r.val = Desired[solo][r.at] => reg[r.at] = r.val

OwnCellsHold ==
    solo \notin replaced =>
      \A c \in Cell : Settled(run[solo], c) => reg[c] = Desired[solo][c]

TurnInv ==
    /\ (\A p \in Proc : run[p].stage = "off") => toDevice = <<>>
    /\ solo # None =>
         /\ NobodyElse
         /\ ProbesAreFollowed
         /\ NoWriteBehindProbe
         /\ ProbeClearsWrites
         /\ OwnWritesInFlight
         /\ OwnAnswersHold
         /\ OwnCellsHold
=============================================================================
