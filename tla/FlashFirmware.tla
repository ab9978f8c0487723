--------------------------- MODULE FlashFirmware ---------------------------
(***************************************************************************)
(* flash_firmware_command of silakka54-sync.  Each half of the keyboard is *)
(* a board of its own with firmware of its own.  A run looks for the one   *)
(* connected board that reports the chosen half, asks it to jump to its    *)
(* bootloader, waits for the RPI-RP2 volume that then appears, copies the  *)
(* UF2 file there, and waits for a board that reports the half and the     *)
(* packaged firmware.  If no board could be asked, or its volume does not  *)
(* appear in time, it falls back to whatever single volume there is.       *)
(*                                                                         *)
(* Nothing ties a volume to a board: the run only sees paths come and go.  *)
(* Boards are plugged in and pulled at any time, by hand also straight     *)
(* into the bootloader.  A board reports the half of the firmware it was   *)
(* last flashed with (INIT_EE_HANDS), or none if that is an old one.       *)
(***************************************************************************)
EXTENDS Naturals, FiniteSets

CONSTANTS
    Proc,      \* runs of `silakka54-sync flash`
    Board,     \* the halves of keyboards lying on the desk
    Half,      \* left and right
    Side,      \* per board: the half it physically is
    Path,      \* places where a volume is seen (bootloader_mounts)
    None,      \* no half reported, no path, no board
    MaxMoves,  \* bound: boards plugged in or pulled
    MaxStarts  \* bound: runs started

ASSUME FlashAssumption ==
    /\ Half # {} /\ Side \in [Board -> Half]
    /\ None \notin Board \cup Half \cup Path
    /\ IsFiniteSet(Board) /\ IsFiniteSet(Path)
    /\ MaxMoves \in Nat /\ MaxStarts \in Nat

VARIABLES
    board,     \* per board: "away", "hid", "jumping", "boot" or "starting"
    mount,     \* per board: where its volume is seen, or None
    firmware,  \* per board: the half its firmware is for, and if it is packaged
    run,       \* per process: where its run stands
    troubles,  \* history: what has gone wrong while a run was under way
    moves,     \* how many boards have been plugged in or pulled
    starts     \* how many runs have been started

vars == <<board, mount, firmware, run, troubles, moves, starts>>

Firmware == [half : Half \cup {None}, packaged : BOOLEAN]
Packaged(h) == [half |-> h, packaged |-> TRUE]

\* Where a run stands: the half it was told, the volumes there were before it
\* did anything (mounts_before), the boards it has yet to look at, those that
\* report its half, those of them whose descriptor still works, and whether
\* one reported the other half; where it goes on to copy; and, as history, the
\* boards it asked to jump and wrote to, and whether it fell back.
Run == [pc : {"idle", "list", "probe", "jump", "new", "any", "copy", "verify", "ok", "failed"},
        half : Half, before : SUBSET Path, todo : SUBSET Board, candidates : SUBSET Board,
        held : SUBSET Board, other : BOOLEAN, target : Path \cup {None},
        asked : Board \cup {None}, wrote : Board \cup {None}, blind : BOOLEAN]

At(pc, h) == [pc |-> pc, half |-> h, before |-> {}, todo |-> {}, candidates |-> {},
              held |-> {}, other |-> FALSE, target |-> None,
              asked |-> None, wrote |-> None, blind |-> FALSE]

Trouble == {"overlap", "stray", "pulled", "late", "blind", "fault"}

Volumes == {mount[b] : b \in Board} \ {None}
Connected == {b \in Board : board[b] = "hid"}
UnderWay(p) == run[p].pc \notin {"idle", "ok", "failed"}

\* Some board is between leaving and coming back, or its volume not seen yet.
Slow == \E b \in Board : \/ board[b] \in {"jumping", "starting"}
                         \/ board[b] = "boot" /\ mount[b] = None

Init ==
    /\ board \in [Board -> {"away", "hid", "boot"}]
    /\ mount = [b \in Board |-> None]
    /\ firmware \in [Board -> Firmware]
    /\ \A b \in Board : \/ firmware[b] = [half |-> None, packaged |-> FALSE]
                        \/ firmware[b].half = Side[b]
    /\ run = [p \in Proc |-> At("idle", CHOOSE h \in Half : TRUE)]
    /\ troubles = {}
    /\ moves = 0 /\ starts = 0

-----------------------------------------------------------------------------
(* The boards *)

Raise(t, cond) == troubles' = troubles \cup {x \in {t} : cond}

\* Descriptors of a board that leaves the bus no longer work.
Drop(b) == run' = [p \in Proc |-> [run[p] EXCEPT !.held = @ \ {b}]]

\* The volume of a board in the bootloader is mounted.  Where it is not seen
\* (no automounter, or under another name since RPI-RP2 is taken), this action
\* does not happen.  To a run that has not asked that board it is a stray.
Mount(b) ==
    /\ board[b] = "boot" /\ mount[b] = None
    /\ \E m \in Path \ Volumes : mount' = [mount EXCEPT ![b] = m]
    /\ Raise("stray", \E p \in Proc : UnderWay(p) /\ run[p].asked # b)
    /\ UNCHANGED <<board, firmware, run, moves, starts>>

\* 100 ms after its answer the firmware jumps.
Boot(b) ==
    /\ board[b] = "jumping"
    /\ board' = [board EXCEPT ![b] = "boot"]
    /\ Drop(b)
    /\ UNCHANGED <<mount, firmware, troubles, moves, starts>>

Restart(b) ==
    /\ board[b] = "starting"
    /\ board' = [board EXCEPT ![b] = "hid"]
    /\ UNCHANGED <<mount, firmware, run, troubles, moves, starts>>

\* A board is plugged in, perhaps with its BOOTSEL button held.
Plug(b) ==
    /\ board[b] = "away" /\ moves < MaxMoves
    /\ moves' = moves + 1
    /\ board' \in {[board EXCEPT ![b] = s] : s \in {"hid", "boot"}}
    /\ UNCHANGED <<mount, firmware, run, troubles, starts>>

Unplug(b) ==
    /\ board[b] # "away" /\ moves < MaxMoves
    /\ moves' = moves + 1
    /\ board' = [board EXCEPT ![b] = "away"]
    /\ mount' = [mount EXCEPT ![b] = None]
    /\ Drop(b)
    /\ Raise("pulled", \E p \in Proc : UnderWay(p))
    /\ UNCHANGED <<firmware, starts>>

-----------------------------------------------------------------------------
(* A run *)

Set(p, r) == run' = [run EXCEPT ![p] = r]
Fail(p) == Set(p, At("failed", run[p].half))
Quiet == UNCHANGED <<board, mount, firmware, troubles, moves, starts>>
Fault == troubles' = troubles \cup {"fault"} /\ UNCHANGED <<board, mount, firmware, moves, starts>>

\* The half has been chosen and the flash confirmed.
Start(p) ==
    /\ ~ UnderWay(p) /\ starts < MaxStarts
    /\ starts' = starts + 1
    /\ \E h \in Half : Set(p, [At("list", h) EXCEPT !.before = Volumes])
    /\ Raise("overlap", \E o \in Proc : UnderWay(o))
    /\ UNCHANGED <<board, mount, firmware, moves>>

\* request_silakka54_bootloader_jump enumerates the HID devices once.
List(p) ==
    /\ run[p].pc = "list"
    /\ \/ Set(p, [run[p] EXCEPT !.pc = "probe", !.todo = Connected]) /\ Quiet
       \/ Fail(p) /\ Fault

\* Mutant: every board that reports a half is a candidate.
ProbeAnyHalf(p) ==
    /\ run[p].pc = "probe"
    /\ \E b \in run[p].todo :
         \/ /\ board[b] = "hid"
            /\ Set(p, [run[p] EXCEPT !.todo = @ \ {b},
                         !.candidates = @ \cup {b}, !.held = @ \cup {b}])
            /\ Quiet
         \/ board[b] # "hid" /\ Set(p, [run[p] EXCEPT !.todo = @ \ {b}]) /\ Quiet
         \/ board[b] = "hid" /\ Set(p, [run[p] EXCEPT !.todo = @ \ {b}]) /\ Fault

\* It opens one of them and reads its status.  A board that reports the half
\* is kept open; one that does not answer, or reports no half, is passed over.
Probe(p) ==
    /\ run[p].pc = "probe"
    /\ \E b \in run[p].todo :
         LET rest == [run[p] EXCEPT !.todo = @ \ {b}] IN
         \/ /\ board[b] = "hid" /\ firmware[b].half = run[p].half
            /\ Set(p, [rest EXCEPT !.candidates = @ \cup {b}, !.held = @ \cup {b}])
            /\ Quiet
         \/ /\ board[b] = "hid" /\ firmware[b].half \in Half \ {run[p].half}
            /\ Set(p, [rest EXCEPT !.other = TRUE])
            /\ Quiet
         \/ /\ board[b] # "hid" \/ firmware[b].half = None
            /\ Set(p, rest)
            /\ Quiet
         \/ board[b] = "hid" /\ Set(p, rest) /\ Fault

\* Exactly one candidate is asked to jump.  None at all leaves it to the user
\* to get a volume mounted, unless the half that is connected is the other one.
Decide(p) ==
    /\ run[p].pc = "probe" /\ run[p].todo = {}
    /\ LET c == run[p].candidates IN
         CASE Cardinality(c) = 1 -> Set(p, [run[p] EXCEPT !.pc = "jump"])
           [] c = {} /\ ~ run[p].other -> Set(p, [run[p] EXCEPT !.pc = "any", !.blind = TRUE])
           [] OTHER -> Fail(p)
    /\ Quiet

\* silakka54_bootloader_jump: the answer is on its way before the board is
\* gone, so a request may be carried out and yet fail for the run.  A second
\* run with the board open sees the answer given to the first.
Jump(p) ==
    /\ run[p].pc = "jump"
    /\ \E b \in run[p].candidates :
         \/ /\ b \in run[p].held
            /\ board' = [board EXCEPT ![b] = "jumping"]
            /\ \/ Set(p, [run[p] EXCEPT !.pc = "new", !.asked = b]) /\ UNCHANGED troubles
               \/ Fail(p) /\ troubles' = troubles \cup {"fault"}
            /\ UNCHANGED <<mount, firmware, moves, starts>>
         \/ b \in run[p].held /\ Fail(p) /\ Fault
         \/ b \notin run[p].held /\ Fail(p) /\ Quiet

\* Mutant: any volume will do.
AnyVolume(p) == Volumes

New(p) == Volumes \ run[p].before

\* wait_for_new_bootloader_mount: one volume that was not there before.
TakeNew(p) ==
    /\ run[p].pc = "new"
    /\ \E m \in Path : /\ New(p) = {m}
                      /\ Set(p, [run[p] EXCEPT !.pc = "copy", !.target = m])
    /\ Quiet

\* After 30 s without one (the jump takes 100 ms), or when there are several,
\* the run goes on to the volumes that were there before.
FallBack(p) ==
    /\ run[p].pc = "new" /\ Cardinality(New(p)) # 1
    /\ New(p) = {} => board[run[p].asked] # "jumping"
    /\ Set(p, [run[p] EXCEPT !.pc = "any", !.blind = TRUE])
    /\ Raise("late", New(p) = {} /\ Slow)
    /\ UNCHANGED <<board, mount, firmware, moves, starts>>

\* wait_for_bootloader_mount: the only volume there is; several are refused.
TakeAny(p) ==
    /\ run[p].pc = "any"
    /\ \E m \in Path : /\ Volumes = {m}
                      /\ Set(p, [run[p] EXCEPT !.pc = "copy", !.target = m])
    /\ Quiet

\* ... and none within 120 s is an error.
GiveUp(p) ==
    /\ run[p].pc = "any" /\ Cardinality(Volumes) # 1
    /\ Fail(p)
    /\ Raise("late", Volumes = {} /\ Slow)
    /\ UNCHANGED <<board, mount, firmware, moves, starts>>

\* Mutant: the volume of a board that has restarted is still listed.
CopyToStale(p, b, takes, succeeds) ==
    /\ takes /\ succeeds
    /\ firmware' = [firmware EXCEPT ![b] = Packaged(run[p].half)]
    /\ board' = [board EXCEPT ![b] = "starting"]
    /\ Set(p, [run[p] EXCEPT !.pc = "verify", !.wrote = b])
    /\ UNCHANGED <<mount, troubles, moves, starts>>

\* copy_firmware_and_verify copies and flushes; a board that has got the
\* whole file restarts with it.
CopyTo(p, b, takes, succeeds) ==
    /\ IF takes THEN /\ firmware' = [firmware EXCEPT ![b] = Packaged(run[p].half)]
                     /\ board' = [board EXCEPT ![b] = "starting"]
                     /\ mount' = [mount EXCEPT ![b] = None]
                ELSE UNCHANGED <<board, mount, firmware>>
    /\ IF succeeds THEN Set(p, [run[p] EXCEPT !.pc = "verify", !.wrote = b]) ELSE Fail(p)
    /\ troubles' = troubles \cup {t \in {"fault"} : ~ (takes /\ succeeds)}
                            \cup {t \in {"blind"} : run[p].blind}
    /\ UNCHANGED <<moves, starts>>

\* The volume may be gone by now.  If its mount point is still there as a
\* directory, the copy succeeds and reaches no board.
Copy(p) ==
    /\ run[p].pc = "copy"
    /\ \/ \E b \in Board : \E takes, succeeds \in BOOLEAN :
            mount[b] = run[p].target /\ CopyTo(p, b, takes, succeeds)
       \/ /\ run[p].target \notin Volumes
          /\ Fail(p) \/ Set(p, [run[p] EXCEPT !.pc = "verify"])
          /\ Quiet

\* Mutant: the half is not compared.
AnyPackaged(p) == \E b \in Connected : firmware[b].packaged

\* Some connected board reports the half and the packaged firmware.
Seen(p) == \E b \in Connected : firmware[b] = Packaged(run[p].half)

Verify(p) ==
    /\ run[p].pc = "verify" /\ Seen(p)
    /\ Set(p, [run[p] EXCEPT !.pc = "ok"])
    /\ Quiet

\* No such board within 60 s, or none that answers.
VerifyTimeOut(p) ==
    /\ run[p].pc = "verify"
    /\ Fail(p)
    /\ troubles' = troubles \cup {t \in {"late"} : Slow} \cup {t \in {"fault"} : Seen(p)}
    /\ UNCHANGED <<board, mount, firmware, moves, starts>>

Step(p) ==
    \/ List(p) \/ Probe(p) \/ Decide(p) \/ Jump(p) \/ TakeNew(p) \/ FallBack(p)
    \/ TakeAny(p) \/ GiveUp(p) \/ Copy(p) \/ Verify(p) \/ VerifyTimeOut(p)

BoardStep(b) == Mount(b) \/ Boot(b) \/ Restart(b) \/ Plug(b) \/ Unplug(b)

Next == (\E p \in Proc : Start(p) \/ Step(p)) \/ \E b \in Board : BoardStep(b)

Spec == Init /\ [][Next]_vars

\* A run that is under way goes on, and a board that has answered jumps.
\* Nothing is asked of users and automounters: deadlines pass without them.
FairSpec == Spec /\ (\A p \in Proc : WF_vars(Step(p))) /\ (\A b \in Board : WF_vars(Boot(b)))

-----------------------------------------------------------------------------
(* Properties *)

\* The types; a board has a volume only in its bootloader, and no two of them
\* one at the same place.
TypeOK ==
    /\ board \in [Board -> {"away", "hid", "jumping", "boot", "starting"}]
    /\ mount \in [Board -> Path \cup {None}]
    /\ \A b \in Board : mount[b] # None => board[b] = "boot"
    /\ \A a, b \in Board : mount[a] = mount[b] /\ a # b => mount[a] = None
    /\ firmware \in [Board -> Firmware]
    /\ run \in [Proc -> Run]
    /\ troubles \subseteq Trouble
    /\ moves \in 0..MaxMoves /\ starts \in 0..MaxStarts

\* "refusing left firmware": as long as no run falls back on a volume that
\* identified itself as nothing, and no volume appears that a run has not
\* asked for, no half is given the firmware of the other one, however many
\* runs there are and whatever is lost, pulled or late.
OwnHalf ==
    troubles \cap {"stray", "blind"} = {} =>
      \A b \in Board : firmware[b].half \in {Side[b], None}

OneOfEach == \A a, b \in Board : Side[a] = Side[b] => a = b

\* "firmware verified after reconnect": then, if there is no second board of
\* the half, the board that was asked runs the packaged firmware of its half.
VerifiedIsFlashed ==
    OneOfEach /\ troubles \cap {"stray", "blind"} = {} =>
      \A p \in Proc : run[p].pc = "ok" /\ run[p].asked \in Board =>
        firmware[run[p].asked] = Packaged(run[p].half)

\* "Flash the USB-connected physical left half": what a run writes to, having
\* asked a board to jump, is that board.
ConnectedIsFlashed ==
    "stray" \notin troubles =>
      \A p \in Proc : run[p].asked \in Board /\ run[p].wrote \in Board =>
        run[p].wrote = run[p].asked

\* A run that has found the one board of its half flashes it and says so, even
\* next to boards that were left in their bootloaders, unless one of the
\* troubles comes in between.
FlashSucceeds ==
    [](troubles \cap {"overlap", "stray", "pulled", "late", "fault"} = {}) =>
      \A p \in Proc : \A b \in Board :
        run[p].pc = "jump" /\ b \in run[p].candidates
          ~> run[p].pc = "ok" /\ run[p].wrote = b

-----------------------------------------------------------------------------
(* Strengthenings: why the safety properties above are kept by every step *)

Calm == troubles \cap {"stray", "blind"} = {}

\* A descriptor that works is that of a board that has not left the bus since
\* it reported the half.
HeldReports ==
    \A p \in Proc : \A b \in run[p].held :
      board[b] \in {"hid", "jumping"} /\ firmware[b].half = run[p].half

\* Until a run falls back, what is new to it, and what it is about to write
\* to, is the board it asked.
NewIsAsked ==
    "stray" \notin troubles =>
      \A p \in Proc : \A b \in Board :
        /\ run[p].pc \in {"list", "probe", "jump", "new"} /\ mount[b] # None =>
             mount[b] \in run[p].before \/ b = run[p].asked
        /\ run[p].pc = "copy" /\ ~ run[p].blind /\ mount[b] = run[p].target =>
             b = run[p].asked

\* Boards are asked by runs of their half.
AskedIsOfTheHalf ==
    Calm => \A p \in Proc : run[p].asked \in Board => Side[run[p].asked] = run[p].half

\* What a run remembers fits where it stands.
InStage ==
    \A p \in Proc :
      /\ run[p].pc \in {"list", "probe", "jump"} => run[p].asked = None
      /\ run[p].pc = "any" => run[p].blind
      /\ run[p].pc = "copy" => run[p].target # None

\* All of these together with what they are for.
FlashInv ==
    HeldReports /\ NewIsAsked /\ AskedIsOfTheHalf /\ InStage /\ OwnHalf /\ VerifiedIsFlashed
=============================================================================
