--------------------------- MODULE FirmwareNotice ---------------------------
(***************************************************************************)
(* The watch daemon of silakka54-sync and the hotplug command it runs when *)
(* a keyboard appears: collect the status of every keyboard, again while   *)
(* one is unknown; apply the configuration if the live state of one has    *)
(* drifted; then tell the user, once, of firmware that does not match this *)
(* system generation.  What the user was told is remembered in a file, so  *)
(* that it survives the daemon and is shared with a hotplug command run by *)
(* hand.                                                                   *)
(*                                                                         *)
(* KeymapSync models the apply over the transport; here it is one step     *)
(* with the outcomes that module allows.                                   *)
(***************************************************************************)
EXTENDS Naturals, FiniteSets

CONSTANTS
    Proc,        \* processes: watch daemons, and hotplug commands
    Watch,       \* the daemons among them
    Path,        \* HID device paths
    Version,     \* firmware a keyboard may run, legacy firmware included
    Expected,    \* the packaged firmware
    Compatible,  \* firmware with the packaged ABI, whatever its runtime
    None,        \* no keyboard, no status, no file
    Unknown,     \* a status that could not be read
    Pending,     \* a status still to be read
    Attempts,    \* HOTPLUG_STATUS_ATTEMPTS
    MaxPlugs,    \* bound: keyboards plugged in
    MaxFaults    \* bound: crashes and failing operations

ASSUME NoticeAssumption ==
    /\ Watch \subseteq Proc
    /\ Expected \in Compatible /\ Compatible \subseteq Version
    /\ {None, Unknown, Pending} \cap Version = {}
    /\ \A S \in SUBSET Version : None # S
    /\ Attempts \in Nat \ {0} /\ MaxPlugs \in Nat /\ MaxFaults \in Nat

VARIABLES
    keyboard,  \* per path: the firmware of the keyboard there, or None
    drifted,   \* compatible keyboards whose live state is not as configured
    notice,    \* the notification state file: the firmware it names, or None
    told,      \* history: the user was notified of what the file now says
    w,         \* per process: where it stands, see Work
    plugs,     \* keyboards plugged in so far
    faults,    \* crashes and failures so far
    troubles   \* history: what has happened that the properties tell apart

vars == <<keyboard, drifted, notice, told, w, plugs, faults, troubles>>

\* What a process holds in memory: the paths of its last enumeration
\* (previous and current of watch_command), and of a hotplug under way the
\* collection it is at, the statuses and the live state drift seen in it.
Work == [pc : {"idle", "collect", "probe", "sync", "report", "rename", "notify"},
         known : SUBSET Path,
         attempt : 1..Attempts,
         status : [Path -> Version \cup {None, Unknown, Pending}],
         drift : SUBSET Path]

Idle(known) == [pc |-> "idle", known |-> known, attempt |-> 1,
                status |-> [d \in Path |-> None], drift |-> {}]

Trouble == {"crash", "fail", "unread", "undelivered", "swap", "refused", "overlap"}

Connected == {d \in Path : keyboard[d] # None}

Confirmed(s) == {s[d] : d \in Path} \cap Version

\* Mutant: firmware with another ABI counts as unknown.
OutdatedRuntime(s) == (Confirmed(s) \cap Compatible) \ {Expected}

\* firmware_notification_key: the mismatching firmware, wherever it is.
Outdated(s) == Confirmed(s) \ {Expected}

HasUnknown(s) == \E d \in Path : s[d] = Unknown

Busy(p) == w[p].pc # "idle"

Init ==
    /\ keyboard = [d \in Path |-> None]
    /\ drifted = {}
    /\ notice = None
    /\ told = FALSE
    /\ w = [p \in Proc |-> Idle({})]
    /\ plugs = 0
    /\ faults = 0
    /\ troubles = {}

-----------------------------------------------------------------------------
(* The keyboards *)

\* A keyboard that takes the place of another before a daemon has seen the
\* other gone is a swap.
Plug(d) ==
    /\ keyboard[d] = None /\ plugs < MaxPlugs
    /\ \E v \in Version :
         /\ keyboard' = [keyboard EXCEPT ![d] = v]
         /\ drifted' \in {drifted} \cup {drifted \cup {d} : x \in {v} \cap Compatible}
    /\ plugs' = plugs + 1
    /\ troubles' = troubles \cup {t \in {"swap"} : \E p \in Watch : d \in w[p].known}
    /\ UNCHANGED <<notice, told, w, faults>>

Unplug(d) ==
    /\ keyboard[d] # None
    /\ keyboard' = [keyboard EXCEPT ![d] = None]
    /\ drifted' = drifted \ {d}
    /\ UNCHANGED <<notice, told, w, plugs, faults, troubles>>

-----------------------------------------------------------------------------
(* The processes *)

Goto(p, pc) == w' = [w EXCEPT ![p].pc = pc]
Finish(p) == w' = [w EXCEPT ![p] = Idle(@.known)]
NoFault == UNCHANGED <<faults, troubles>>
Fault(t) ==
    /\ faults < MaxFaults
    /\ faults' = faults + 1
    /\ troubles' = troubles \cup {t}

Overlap(p) == {t \in {"overlap"} : \E o \in Proc \ {p} : Busy(o)}

\* Mutant: only the first keyboard is reconciled.
PollFirst(p) ==
    /\ p \in Watch /\ ~ Busy(p)
    /\ w' = [w EXCEPT ![p] = [Idle(Connected) EXCEPT !.pc =
               IF Connected # {} /\ w[p].known = {} THEN "collect" ELSE "idle"]]
    /\ troubles' = troubles \cup Overlap(p)
    /\ UNCHANGED <<keyboard, drifted, notice, told, plugs, faults>>

\* watch_command enumerates, and reconciles if a path is new.  The
\* enumeration becomes the previous one however the reconciliation ends.
Poll(p) ==
    /\ p \in Watch /\ ~ Busy(p)
    /\ IF Connected \subseteq w[p].known
         THEN w' = [w EXCEPT ![p].known = Connected] /\ UNCHANGED troubles
         ELSE /\ w' = [w EXCEPT ![p] = [Idle(Connected) EXCEPT !.pc = "collect"]]
              /\ troubles' = troubles \cup Overlap(p)
    /\ UNCHANGED <<keyboard, drifted, notice, told, plugs, faults>>

\* A hotplug command is run by hand.
Command(p) ==
    /\ p \notin Watch /\ ~ Busy(p)
    /\ Goto(p, "collect")
    /\ troubles' = troubles \cup Overlap(p)
    /\ UNCHANGED <<keyboard, drifted, notice, told, plugs, faults>>

Enumerate(p) ==
    /\ w[p].pc = "collect"
    /\ \/ /\ w' = [w EXCEPT ![p].pc = "probe", ![p].drift = {},
                            ![p].status = [d \in Path |-> IF d \in Connected THEN Pending ELSE None]]
          /\ NoFault
       \/ Fault("fail") /\ Finish(p)
    /\ UNCHANGED <<keyboard, drifted, notice, told, plugs>>

\* device_status of one keyboard.  Its live state is compared if its firmware
\* is compatible; not being able to compare it counts as no drift.
Probe(p) ==
    /\ w[p].pc = "probe"
    /\ \E d \in Path :
         /\ w[p].status[d] = Pending
         /\ \/ /\ keyboard[d] # None
               /\ w' = [w EXCEPT ![p].status[d] = keyboard[d],
                                 ![p].drift = @ \cup ({d} \cap drifted)]
               /\ NoFault
            \/ /\ keyboard[d] = None
               /\ w' = [w EXCEPT ![p].status[d] = Unknown]
               /\ NoFault
            \/ /\ w' = [w EXCEPT ![p].status[d] = Unknown]
               /\ Fault("fail")
            \/ /\ keyboard[d] # None
               /\ w' = [w EXCEPT ![p].status[d] = keyboard[d]]
               /\ Fault("fail")
    /\ UNCHANGED <<keyboard, drifted, notice, told, plugs>>

Collected(p) == w[p].pc = "probe" /\ \A d \in Path : w[p].status[d] # Pending

\* Mutant: one collection more than HOTPLUG_STATUS_ATTEMPTS.
RetryOnceMore(p) ==
    /\ Collected(p)
    /\ HasUnknown(w[p].status) /\ w[p].attempt <= Attempts
    /\ w' = [w EXCEPT ![p].pc = "collect", ![p].attempt = @ + 1]
    /\ UNCHANGED <<keyboard, drifted, notice, told, plugs, faults, troubles>>

\* collect_statuses_with_retry collects again while a status is unknown.
Recollect(p) ==
    /\ Collected(p)
    /\ HasUnknown(w[p].status) /\ w[p].attempt < Attempts
    /\ w' = [w EXCEPT ![p].pc = "collect", ![p].attempt = @ + 1]
    /\ UNCHANGED <<keyboard, drifted, notice, told, plugs, faults, troubles>>

Conclude(p) ==
    /\ Collected(p)
    /\ HasUnknown(w[p].status) => w[p].attempt = Attempts
    /\ IF \A d \in Path : w[p].status[d] = None THEN Finish(p)
       ELSE Goto(p, IF w[p].drift # {} THEN "sync" ELSE "report")
    /\ UNCHANGED <<keyboard, drifted, notice, told, plugs, faults, troubles>>

\* sync_keymap_command brings every compatible keyboard up to date, but fails
\* as a whole, and the hotplug with it, if one that answers is incompatible.
Sync(p) ==
    /\ w[p].pc = "sync"
    /\ \/ /\ drifted' = {}
          /\ IF \E d \in Connected : keyboard[d] \notin Compatible
               THEN Finish(p) /\ troubles' = troubles \cup {"refused"}
               ELSE Goto(p, "report") /\ UNCHANGED troubles
          /\ UNCHANGED faults
       \/ /\ drifted' \in SUBSET drifted
          /\ Finish(p) \/ Goto(p, "report")
          /\ Fault("fail")
    /\ UNCHANGED <<keyboard, notice, told, plugs>>

\* Mutant: the file is not consulted.
ReportAlways(p) ==
    /\ w[p].pc = "report" /\ Outdated(w[p].status) # {}
    /\ Goto(p, "rename")
    /\ UNCHANGED <<keyboard, drifted, notice, told, plugs, faults, troubles>>

\* Confirmed mismatches: notify_once reads the file first.  A file that cannot
\* be read says nothing, so the mismatch counts as new.
Report(p) ==
    /\ w[p].pc = "report" /\ Outdated(w[p].status) # {}
    /\ \/ /\ IF notice = Outdated(w[p].status) THEN Finish(p) ELSE Goto(p, "rename")
          /\ NoFault
       \/ notice # None /\ Goto(p, "rename") /\ Fault("unread")
    /\ UNCHANGED <<keyboard, drifted, notice, told, plugs>>

\* No mismatch: the file is removed if every status is known to be current.
Clear(p) ==
    /\ w[p].pc = "report" /\ Outdated(w[p].status) = {}
    /\ Finish(p)
    /\ \/ /\ IF HasUnknown(w[p].status) THEN UNCHANGED <<notice, told>>
             ELSE notice' = None /\ told' = FALSE
          /\ NoFault
       \/ UNCHANGED <<notice, told>> /\ Fault("fail")
    /\ UNCHANGED <<keyboard, drifted, plugs>>

\* Mutant: a write that fails has already replaced what the file said.
RenameInPlace(p) ==
    /\ w[p].pc = "rename"
    /\ notice' = Outdated(w[p].status)
    /\ told' = (told /\ notice' = notice)
    /\ \/ Goto(p, "notify") /\ NoFault
       \/ Finish(p) /\ Fault("fail")
    /\ UNCHANGED <<keyboard, drifted, plugs>>

\* notify_once replaces the file and only then notifies.
Rename(p) ==
    /\ w[p].pc = "rename"
    /\ \/ /\ notice' = Outdated(w[p].status)
          /\ told' = (told /\ notice' = notice)
          /\ Goto(p, "notify") /\ NoFault
       \/ Finish(p) /\ Fault("fail") /\ UNCHANGED <<notice, told>>
    /\ UNCHANGED <<keyboard, drifted, plugs>>

\* request_user_prompt.  Where there is nobody to show the notification to,
\* or no program that does, the message goes to the log and the run succeeds.
Notify(p) ==
    /\ w[p].pc = "notify"
    /\ \/ told' = (told \/ notice = Outdated(w[p].status)) /\ NoFault
       \/ UNCHANGED told /\ Fault("undelivered")
    /\ Finish(p)
    /\ UNCHANGED <<keyboard, drifted, notice, plugs>>

\* A process dies.  A daemon is started again by its service manager and then
\* has enumerated nothing.
Crash(p) ==
    /\ Busy(p) \/ p \in Watch
    /\ w' = [w EXCEPT ![p] = Idle({})]
    /\ Fault("crash")
    /\ UNCHANGED <<keyboard, drifted, notice, told, plugs>>

Step(p) ==
    \/ Poll(p) \/ Enumerate(p) \/ Probe(p) \/ Recollect(p) \/ Conclude(p)
    \/ Sync(p) \/ Report(p) \/ Clear(p) \/ Rename(p) \/ Notify(p)

Next ==
    \/ \E d \in Path : Plug(d) \/ Unplug(d)
    \/ \E p \in Proc : Command(p) \/ Step(p) \/ Crash(p)

Spec == Init /\ [][Next]_vars

\* The loops of a running process go on; nothing obliges a keyboard to come or
\* go, a user to run a command, or an operation to fail.
FairSpec == Spec /\ \A p \in Proc : WF_vars(Step(p))

-----------------------------------------------------------------------------
(* Properties *)

\* The types, and every process within its HOTPLUG_STATUS_ATTEMPTS.
TypeOK ==
    /\ keyboard \in [Path -> Version \cup {None}]
    /\ drifted \subseteq {d \in Path : keyboard[d] \in Compatible}
    /\ notice \in ((SUBSET Version) \ {{}}) \cup {None}
    /\ told \in BOOLEAN
    /\ w \in [Proc -> Work]
    /\ plugs \in 0..MaxPlugs /\ faults \in 0..MaxFaults
    /\ troubles \subseteq Trouble

\* "suppressing duplicate notification": as long as two processes do not
\* reconcile at once and the state file can be read, the user is not notified
\* again of what the file already said when he was last notified, whatever
\* crashes, is written in vain or is not delivered in between.
NeverToldTwice ==
    troubles \cap {"overlap", "unread"} = {} =>
        \A p \in Proc : w[p].pc = "notify" => ~ told

\* About to conclude that the user has been told before.
Suppresses(p) ==
    w[p].pc = "report" /\ Outdated(w[p].status) # {} /\ notice = Outdated(w[p].status)

\* A notification that is suppressed as a duplicate was once shown, unless a
\* process died between replacing the file and notifying, or the notification
\* was not delivered: the file is replaced first, and says that it was.
SuppressedWasTold ==
    troubles \cap {"overlap", "crash", "undelivered"} = {} =>
        \A p \in Proc : Suppresses(p) => told

Never(ts) == [](troubles \cap ts = {})

\* "Watch and reconcile Silakka54 VIA state": a compatible keyboard that stays
\* where it is gets the configured live state, daemons that die and
\* incompatible keyboards next to it notwithstanding, unless an operation fails
\* or the keyboard is plugged in where a daemon still believes another to be.
Reconciled ==
    Never({"fail", "swap"}) =>
      \A d \in Path : <>[](keyboard[d] \in Compatible) => <>[](d \notin drifted)

\* The user is told of the firmware of a keyboard that stays where it is if it
\* is not the packaged one, unless one of the troubles gets in the way.  A file
\* that cannot be read does not.
MismatchIsReported ==
    Never({"fail", "undelivered", "swap", "crash", "refused", "overlap"}) =>
      \A d \in Path : \A v \in Version \ {Expected} :
        <>[](keyboard[d] = v) => <>[](notice # None /\ v \in notice /\ told)

\* "firmware does not match this system generation": the same with an
\* incompatible keyboard next to one whose live state has drifted.
MismatchIsReportedBesideDrift ==
    Never({"fail", "undelivered", "swap", "crash", "overlap"}) =>
      \A d \in Path : \A v \in Version \ {Expected} :
        <>[](keyboard[d] = v) => <>[](notice # None /\ v \in notice /\ told)

-----------------------------------------------------------------------------
(* Strengthenings: why the safety properties above are kept by every step *)

\* What is about to go on record or to be shown is a mismatch.
ReportsMismatch ==
    \A p \in Proc : w[p].pc \in {"rename", "notify"} => Outdated(w[p].status) # {}

OneAtOnce ==
    "overlap" \notin troubles =>
      \A p, o \in Proc : Busy(p) /\ Busy(o) => p = o

\* Who is about to notify has just put the mismatch on record.
JustRecorded ==
    "overlap" \notin troubles =>
      \A p \in Proc : w[p].pc = "notify" => notice = Outdated(w[p].status)

\* As long as the file can be read, who is about to replace it has something
\* new to say, of which the user has not been told when it is on record.
ReportsAreNew ==
    troubles \cap {"overlap", "unread"} = {} =>
      \A p \in Proc :
        /\ w[p].pc = "rename" => notice # Outdated(w[p].status)
        /\ w[p].pc = "notify" => ~ told

\* Without crashes and lost notifications, what is on record has been told or
\* is just being told.
RecordIsTold ==
    troubles \cap {"overlap", "crash", "undelivered"} = {} =>
      notice = None \/ told \/ \E p \in Proc : w[p].pc = "notify"

\* All of these: as long as two processes do not reconcile at once, the
\* state file and what the user has seen of it differ only while a process
\* stands between replacing the one and showing the other, or after it failed
\* to show it.
NoticeInv == ReportsMismatch /\ OneAtOnce /\ JustRecorded /\ ReportsAreNew /\ RecordIsTold
=============================================================================
