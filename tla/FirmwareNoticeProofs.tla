------------------------ MODULE FirmwareNoticeProofs ------------------------
(***************************************************************************)
(* Proofs about FirmwareNotice for any number of daemons, hotplug          *)
(* commands, keyboards, firmware versions, collections and faults.         *)
(***************************************************************************)
EXTENDS FirmwareNotice, TLAPS

(***************************************************************************)
(* What a process holds.                                                   *)
(***************************************************************************)

\* A process that has just finished is well typed, and idle.
LEMMA IdleIsWork ==
  ASSUME NEW known \in SUBSET Path
  PROVE  Idle(known) \in Work /\ Idle(known).pc = "idle"
BY NoticeAssumption DEF Idle, Work

\* Confirmed statuses are firmware versions.
LEMMA OutdatedAreVersions ==
  ASSUME NEW s
  PROVE  Outdated(s) \in SUBSET Version
BY DEF Outdated, Confirmed

\* One process changes what it holds, the others keep theirs.
Alone(p) ==
  /\ w' \in [Proc -> Work]
  /\ \A o \in Proc \ {p} : w'[o] = w[o]

\* A process that finishes is idle, and leaves the others where they were.
LEMMA FinishAlone ==
  ASSUME TypeOK, NEW p \in Proc, Finish(p)
  PROVE  Alone(p) /\ w'[p].pc = "idle"
<1>1. w \in [Proc -> Work] /\ w[p].known \in SUBSET Path
  BY DEF TypeOK, Work
<1>2. Idle(w[p].known) \in Work /\ Idle(w[p].known).pc = "idle"
  BY <1>1, IdleIsWork
<1>3. w' = [w EXCEPT ![p] = Idle(w[p].known)]
  BY DEF Finish
<1> QED BY <1>1, <1>2, <1>3 DEF Alone

\* A process that goes elsewhere in its work leaves the others where they were.
LEMMA GotoAlone ==
  ASSUME TypeOK, NEW p \in Proc,
         NEW pc \in {"idle", "collect", "probe", "sync", "report", "rename", "notify"},
         Goto(p, pc)
  PROVE  Alone(p) /\ w'[p].pc = pc /\ w'[p].status = w[p].status
<1>1. w \in [Proc -> Work] /\ w[p] \in Work
  BY DEF TypeOK
<1>2. w' = [w EXCEPT ![p] = [w[p] EXCEPT !.pc = pc]]
  BY DEF Goto
<1>3. [w[p] EXCEPT !.pc = pc] \in Work
  BY <1>1 DEF Work
<1>4. [w[p] EXCEPT !.pc = pc].pc = pc /\ [w[p] EXCEPT !.pc = pc].status = w[p].status
  BY <1>1 DEF Work
<1> QED BY <1>1, <1>2, <1>3, <1>4 DEF Alone

(***************************************************************************)
(* Every action of a process, as it shows in what the processes hold, the  *)
(* state file and what the user was told.                                  *)
(***************************************************************************)

\* The file and what the user was told of it stay.
SameRecord == UNCHANGED <<notice, told>>

\* A process works on, or stops, without touching the record.
Quiet(p) ==
  /\ Alone(p) /\ SameRecord
  /\ w'[p].pc \in {"idle", "collect", "probe", "sync", "report"}
  /\ troubles \subseteq troubles'

\* An idle process sets to work: an overlap is noted.
Begins(p) ==
  /\ Quiet(p) /\ ~ Busy(p)
  /\ (\E o \in Proc \ {p} : Busy(o)) => "overlap" \in troubles'

\* A busy process works on; one that was notifying was stopped by a crash.
GoesOn(p) ==
  /\ Quiet(p)
  /\ Busy(p) \/ w'[p].pc = "idle"
  /\ w[p].pc = "notify" => "crash" \in troubles'

\* A poll begins a reconciliation, or leaves an idle process idle.
LEMMA PollStep ==
  ASSUME TypeOK, NEW p \in Proc, Poll(p)
  PROVE  Begins(p) \/ GoesOn(p)
<1>1. w \in [Proc -> Work] /\ w[p] \in Work /\ w[p].pc = "idle" /\ Connected \in SUBSET Path
  BY DEF TypeOK, Poll, Busy, Connected
<1>2. SameRecord
  BY DEF Poll, SameRecord
<1>3. CASE Connected \subseteq w[p].known
  <2>1. w' = [w EXCEPT ![p] = [w[p] EXCEPT !.known = Connected]] /\ UNCHANGED troubles
    BY <1>3 DEF Poll
  <2>2. [w[p] EXCEPT !.known = Connected] \in Work /\ [w[p] EXCEPT !.known = Connected].pc = "idle"
    BY <1>1 DEF Work
  <2>3. Alone(p) /\ w'[p].pc = "idle"
    BY <1>1, <2>1, <2>2 DEF Alone
  <2> QED BY <1>1, <1>2, <2>1, <2>3 DEF GoesOn, Quiet
<1>4. CASE ~ (Connected \subseteq w[p].known)
  <2> DEFINE n == [Idle(Connected) EXCEPT !.pc = "collect"]
  <2>1. w' = [w EXCEPT ![p] = n] /\ troubles' = troubles \cup Overlap(p)
    BY <1>4 DEF Poll
  <2>2. n \in Work /\ n.pc = "collect"
    BY <1>1, IdleIsWork DEF Work
  <2> HIDE DEF n
  <2>3. Alone(p) /\ w'[p].pc = "collect"
    BY <1>1, <2>1, <2>2 DEF Alone
  <2>4. (\E o \in Proc \ {p} : Busy(o)) => "overlap" \in troubles'
    BY <2>1 DEF Overlap
  <2>5. troubles \subseteq troubles'
    BY <2>1
  <2> QED BY <1>1, <1>2, <2>3, <2>4, <2>5 DEF Begins, Quiet, Busy
<1> QED BY <1>3, <1>4

\* A hotplug command begins a reconciliation.
LEMMA CommandStep ==
  ASSUME TypeOK, NEW p \in Proc, Command(p)
  PROVE  Begins(p)
<1>1. Alone(p) /\ w'[p].pc = "collect"
  BY GotoAlone DEF Command
<1>2. (\E o \in Proc \ {p} : Busy(o)) => "overlap" \in troubles'
  BY DEF Command, Overlap
<1> QED BY <1>1, <1>2 DEF Begins, Quiet, SameRecord, Command

\* An action that stays busy, or ends, without a notification under way.
LEMMA WorksOn ==
  ASSUME NEW p \in Proc, Alone(p), SameRecord, troubles \subseteq troubles',
         w[p].pc \notin {"idle", "notify"},
         w'[p].pc \in {"idle", "collect", "probe", "sync", "report"}
  PROVE  GoesOn(p)
BY DEF GoesOn, Quiet, Busy

\* An enumeration, or its failure, leaves the record and the user alone.
LEMMA EnumerateStep ==
  ASSUME TypeOK, NEW p \in Proc, Enumerate(p)
  PROVE  GoesOn(p)
<1>1. w \in [Proc -> Work] /\ w[p] \in Work /\ w[p].pc = "collect" /\ SameRecord
  BY DEF TypeOK, Enumerate, SameRecord
<1>2. CASE Fault("fail") /\ Finish(p)
  <2>1. troubles \subseteq troubles'
    BY <1>2 DEF Fault
  <2> QED BY <1>1, <1>2, <2>1, FinishAlone, WorksOn
<1>3. CASE ~ (Fault("fail") /\ Finish(p))
  <2> DEFINE st == [d \in Path |-> IF d \in Connected THEN Pending ELSE None]
             n == [w[p] EXCEPT !.pc = "probe", !.drift = {}, !.status = st]
  <2>1. w' = [w EXCEPT ![p] = n] /\ NoFault
    BY <1>3 DEF Enumerate
  <2>2. st \in [Path -> Version \cup {None, Unknown, Pending}]
    OBVIOUS
  <2>3. n \in Work /\ n.pc = "probe"
    <3> HIDE DEF st
    <3> QED BY <1>1, <2>2 DEF Work
  <2> HIDE DEF n
  <2>4. Alone(p) /\ w'[p].pc = "probe"
    BY <1>1, <2>1, <2>3 DEF Alone
  <2> QED BY <1>1, <2>1, <2>4, WorksOn DEF NoFault
<1> QED BY <1>2, <1>3

\* One more status, and perhaps one more keyboard seen to have drifted.
LEMMA StatusStep ==
  ASSUME TypeOK, NEW p \in Proc, NEW d \in Path,
         NEW v \in Version \cup {Unknown}, NEW dr \in SUBSET Path,
         w' = [w EXCEPT ![p] = [w[p] EXCEPT !.status = [w[p].status EXCEPT ![d] = v],
                                            !.drift = dr]],
         w[p].pc = "probe"
  PROVE  Alone(p) /\ w'[p].pc = "probe"
<1> DEFINE st == [w[p].status EXCEPT ![d] = v]
           n == [w[p] EXCEPT !.status = st, !.drift = dr]
<1>1. w \in [Proc -> Work] /\ w[p] \in Work
  BY DEF TypeOK
<1>2. st \in [Path -> Version \cup {None, Unknown, Pending}]
  BY <1>1 DEF Work
<1>3. n \in Work /\ n.pc = "probe"
  <2> HIDE DEF st
  <2> QED BY <1>1, <1>2 DEF Work
<1> HIDE DEF n
<1> QED BY <1>1, <1>3 DEF Alone, n

\* So does the probe of one keyboard, whatever comes of it.
LEMMA ProbeStep ==
  ASSUME TypeOK, NEW p \in Proc, Probe(p)
  PROVE  GoesOn(p)
<1>1. w \in [Proc -> Work] /\ w[p] \in Work /\ w[p].pc = "probe" /\ SameRecord
  BY DEF TypeOK, Probe, SameRecord
<1>2. PICK d \in Path :
        \/ /\ keyboard[d] # None
           /\ w' = [w EXCEPT ![p].status[d] = keyboard[d],
                             ![p].drift = @ \cup ({d} \cap drifted)]
           /\ NoFault
        \/ /\ keyboard[d] = None
           /\ w' = [w EXCEPT ![p].status[d] = Unknown]
           /\ NoFault
        \/ /\ w' = [w EXCEPT ![p].status[d] = Unknown]
           /\ Fault("fail")
        \/ /\ keyboard[d] # None
           /\ w' = [w EXCEPT ![p].status[d] = keyboard[d]]
           /\ Fault("fail")
  BY DEF Probe
<1>3. troubles \subseteq troubles'
  BY <1>2 DEF NoFault, Fault
<1>4. keyboard[d] # None => keyboard[d] \in Version
  BY DEF TypeOK
<1> DEFINE n(v, dr) == [w[p] EXCEPT !.status = [w[p].status EXCEPT ![d] = v], !.drift = dr]
<1>5. w[p].drift \in SUBSET Path /\ w[p].drift \cup ({d} \cap drifted) \in SUBSET Path
  BY <1>1 DEF Work
<1>6. CASE keyboard[d] # None /\
           w' = [w EXCEPT ![p].status[d] = keyboard[d], ![p].drift = @ \cup ({d} \cap drifted)]
  <2>1. w' = [w EXCEPT ![p] = n(keyboard[d], w[p].drift \cup ({d} \cap drifted))]
    BY <1>1, <1>6 DEF Work
  <2>2. keyboard[d] \in Version \cup {Unknown}
    BY <1>4, <1>6
  <2>3. PICK v \in Version \cup {Unknown}, dr \in SUBSET Path : w' = [w EXCEPT ![p] = n(v, dr)]
    <3> HIDE DEF n
    <3> QED BY <1>5, <2>1, <2>2
  <2>4. Alone(p) /\ w'[p].pc = "probe"
    BY <1>1, <2>3, StatusStep
  <2> QED BY <1>1, <1>3, <2>4, WorksOn
<1>7. CASE \E v \in Version \cup {Unknown} : w' = [w EXCEPT ![p].status[d] = v]
  <2>1. PICK v \in Version \cup {Unknown} : w' = [w EXCEPT ![p].status[d] = v]
    BY <1>7
  <2>2. n(v, w[p].drift) = [w[p] EXCEPT !.status = [w[p].status EXCEPT ![d] = v]]
    BY <1>1 DEF Work
  <2>3. w' = [w EXCEPT ![p] = n(v, w[p].drift)]
    BY <2>1, <2>2
  <2>4. Alone(p) /\ w'[p].pc = "probe"
    BY <1>1, <1>5, <2>3, StatusStep
  <2> QED BY <1>1, <1>3, <2>4, WorksOn
<1> QED BY <1>2, <1>4, <1>6, <1>7

\* So does collecting the statuses again.
LEMMA RecollectStep ==
  ASSUME TypeOK, NEW p \in Proc, Recollect(p)
  PROVE  GoesOn(p)
<1> DEFINE n == [w[p] EXCEPT !.pc = "collect", !.attempt = w[p].attempt + 1]
<1>1. w \in [Proc -> Work] /\ w[p] \in Work /\ w[p].pc = "probe" /\ SameRecord
  BY DEF TypeOK, Recollect, Collected, SameRecord
<1>2. w' = [w EXCEPT ![p] = n] /\ UNCHANGED troubles
  BY DEF Recollect
<1>3. w[p].attempt + 1 \in 1..Attempts
  BY <1>1, NoticeAssumption DEF Recollect, Work
<1>4. n \in Work /\ n.pc = "collect"
  BY <1>1, <1>3 DEF Work
<1> HIDE DEF n
<1>5. Alone(p) /\ w'[p].pc = "collect"
  BY <1>1, <1>2, <1>4 DEF Alone
<1> QED BY <1>1, <1>2, <1>5, WorksOn

\* So does the end of a collection.
LEMMA ConcludeStep ==
  ASSUME TypeOK, NEW p \in Proc, Conclude(p)
  PROVE  GoesOn(p)
<1>1. w[p].pc = "probe" /\ SameRecord /\ UNCHANGED troubles
  BY DEF Conclude, Collected, SameRecord
<1>2. Finish(p) \/ Goto(p, "sync") \/ Goto(p, "report")
  BY DEF Conclude
<1>3. Alone(p) /\ w'[p].pc \in {"idle", "sync", "report"}
  BY <1>2, FinishAlone, GotoAlone
<1> QED BY <1>1, <1>3, WorksOn

\* So does bringing the live state up to date.
LEMMA SyncStep ==
  ASSUME TypeOK, NEW p \in Proc, Sync(p)
  PROVE  GoesOn(p)
<1>1. w[p].pc = "sync" /\ SameRecord /\ troubles \subseteq troubles'
  BY DEF Sync, SameRecord, Fault
<1>2. Finish(p) \/ Goto(p, "report")
  BY DEF Sync
<1>3. Alone(p) /\ w'[p].pc \in {"idle", "report"}
  BY <1>2, FinishAlone, GotoAlone
<1> QED BY <1>1, <1>3, WorksOn

\* A mismatch is compared with the record: the same, or something new to say.
LEMMA ReportStep ==
  ASSUME TypeOK, NEW p \in Proc, Report(p)
  PROVE  /\ Busy(p) /\ Alone(p) /\ SameRecord /\ troubles \subseteq troubles'
         /\ \/ GoesOn(p)
            \/ /\ w[p].pc = "report" /\ w'[p].pc = "rename"
               /\ notice # Outdated(w'[p].status) \/ "unread" \in troubles'
               /\ Outdated(w'[p].status) # {}
<1>1. w[p].pc = "report" /\ Busy(p) /\ SameRecord /\ troubles \subseteq troubles'
  BY DEF Report, SameRecord, Busy, NoFault, Fault
<1>2. CASE notice = Outdated(w[p].status) /\ Finish(p)
  BY <1>1, <1>2, FinishAlone, WorksOn
<1>3. CASE Goto(p, "rename") /\ (notice # Outdated(w[p].status) \/ Fault("unread"))
  <2>1. Goto(p, "rename") /\ Outdated(w[p].status) # {}
    BY <1>3 DEF Report
  <2>2. Alone(p) /\ w'[p].pc = "rename" /\ w'[p].status = w[p].status
    BY <2>1, GotoAlone
  <2>3. notice # Outdated(w[p].status) \/ "unread" \in troubles'
    BY <1>3 DEF Fault
  <2> QED BY <1>1, <2>1, <2>2, <2>3
<1> QED BY <1>2, <1>3 DEF Report

\* Without a mismatch the record stays, or is removed and nothing is told.
LEMMA ClearStep ==
  ASSUME TypeOK, NEW p \in Proc, Clear(p)
  PROVE  /\ w[p].pc = "report" /\ Alone(p) /\ w'[p].pc = "idle"
         /\ troubles \subseteq troubles'
         /\ SameRecord \/ (notice' = None /\ told' = FALSE)
<1>1. Alone(p) /\ w'[p].pc = "idle"
  BY FinishAlone DEF Clear
<1> QED BY <1>1 DEF Clear, SameRecord, NoFault, Fault

\* The file is replaced by the mismatch about to be shown, or nothing is written.
LEMMA RenameStep ==
  ASSUME TypeOK, NEW p \in Proc, Rename(p)
  PROVE  /\ w[p].pc = "rename"
         /\ \/ GoesOn(p)
            \/ /\ Alone(p) /\ w'[p].pc = "notify" /\ UNCHANGED troubles
               /\ notice' = Outdated(w'[p].status)
               /\ notice' = Outdated(w[p].status)
               /\ told' = (told /\ notice' = notice)
<1>1. w[p].pc = "rename"
  BY DEF Rename
<1>2. CASE Finish(p) /\ Fault("fail") /\ UNCHANGED <<notice, told>>
  <2>1. troubles \subseteq troubles' /\ SameRecord
    BY <1>2 DEF Fault, SameRecord
  <2>2. Alone(p) /\ w'[p].pc = "idle"
    BY <1>2, FinishAlone
  <2> QED BY <1>1, <2>1, <2>2, WorksOn
<1>3. CASE ~ (Finish(p) /\ Fault("fail") /\ UNCHANGED <<notice, told>>)
  <2>1. /\ Goto(p, "notify") /\ NoFault
        /\ notice' = Outdated(w[p].status) /\ told' = (told /\ notice' = notice)
    BY <1>3 DEF Rename
  <2>2. Alone(p) /\ w'[p].pc = "notify" /\ w'[p].status = w[p].status
    BY <2>1, GotoAlone
  <2> QED BY <1>1, <2>1, <2>2 DEF NoFault
<1> QED BY <1>2, <1>3

\* A notification ends the reconciliation; the user has been told if the
\* record says what was shown, unless it was not delivered.
LEMMA NotifyStep ==
  ASSUME TypeOK, NEW p \in Proc, Notify(p)
  PROVE  /\ w[p].pc = "notify" /\ Alone(p) /\ w'[p].pc = "idle"
         /\ UNCHANGED notice /\ troubles \subseteq troubles'
         /\ \/ told' = (told \/ notice = Outdated(w[p].status))
            \/ UNCHANGED told /\ "undelivered" \in troubles'
<1>1. Alone(p) /\ w'[p].pc = "idle"
  BY FinishAlone DEF Notify
<1> QED BY <1>1 DEF Notify, NoFault, Fault

\* A crash leaves the record and the user alone, and is on the list of troubles.
LEMMA CrashStep ==
  ASSUME TypeOK, NEW p \in Proc, Crash(p)
  PROVE  GoesOn(p)
<1>1. w \in [Proc -> Work] /\ SameRecord
  BY DEF TypeOK, Crash, SameRecord
<1>2. Idle({}) \in Work /\ Idle({}).pc = "idle"
  BY IdleIsWork
<1>3. w' = [w EXCEPT ![p] = Idle({})]
  BY DEF Crash
<1>4. Alone(p) /\ w'[p].pc = "idle"
  BY <1>1, <1>2, <1>3 DEF Alone
<1>5. troubles \subseteq troubles' /\ "crash" \in troubles'
  BY DEF Crash, Fault
<1> QED BY <1>1, <1>4, <1>5 DEF GoesOn, Quiet

(***************************************************************************)
(* Type correctness.                                                       *)
(***************************************************************************)

\* The first state is well typed, and nothing is about to be reported.
THEOREM InitTyped == Init => TypeOK /\ ReportsMismatch
<1> SUFFICES ASSUME Init PROVE TypeOK /\ ReportsMismatch
  OBVIOUS
<1>1. Idle({}) \in Work /\ Idle({}).pc = "idle"
  BY IdleIsWork
<1>2. w \in [Proc -> Work] /\ ReportsMismatch
  BY <1>1 DEF Init, ReportsMismatch
<1>3. /\ notice \in ((SUBSET Version) \ {{}}) \cup {None} /\ told \in BOOLEAN
      /\ keyboard \in [Path -> Version \cup {None}]
      /\ drifted \subseteq {d \in Path : keyboard[d] \in Compatible}
  BY DEF Init
<1>4. plugs \in 0..MaxPlugs /\ faults \in 0..MaxFaults /\ troubles \subseteq Trouble
  BY NoticeAssumption DEF Init
<1> QED BY <1>2, <1>3, <1>4 DEF TypeOK

\* ReportsMismatch follows from what the one process that moves does.
LEMMA MismatchStep ==
  ASSUME ReportsMismatch, NEW p \in Proc, Alone(p),
         w'[p].pc \in {"rename", "notify"} => Outdated(w'[p].status) # {}
  PROVE  ReportsMismatch'
<1> SUFFICES ASSUME NEW o \in Proc, w'[o].pc \in {"rename", "notify"}
             PROVE  Outdated(w'[o].status) # {}
  BY DEF ReportsMismatch, Outdated, Confirmed
<1> QED BY DEF Alone, ReportsMismatch

\* A process that goes on without a report keeps ReportsMismatch.
LEMMA QuietMismatch ==
  ASSUME ReportsMismatch, NEW p \in Proc, Begins(p) \/ GoesOn(p)
  PROVE  ReportsMismatch'
BY MismatchStep DEF Begins, GoesOn, Quiet

\* Every step keeps the types, and only a mismatch goes on record or is shown.
THEOREM StepTyped == TypeOK /\ ReportsMismatch /\ [Next]_vars => TypeOK' /\ ReportsMismatch'
<1> SUFFICES ASSUME TypeOK, ReportsMismatch, [Next]_vars PROVE TypeOK' /\ ReportsMismatch'
  OBVIOUS
<1> DEFINE WorldTyped == /\ keyboard \in [Path -> Version \cup {None}]
                         /\ drifted \subseteq {d \in Path : keyboard[d] \in Compatible}
                         /\ plugs \in 0..MaxPlugs
           RecordTyped == /\ notice \in ((SUBSET Version) \ {{}}) \cup {None}
                          /\ told \in BOOLEAN
           HistoryTyped == faults \in 0..MaxFaults /\ troubles \subseteq Trouble
           WorkTyped == w \in [Proc -> Work]
<1>1. ASSUME WorldTyped', RecordTyped', HistoryTyped', WorkTyped' PROVE TypeOK'
  BY <1>1 DEF TypeOK
<1>2. WorldTyped /\ RecordTyped /\ HistoryTyped /\ WorkTyped
  BY DEF TypeOK
<1>3. ASSUME NEW p \in Proc, Alone(p) PROVE WorkTyped'
  BY <1>3 DEF Alone
<1>4. ASSUME NEW p \in Proc PROVE troubles \cup Overlap(p) \subseteq Trouble
  BY <1>2 DEF Overlap, Trouble
<1>5. ASSUME NEW t \in {"crash", "fail", "unread", "undelivered"}, Fault(t) PROVE HistoryTyped'
  BY <1>2, <1>5, NoticeAssumption DEF Fault, Trouble
<1>6. ASSUME NEW d \in Path, Plug(d) PROVE TypeOK'
  <2>1. PICK v \in Version :
          /\ keyboard' = [keyboard EXCEPT ![d] = v]
          /\ drifted' \in {drifted} \cup {drifted \cup {d} : x \in {v} \cap Compatible}
    BY <1>6 DEF Plug
  <2>2. \A e \in Path : keyboard[e] \in Compatible => e # d
    BY <1>6, NoticeAssumption DEF Plug
  <2>3. drifted' = drifted \/ (v \in Compatible /\ drifted' = drifted \cup {d})
    BY <2>1
  <2>4. drifted' \subseteq {e \in Path : keyboard'[e] \in Compatible}
    BY <1>2, <2>1, <2>2, <2>3
  <2>5. plugs' \in 0..MaxPlugs
    BY <1>2, <1>6, NoticeAssumption DEF Plug
  <2>6. WorldTyped'
    BY <1>2, <2>1, <2>4, <2>5
  <2>7. RecordTyped' /\ HistoryTyped' /\ WorkTyped'
    BY <1>2, <1>6 DEF Plug, Trouble
  <2> QED BY <1>1, <2>6, <2>7
<1>7. ASSUME NEW d \in Path, Unplug(d) PROVE TypeOK'
  <2>1. WorldTyped'
    BY <1>2, <1>7 DEF Unplug
  <2>2. RecordTyped' /\ HistoryTyped' /\ WorkTyped'
    BY <1>2, <1>7 DEF Unplug
  <2> QED BY <1>1, <2>1, <2>2
<1>8. ASSUME NEW p \in Proc, Command(p) PROVE TypeOK' /\ ReportsMismatch'
  <2>1. Alone(p)
    BY <1>8, CommandStep DEF Begins, Quiet
  <2>8. TypeOK'
    BY <1>1, <1>2, <1>3, <1>4, <1>8, <2>1 DEF Command
  <2>9. ReportsMismatch'
    BY <1>8, CommandStep, QuietMismatch
  <2> QED BY <2>8, <2>9
<1>9. ASSUME NEW p \in Proc, Poll(p) PROVE TypeOK' /\ ReportsMismatch'
  <2>1. Alone(p)
    BY <1>9, PollStep DEF Begins, GoesOn, Quiet
  <2>2. HistoryTyped'
    BY <1>2, <1>4, <1>9 DEF Poll
  <2>8. TypeOK'
    BY <1>1, <1>2, <1>3, <1>9, <2>1, <2>2 DEF Poll
  <2>9. ReportsMismatch'
    BY <1>9, PollStep, QuietMismatch
  <2> QED BY <2>8, <2>9
<1>10. ASSUME NEW p \in Proc, Enumerate(p) PROVE TypeOK' /\ ReportsMismatch'
  <2>1. Alone(p)
    BY <1>10, EnumerateStep DEF GoesOn, Quiet
  <2>2. HistoryTyped'
    BY <1>2, <1>5, <1>10 DEF Enumerate, NoFault
  <2>8. TypeOK'
    BY <1>1, <1>2, <1>3, <1>10, <2>1, <2>2 DEF Enumerate
  <2>9. ReportsMismatch'
    BY <1>10, EnumerateStep, QuietMismatch
  <2> QED BY <2>8, <2>9
<1>11. ASSUME NEW p \in Proc, Probe(p) PROVE TypeOK' /\ ReportsMismatch'
  <2>1. Alone(p)
    BY <1>11, ProbeStep DEF GoesOn, Quiet
  <2>2. HistoryTyped'
    BY <1>2, <1>5, <1>11 DEF Probe, NoFault
  <2>8. TypeOK'
    BY <1>1, <1>2, <1>3, <1>11, <2>1, <2>2 DEF Probe
  <2>9. ReportsMismatch'
    BY <1>11, ProbeStep, QuietMismatch
  <2> QED BY <2>8, <2>9
<1>12. ASSUME NEW p \in Proc, Recollect(p) PROVE TypeOK' /\ ReportsMismatch'
  <2>1. Alone(p)
    BY <1>12, RecollectStep DEF GoesOn, Quiet
  <2>8. TypeOK'
    BY <1>1, <1>2, <1>3, <1>12, <2>1 DEF Recollect
  <2>9. ReportsMismatch'
    BY <1>12, RecollectStep, QuietMismatch
  <2> QED BY <2>8, <2>9
<1>13. ASSUME NEW p \in Proc, Conclude(p) PROVE TypeOK' /\ ReportsMismatch'
  <2>1. Alone(p)
    BY <1>13, ConcludeStep DEF GoesOn, Quiet
  <2>8. TypeOK'
    BY <1>1, <1>2, <1>3, <1>13, <2>1 DEF Conclude
  <2>9. ReportsMismatch'
    BY <1>13, ConcludeStep, QuietMismatch
  <2> QED BY <2>8, <2>9
<1>14. ASSUME NEW p \in Proc, Sync(p) PROVE TypeOK' /\ ReportsMismatch'
  <2>1. Alone(p)
    BY <1>14, SyncStep DEF GoesOn, Quiet
  <2>2. HistoryTyped'
    BY <1>2, <1>5, <1>14 DEF Sync, Trouble
  <2>3. drifted' \subseteq drifted
    BY <1>14 DEF Sync
  <2>4. WorldTyped'
    BY <1>2, <1>14, <2>3 DEF Sync
  <2>8. TypeOK'
    BY <1>1, <1>2, <1>3, <1>14, <2>1, <2>2, <2>4 DEF Sync
  <2>9. ReportsMismatch'
    BY <1>14, SyncStep, QuietMismatch
  <2> QED BY <2>8, <2>9
<1>15. ASSUME NEW p \in Proc, Report(p) PROVE TypeOK' /\ ReportsMismatch'
  <2>1. Alone(p)
    BY <1>15, ReportStep
  <2>4. HistoryTyped'
    BY <1>2, <1>5, <1>15 DEF Report, NoFault
  <2>2. TypeOK'
    BY <1>1, <1>2, <1>3, <1>15, <2>1, <2>4 DEF Report
  <2>3. ReportsMismatch'
    BY <1>15, <2>1, ReportStep, QuietMismatch, MismatchStep
  <2> QED BY <2>2, <2>3
<1>16. ASSUME NEW p \in Proc, Clear(p) PROVE TypeOK' /\ ReportsMismatch'
  <2>1. /\ Alone(p) /\ w'[p].pc = "idle"
        /\ SameRecord \/ (notice' = None /\ told' = FALSE)
    BY <1>16, ClearStep
  <2>2. HistoryTyped'
    BY <1>2, <1>5, <1>16 DEF Clear, NoFault
  <2>3. RecordTyped'
    BY <1>2, <2>1 DEF SameRecord
  <2>4. WorldTyped'
    BY <1>2, <1>16 DEF Clear
  <2>5. ReportsMismatch'
    BY <2>1, MismatchStep
  <2> QED BY <1>1, <1>3, <2>1, <2>2, <2>3, <2>4, <2>5
<1>17. ASSUME NEW p \in Proc, Rename(p) PROVE TypeOK' /\ ReportsMismatch'
  <2>1. WorldTyped'
    BY <1>2, <1>17 DEF Rename
  <2>2. HistoryTyped'
    BY <1>2, <1>5, <1>17 DEF Rename, NoFault
  <2>3. w[p].pc = "rename" /\ Outdated(w[p].status) # {}
    BY <1>17, RenameStep DEF ReportsMismatch
  <2>4. CASE GoesOn(p)
    <3>1. Alone(p) /\ SameRecord
      BY <2>4 DEF GoesOn, Quiet
    <3>2. RecordTyped'
      BY <1>2, <3>1 DEF SameRecord
    <3>3. ReportsMismatch'
      BY <2>4, QuietMismatch
    <3> QED BY <1>1, <1>3, <2>1, <2>2, <3>1, <3>2, <3>3
  <2>5. CASE ~ GoesOn(p)
    <3>1. /\ Alone(p) /\ notice' = Outdated(w'[p].status)
          /\ notice' = Outdated(w[p].status) /\ told' = (told /\ notice' = notice)
      BY <1>17, <2>5, RenameStep
    <3>2. RecordTyped'
      <4>1. notice' \in SUBSET Version
        BY <3>1, OutdatedAreVersions
      <4>2. told' \in BOOLEAN
        BY <3>1
      <4>3. notice' # {}
        BY <2>3, <3>1
      <4> QED BY <4>1, <4>2, <4>3
    <3>3. ReportsMismatch'
      BY <2>3, <3>1, MismatchStep
    <3> QED BY <1>1, <1>3, <2>1, <2>2, <3>1, <3>2, <3>3
  <2> QED BY <2>4, <2>5
<1>18. ASSUME NEW p \in Proc, Notify(p) PROVE TypeOK' /\ ReportsMismatch'
  <2>1. Alone(p) /\ w'[p].pc = "idle" /\ UNCHANGED notice
    BY <1>18, NotifyStep
  <2>2. told' \in BOOLEAN
    BY <1>2, <1>18, NotifyStep
  <2>3. RecordTyped'
    BY <1>2, <2>1, <2>2
  <2>4. WorldTyped' /\ HistoryTyped'
    BY <1>2, <1>5, <1>18 DEF Notify, NoFault
  <2>5. ReportsMismatch'
    BY <2>1, MismatchStep
  <2> QED BY <1>1, <1>3, <2>1, <2>3, <2>4, <2>5
<1>19. ASSUME NEW p \in Proc, Crash(p) PROVE TypeOK' /\ ReportsMismatch'
  <2>1. GoesOn(p)
    BY <1>19, CrashStep
  <2>2. Alone(p)
    BY <2>1 DEF GoesOn, Quiet
  <2>3. HistoryTyped'
    BY <1>5, <1>19 DEF Crash
  <2>4. TypeOK'
    BY <1>1, <1>2, <1>3, <1>19, <2>2, <2>3 DEF Crash
  <2> QED BY <2>1, <2>4, QuietMismatch
<1>20. CASE UNCHANGED vars
  BY <1>20 DEF vars, TypeOK, ReportsMismatch, Outdated, Confirmed
<1>21. ASSUME NEW d \in Path, Plug(d) \/ Unplug(d) PROVE ReportsMismatch'
  BY <1>21 DEF Plug, Unplug, ReportsMismatch, Outdated, Confirmed
<1> QED
  BY <1>6, <1>7, <1>8, <1>9, <1>10, <1>11, <1>12, <1>13, <1>14, <1>15, <1>16,
     <1>17, <1>18, <1>19, <1>20, <1>21 DEF Next, Step

\* Every state of FirmwareNotice is well typed: the drifted keyboards are
\* connected and compatible, what is on record is a mismatch, and no collection
\* is repeated more than HOTPLUG_STATUS_ATTEMPTS times.
THEOREM NoticeTypeCorrect == Spec => []TypeOK
<1>1. Init => TypeOK /\ ReportsMismatch
  BY InitTyped
<1>2. TypeOK /\ ReportsMismatch /\ [Next]_vars => TypeOK' /\ ReportsMismatch'
  BY StepTyped
<1> QED BY <1>1, <1>2, PTL DEF Spec

(***************************************************************************)
(* The record and what was told of it.                                     *)
(***************************************************************************)

\* In the first state the processes are idle and the state file is absent.
THEOREM InitNotice == Init => NoticeInv
<1> SUFFICES ASSUME Init PROVE NoticeInv
  OBVIOUS
<1>1. Idle({}).pc = "idle"
  BY IdleIsWork
<1> QED BY <1>1 DEF Init, NoticeInv, ReportsMismatch, OneAtOnce, JustRecorded, ReportsAreNew,
                    RecordIsTold, Busy

\* If a process moves alone and no overlap is noted, only it can be busy.
LEMMA OneAtOnceStep ==
  ASSUME OneAtOnce, NEW p \in Proc, Alone(p), troubles \subseteq troubles',
         Busy(p) \/ w'[p].pc = "idle"
           \/ ((\E o \in Proc \ {p} : Busy(o)) => "overlap" \in troubles')
  PROVE  OneAtOnce'
<1> SUFFICES ASSUME "overlap" \notin troubles', NEW q \in Proc, NEW o \in Proc,
                    w'[q].pc # "idle", w'[o].pc # "idle"
             PROVE  q = o
  BY DEF OneAtOnce, Busy
<1>1. \A r, s \in Proc : Busy(r) /\ Busy(s) => r = s
  BY DEF OneAtOnce
<1> QED BY <1>1 DEF Alone, Busy

\* While a busy process moves and there is no overlap, the others are idle.
LEMMA OthersIdle ==
  ASSUME OneAtOnce, "overlap" \notin troubles, NEW p \in Proc, Busy(p), Alone(p)
  PROVE  \A o \in Proc \ {p} : w[o].pc = "idle" /\ w'[o].pc = "idle"
BY DEF OneAtOnce, Busy, Alone

\* A process that goes on, or begins, without touching the record.
LEMMA QuietNotice ==
  ASSUME NoticeInv, NEW p \in Proc, Begins(p) \/ GoesOn(p)
  PROVE  NoticeInv'
<1>1. /\ Alone(p) /\ SameRecord /\ troubles \subseteq troubles'
      /\ w'[p].pc \in {"idle", "collect", "probe", "sync", "report"}
  BY DEF Begins, GoesOn, Quiet
<1>2. OneAtOnce'
  BY <1>1, OneAtOnceStep DEF NoticeInv, Begins, GoesOn
<1>3. ReportsMismatch'
  BY QuietMismatch DEF NoticeInv
<1>4. JustRecorded' /\ ReportsAreNew'
  <2>1. JustRecorded'
    <3> SUFFICES ASSUME "overlap" \notin troubles', NEW o \in Proc, w'[o].pc = "notify"
                 PROVE  notice' = Outdated(w'[o].status)
      BY DEF JustRecorded, Outdated, Confirmed
    <3> QED BY <1>1 DEF NoticeInv, JustRecorded, Alone, SameRecord
  <2>2. ReportsAreNew'
    <3> SUFFICES ASSUME troubles' \cap {"overlap", "unread"} = {}, NEW o \in Proc
                 PROVE  /\ w'[o].pc = "rename" => notice' # Outdated(w'[o].status)
                        /\ w'[o].pc = "notify" => ~ told'
      BY DEF ReportsAreNew, Outdated, Confirmed
    <3> QED BY <1>1 DEF NoticeInv, ReportsAreNew, Alone, SameRecord
  <2> QED BY <2>1, <2>2
<1>5. RecordIsTold'
  <2> SUFFICES ASSUME troubles' \cap {"overlap", "crash", "undelivered"} = {}
               PROVE  notice' = None \/ told' \/ \E o \in Proc : w'[o].pc = "notify"
    BY DEF RecordIsTold
  <2>1. "crash" \notin troubles' /\ troubles \cap {"overlap", "crash", "undelivered"} = {}
    BY <1>1
  <2>2. notice = None \/ told \/ \E o \in Proc : w[o].pc = "notify"
    BY <2>1 DEF NoticeInv, RecordIsTold
  <2>3. CASE notice = None \/ told
    BY <1>1, <2>3 DEF SameRecord
  <2>4. ASSUME NEW o \in Proc, w[o].pc = "notify" PROVE \E q \in Proc : w'[q].pc = "notify"
    <3>1. CASE o # p
      BY <1>1, <2>4, <3>1 DEF Alone
    <3>2. CASE o = p
      <4>1. Busy(p)
        BY <2>4, <3>2 DEF Busy
      <4> QED BY <2>1, <2>4, <3>2, <4>1 DEF Begins, GoesOn
    <3> QED BY <3>1, <3>2
  <2> QED BY <2>2, <2>3, <2>4
<1> QED BY <1>2, <1>3, <1>4, <1>5 DEF NoticeInv

\* Every step, crashes and failures included, keeps what is told and what is
\* on record together.
THEOREM StepNotice == TypeOK /\ NoticeInv /\ [Next]_vars => NoticeInv'
<1> SUFFICES ASSUME TypeOK, NoticeInv, [Next]_vars PROVE NoticeInv'
  OBVIOUS
<1>0. ReportsMismatch /\ OneAtOnce /\ JustRecorded /\ ReportsAreNew /\ RecordIsTold
  BY DEF NoticeInv
<1>1. ReportsMismatch'
  BY <1>0, StepTyped
<1>2. ASSUME NEW p \in Proc,
             \/ Command(p) \/ Poll(p) \/ Enumerate(p) \/ Probe(p) \/ Recollect(p)
             \/ Conclude(p) \/ Sync(p) \/ Crash(p)
      PROVE  NoticeInv'
  <2>1. Begins(p) \/ GoesOn(p)
    BY <1>2, CommandStep, PollStep, EnumerateStep, ProbeStep, RecollectStep,
       ConcludeStep, SyncStep, CrashStep
  <2> QED BY <2>1, QuietNotice
<1>3. ASSUME NEW p \in Proc, Report(p) PROVE NoticeInv'
  <2>1. Busy(p) /\ Alone(p) /\ SameRecord /\ troubles \subseteq troubles'
    BY <1>3, ReportStep
  <2>2. CASE GoesOn(p)
    BY <2>2, QuietNotice
  <2>3. CASE ~ GoesOn(p)
    <3>1. /\ w[p].pc = "report" /\ w'[p].pc = "rename"
          /\ notice # Outdated(w'[p].status) \/ "unread" \in troubles'
      BY <1>3, <2>3, ReportStep
    <3>2. OneAtOnce'
      BY <1>0, <2>1, OneAtOnceStep
    <3>5. JustRecorded'
      <4> SUFFICES ASSUME "overlap" \notin troubles', NEW o \in Proc, w'[o].pc = "notify"
                   PROVE  notice' = Outdated(w'[o].status)
        BY DEF JustRecorded, Outdated, Confirmed
      <4> QED BY <1>0, <2>1, <3>1 DEF JustRecorded, Alone, SameRecord
    <3>3. ReportsAreNew'
      <4> SUFFICES ASSUME troubles' \cap {"overlap", "unread"} = {}, NEW o \in Proc
                   PROVE  /\ w'[o].pc = "rename" => notice' # Outdated(w'[o].status)
                          /\ w'[o].pc = "notify" => ~ told'
        BY DEF ReportsAreNew, Outdated, Confirmed
      <4>1. CASE o = p
        BY <2>1, <3>1, <4>1 DEF SameRecord
      <4>2. CASE o # p
        BY <1>0, <2>1, <4>2 DEF ReportsAreNew, Alone, SameRecord
      <4> QED BY <4>1, <4>2
    <3>4. RecordIsTold'
      <4>1. \A o \in Proc : w[o].pc = "notify" => w'[o].pc = "notify"
        BY <2>1, <3>1 DEF Alone
      <4> QED BY <1>0, <2>1, <4>1 DEF RecordIsTold, SameRecord
    <3> QED BY <1>1, <3>2, <3>3, <3>4, <3>5 DEF NoticeInv
  <2> QED BY <2>2, <2>3
<1>4. ASSUME NEW p \in Proc, Clear(p) PROVE NoticeInv'
  <2>1. /\ w[p].pc = "report" /\ Alone(p) /\ w'[p].pc = "idle"
        /\ troubles \subseteq troubles'
        /\ SameRecord \/ (notice' = None /\ told' = FALSE)
    BY <1>4, ClearStep
  <2>2. Busy(p)
    BY <2>1 DEF Busy
  <2>3. CASE SameRecord
    <3>1. GoesOn(p)
      BY <2>1, <2>3, WorksOn
    <3> QED BY <3>1, QuietNotice
  <2>4. CASE notice' = None
    <3>1. OneAtOnce'
      BY <1>0, <2>1, OneAtOnceStep
    <3>2. JustRecorded' /\ ReportsAreNew'
      <4> SUFFICES ASSUME "overlap" \notin troubles', NEW o \in Proc
                   PROVE  w'[o].pc \notin {"rename", "notify"}
        BY DEF JustRecorded, ReportsAreNew
      <4>1. "overlap" \notin troubles
        BY <2>1
      <4> QED BY <1>0, <2>1, <2>2, <4>1, OthersIdle
    <3>3. RecordIsTold'
      BY <2>4 DEF RecordIsTold
    <3> QED BY <1>1, <3>1, <3>2, <3>3 DEF NoticeInv
  <2> QED BY <2>1, <2>3, <2>4
<1>5. ASSUME NEW p \in Proc, Rename(p) PROVE NoticeInv'
  <2>1. w[p].pc = "rename" /\ Busy(p)
    BY <1>5, RenameStep DEF Busy
  <2>2. CASE GoesOn(p)
    BY <2>2, QuietNotice
  <2>3. CASE ~ GoesOn(p)
    <3>1. /\ Alone(p) /\ w'[p].pc = "notify" /\ UNCHANGED troubles
          /\ notice' = Outdated(w'[p].status) /\ notice' = Outdated(w[p].status)
          /\ told' = (told /\ notice' = notice)
      BY <1>5, <2>3, RenameStep
    <3>2. OneAtOnce'
      BY <1>0, <2>1, <3>1, OneAtOnceStep
    <3>5. JustRecorded'
      <4> SUFFICES ASSUME "overlap" \notin troubles', NEW o \in Proc, w'[o].pc = "notify"
                   PROVE  notice' = Outdated(w'[o].status)
        BY DEF JustRecorded, Outdated, Confirmed
      <4>1. CASE o = p
        BY <3>1, <4>1
      <4>2. CASE o # p
        BY <1>0, <2>1, <3>1, <4>2, OthersIdle
      <4> QED BY <4>1, <4>2
    <3>3. ReportsAreNew'
      <4> SUFFICES ASSUME troubles' \cap {"overlap", "unread"} = {}, NEW o \in Proc
                   PROVE  /\ w'[o].pc = "rename" => notice' # Outdated(w'[o].status)
                          /\ w'[o].pc = "notify" => ~ told'
        BY DEF ReportsAreNew, Outdated, Confirmed
      <4>1. troubles \cap {"overlap", "unread"} = {}
        BY <3>1
      <4>2. CASE o = p
        <5>1. notice # Outdated(w[p].status)
          BY <1>0, <2>1, <4>1 DEF ReportsAreNew
        <5>2. notice' # notice
          BY <3>1, <5>1
        <5>3. ~ told'
          BY <3>1, <5>2
        <5> QED BY <3>1, <4>2, <5>3
      <4>3. CASE o # p
        BY <1>0, <2>1, <3>1, <4>1, <4>3, OthersIdle
      <4> QED BY <4>2, <4>3
    <3>4. RecordIsTold'
      BY <3>1 DEF RecordIsTold
    <3> QED BY <1>1, <3>2, <3>3, <3>4, <3>5 DEF NoticeInv
  <2> QED BY <2>2, <2>3
<1>6. ASSUME NEW p \in Proc, Notify(p) PROVE NoticeInv'
  <2>1. /\ w[p].pc = "notify" /\ Alone(p) /\ w'[p].pc = "idle"
        /\ UNCHANGED notice /\ troubles \subseteq troubles'
        /\ \/ told' = (told \/ notice = Outdated(w[p].status))
           \/ UNCHANGED told /\ "undelivered" \in troubles'
    BY <1>6, NotifyStep
  <2>2. Busy(p)
    BY <2>1 DEF Busy
  <2>3. OneAtOnce'
    BY <1>0, <2>1, OneAtOnceStep
  <2>4. JustRecorded' /\ ReportsAreNew'
    <3> SUFFICES ASSUME "overlap" \notin troubles', NEW o \in Proc
                 PROVE  w'[o].pc \notin {"rename", "notify"}
      BY DEF JustRecorded, ReportsAreNew
    <3> QED BY <1>0, <2>1, <2>2, OthersIdle
  <2>5. RecordIsTold'
    <3> SUFFICES ASSUME troubles' \cap {"overlap", "crash", "undelivered"} = {} PROVE told'
      BY DEF RecordIsTold
    <3>1. notice = Outdated(w[p].status)
      BY <1>0, <2>1 DEF JustRecorded
    <3> QED BY <2>1, <3>1
  <2> QED BY <1>1, <2>3, <2>4, <2>5 DEF NoticeInv
<1>7. ASSUME NEW d \in Path, Plug(d) \/ Unplug(d) PROVE NoticeInv'
  <2>1. UNCHANGED <<notice, told, w>> /\ troubles \subseteq troubles'
    BY <1>7 DEF Plug, Unplug
  <2> QED BY <1>0, <1>1, <2>1
          DEF NoticeInv, OneAtOnce, JustRecorded, ReportsAreNew, RecordIsTold, Busy, Outdated, Confirmed
<1>8. CASE UNCHANGED vars
  BY <1>0, <1>1, <1>8 DEF vars, NoticeInv, OneAtOnce, JustRecorded, ReportsAreNew, RecordIsTold,
                          Busy, Outdated, Confirmed
<1> QED BY <1>2, <1>3, <1>4, <1>5, <1>6, <1>7, <1>8 DEF Next, Step

\* What is told and what is on record keep together in every state.
THEOREM NoticeInvariant == Spec => [](TypeOK /\ NoticeInv)
<1>1. Init => TypeOK /\ NoticeInv
  BY InitTyped, InitNotice
<1>2. TypeOK /\ NoticeInv /\ [Next]_vars => TypeOK' /\ NoticeInv'
  BY StepTyped, StepNotice DEF NoticeInv
<1> QED BY <1>1, <1>2, PTL DEF Spec

\* notify_once never repeats a notification: as long as two processes do not
\* reconcile at once and the state file can be read, nobody is about to notify
\* of what the file already says and the user has been told, whatever crashes,
\* is written in vain or is not delivered.
THEOREM NobodyToldTwice == Spec => []NeverToldTwice
<1>1. NoticeInv => NeverToldTwice
  BY DEF NoticeInv, ReportsAreNew, NeverToldTwice
<1> QED BY <1>1, NoticeInvariant, PTL

\* notify_once suppresses no notification that was not shown, as long as two
\* processes do not reconcile at once, none dies, and what is to be shown is
\* delivered; whether the state file can be read does not matter.
THEOREM SuppressedOnlyIfTold == Spec => []SuppressedWasTold
<1>1. TypeOK /\ NoticeInv => SuppressedWasTold
  <2> SUFFICES ASSUME NoticeInv, troubles \cap {"overlap", "crash", "undelivered"} = {},
                      NEW p \in Proc, Suppresses(p)
               PROVE  told
    BY DEF SuppressedWasTold
  <2>1. w[p].pc = "report" /\ notice = Outdated(w[p].status)
    BY DEF Suppresses
  <2>2. notice # None
    BY <2>1, OutdatedAreVersions, NoticeAssumption
  <2>3. \A o \in Proc : w[o].pc = "notify" => o = p
    <3>1. "overlap" \notin troubles
      OBVIOUS
    <3> QED BY <2>1, <3>1 DEF NoticeInv, OneAtOnce, Busy
  <2>4. told \/ \E o \in Proc : w[o].pc = "notify"
    BY <2>2 DEF NoticeInv, RecordIsTold
  <2> QED BY <2>1, <2>3, <2>4
<1> QED BY <1>1, NoticeInvariant, PTL
=============================================================================
