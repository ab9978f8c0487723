--------------------------- MODULE HidTransaction ---------------------------
(***************************************************************************)
(* The raw HID transport between host processes and one Silakka54, and the *)
(* request/response transactions silakka54-sync runs over it.              *)
(*                                                                         *)
(* Requests of all processes reach the keyboard through one FIFO.  The     *)
(* keyboard handles them in order and its answer is broadcast: the kernel  *)
(* appends it to the buffer of every open hidraw descriptor, whoever asked. *)
(* Nothing in a report names the asker, so a process recognises its answer *)
(* only by comparing it with its request (response_matches_request), and a *)
(* request that is not answered within 10 ms is written again, unchanged.  *)
(* Hence duplicates: of requests, of their effects and of their answers.   *)
(*                                                                         *)
(* A report is abstracted to [op, at, val]: the command, the firmware page *)
(* or storage cell it names, and the value it carries.                     *)
(***************************************************************************)
EXTENDS Naturals, Sequences

CONSTANTS
    Proc,         \* runs of silakka54-sync that may be alive together
    Cell,         \* dynamic storage: keys, layout options, macro chunks
    MacroCell,    \* the cells among them that are macro buffer chunks
    Value,        \* what a cell can hold
    Page,         \* pages of the firmware status
    HashPage,     \* the page that carries the firmware ABI hash
    Abi,          \* ABI hashes a keyboard may report
    None,         \* no value in the report
    MaxInFlight,  \* bound: requests written and not yet handled
    QueueDepth,   \* bound: reports a hidraw descriptor buffers
    MayReplug,    \* whether the keyboard may be unplugged in this instance
    MayTimeOut    \* whether a transaction may run into its deadline

ASSUME ConstantsAssumption ==
    /\ Proc # {}
    /\ MacroCell \subseteq Cell
    /\ HashPage \in Page
    /\ Page \cap Cell = {}
    /\ None \notin Value /\ None \notin Abi
    /\ MaxInFlight \in Nat \ {0} /\ QueueDepth \in Nat \ {0}
    /\ MayReplug \in BOOLEAN /\ MayTimeOut \in BOOLEAN

VARIABLES
    reg,       \* the keyboard's dynamic storage
    abi,       \* the ABI hash of the firmware it runs
    toDevice,  \* requests written and not yet handled, oldest first
    fd,        \* per process: its descriptor is "closed", "open" or "dead"
    queue      \* per process: reports its descriptor holds, oldest first

hidVars == <<reg, abi, toDevice, fd, queue>>

Request ==
    [op : {"query"}, at : Page, val : {None}]
    \cup [op : {"get"}, at : Cell, val : {None}]
    \cup [op : {"set"}, at : Cell, val : Value]

Response ==
    [op : {"query"}, at : Page, val : Abi \cup {None}]
    \cup [op : {"get", "set"}, at : Cell, val : Value]

Query(page) == [op |-> "query", at |-> page, val |-> None]
Get(cell) == [op |-> "get", at |-> cell, val |-> None]
Set(cell, v) == [op |-> "set", at |-> cell, val |-> v]

HidTypeOK ==
    /\ reg \in [Cell -> Value]
    /\ abi \in Abi
    /\ toDevice \in Seq(Request)
    /\ fd \in [Proc -> {"closed", "open", "dead"}]
    /\ queue \in [Proc -> Seq(Response)]

HidInit ==
    /\ reg \in [Cell -> Value]
    /\ abi \in Abi
    /\ toDevice = <<>>
    /\ fd = [p \in Proc |-> "closed"]
    /\ queue = [p \in Proc |-> <<>>]

-----------------------------------------------------------------------------
(* The keyboard and the kernel *)

\* A set is echoed, a get returns the cell, a status query the page.
Answer(q) ==
    [op |-> q.op, at |-> q.at,
     val |-> CASE q.op = "set" -> q.val
               [] q.op = "get" -> reg[q.at]
               [] q.op = "query" -> IF q.at = HashPage THEN abi ELSE None]

\* hidraw copies a report to every open descriptor with room in its buffer.
Broadcast(r) ==
    [p \in Proc |-> IF fd[p] = "open" /\ Len(queue[p]) < QueueDepth
                      THEN Append(queue[p], r)
                      ELSE queue[p]]

\* The keyboard handles the oldest request; its answer may be lost.
Handle ==
    /\ toDevice # <<>>
    /\ LET q == Head(toDevice) IN
         /\ reg' = IF q.op = "set" THEN [reg EXCEPT ![q.at] = q.val] ELSE reg
         /\ queue' \in {Broadcast(Answer(q)), queue}
    /\ toDevice' = Tail(toDevice)
    /\ UNCHANGED <<abi, fd>>

\* A request may be lost before the keyboard sees it.
LoseRequest ==
    /\ toDevice # <<>>
    /\ toDevice' = Tail(toDevice)
    /\ UNCHANGED <<reg, abi, fd, queue>>

\* The keyboard is unplugged and one answers at the same path again, perhaps
\* with another firmware and other storage.  Open descriptors are dead.
Reconnect ==
    /\ MayReplug
    /\ reg' \in [Cell -> Value]
    /\ abi' \in Abi
    /\ toDevice' = <<>>
    /\ fd' = [p \in Proc |-> IF fd[p] = "open" THEN "dead" ELSE fd[p]]
    /\ queue' = [p \in Proc |-> <<>>]

-----------------------------------------------------------------------------
(* The host side of a transaction *)

\* Mutant: an answer is recognised by its command alone.
MatchesAnyCell(q, r) == r.op = q.op

\* response_matches_request: a macro write is recognised by offset and size
\* only, any other write also by its value; reads by what they name.
Matches(q, r) ==
    /\ r.op = q.op
    /\ r.at = q.at
    /\ q.op = "set" /\ q.at \notin MacroCell => r.val = q.val

OpenHid(p) ==
    /\ fd' = [fd EXCEPT ![p] = "open"]
    /\ queue' = [queue EXCEPT ![p] = <<>>]
    /\ UNCHANGED <<reg, abi, toDevice>>

\* The first write of a transaction and every retry.
WriteRequest(p, q) ==
    /\ fd[p] = "open"
    /\ Len(toDevice) < MaxInFlight
    /\ toDevice' = Append(toDevice, q)
    /\ UNCHANGED <<reg, abi, fd, queue>>

\* A report that does not answer q is read and dropped.
Discard(p, q) ==
    /\ fd[p] = "open" /\ queue[p] # <<>>
    /\ ~ Matches(q, Head(queue[p]))
    /\ queue' = [queue EXCEPT ![p] = Tail(@)]
    /\ UNCHANGED <<reg, abi, toDevice, fd>>

\* The oldest report answers q; the caller may go on.  `keep` says whether
\* the descriptor stays open for a further transaction.
Receive(p, q, keep) ==
    /\ fd[p] = "open" /\ queue[p] # <<>>
    /\ Matches(q, Head(queue[p]))
    /\ fd' = IF keep THEN fd ELSE [fd EXCEPT ![p] = "closed"]
    /\ queue' = [queue EXCEPT ![p] = IF keep THEN Tail(@) ELSE <<>>]
    /\ UNCHANGED <<reg, abi, toDevice>>

CloseHid(p) ==
    /\ fd' = [fd EXCEPT ![p] = "closed"]
    /\ queue' = [queue EXCEPT ![p] = <<>>]
    /\ UNCHANGED <<reg, abi, toDevice>>
=============================================================================
