---------------------------- MODULE MinecraftAuth ----------------------------
(***************************************************************************)
(* minecraft-auth: runs of `ensure` for one account, one after the other   *)
(* or at the same time, and `logout`.                                      *)
(*                                                                         *)
(* A run loads the account's state file, or starts from an empty state     *)
(* with a new device identity.  It refreshes the saved Live token or lets  *)
(* the user log in with a device code, exchanges the Live token for a      *)
(* Minecraft session, and saves the identity, the new refresh token and    *)
(* the profile by writing a temporary file and renaming it.                *)
(*                                                                         *)
(* Runs are numbered.  The token issued to a run, the identity it makes up *)
(* and the file it creates carry its number; a token also knows its user.  *)
(***************************************************************************)
EXTENDS Naturals, FiniteSets

CONSTANTS
    Proc,       \* processes that may run at the same time
    User,       \* Microsoft accounts
    None,       \* no file, no state
    Torn,       \* contents that are no JSON document
    MaxRuns,    \* bound: runs of ensure
    MaxFaults   \* bound: crashes and failing operations

ASSUME AuthAssumption ==
    /\ MaxRuns \in Nat /\ MaxFaults \in Nat
    /\ None \notin User /\ None \notin 1..MaxRuns

Number == 1..MaxRuns
Token == [run : Number, user : User]
Saved == [device : Number, token : Token, profile : User]

ASSUME ContentsAssumption == Torn \notin Saved /\ None \notin Saved

VARIABLES
    file,      \* the inode behind the account's state file, or None
    tmp,       \* the inode behind its temporary file, or None
    content,   \* per inode: what is in it
    w,         \* per process: where its run stands, see Run
    runs,      \* runs so far
    valid,     \* refresh tokens the Live server accepts
    complete,  \* history: what a complete login has established
    faults,    \* crashes and failures so far
    troubles   \* history: what has happened that the properties tell apart

vars == <<file, tmp, content, w, runs, valid, complete, faults, troubles>>
disk == <<file, tmp, content>>

\* A run: its number, whether it ignores the saved token, the state it has
\* loaded, its identity, token and inode, and its device code: "none",
\* "pending", "declined", or the user who has approved it; late once the
\* code's lifetime is over.
Run == [pc : {"off", "load", "refresh", "request", "poll", "exchange", "create",
              "fill", "rename"},
        n : Number \cup {None}, reauth : BOOLEAN, saw : Saved \cup {None},
        device : Number \cup {None}, token : Token \cup {None}, inode : Number \cup {None},
        code : User \cup {"none", "pending", "declined"}, late : BOOLEAN]

Off == [pc |-> "off", n |-> None, reauth |-> FALSE, saw |-> None, device |-> None,
        token |-> None, inode |-> None, code |-> "none", late |-> FALSE]

Trouble == {"overlap", "fail", "crash", "revoked"}

Busy(p) == w[p].pc # "off"

Init ==
    /\ file = None /\ tmp = None
    /\ content = [i \in Number |-> Torn]
    /\ w = [p \in Proc |-> Off]
    /\ runs = 0
    /\ valid = {}
    /\ complete = {}
    /\ faults = 0
    /\ troubles = {}

-----------------------------------------------------------------------------

Goto(p, pc) == w' = [w EXCEPT ![p].pc = pc]
End(p) == w' = [w EXCEPT ![p] = Off]
NoFault == UNCHANGED <<faults, troubles>>
Fault(t) ==
    /\ faults < MaxFaults
    /\ faults' = faults + 1
    /\ troubles' = troubles \cup {t}

\* ensure, with or without --reauth.
Start(p) ==
    /\ ~ Busy(p) /\ runs < MaxRuns
    /\ runs' = runs + 1
    /\ \E reauth \in BOOLEAN :
         w' = [w EXCEPT ![p] = [Off EXCEPT !.pc = "load", !.n = runs', !.reauth = reauth]]
    /\ troubles' = troubles \cup {t \in {"overlap"} : \E o \in Proc : Busy(o)}
    /\ UNCHANGED <<disk, valid, complete, faults>>

\* Mutant: --reauth starts from an empty state.
LoadAnew(p) ==
    /\ w[p].pc = "load"
    /\ IF file # None /\ content[file] = Torn THEN End(p)
       ELSE LET s == IF file = None \/ w[p].reauth THEN None ELSE content[file] IN
            w' = [w EXCEPT ![p].saw = s,
                           ![p].device = IF s = None THEN w[p].n ELSE s.device,
                           ![p].pc = IF s = None \/ w[p].reauth THEN "request" ELSE "refresh"]
    /\ UNCHANGED <<disk, runs, valid, complete, faults, troubles>>

\* Mutant: the absence of a saved token is not noticed.
LoadAndRefresh(p) ==
    /\ w[p].pc = "load"
    /\ IF file # None /\ content[file] = Torn THEN End(p)
       ELSE LET s == IF file = None THEN None ELSE content[file] IN
            w' = [w EXCEPT ![p].saw = s,
                           ![p].device = IF s = None THEN w[p].n ELSE s.device,
                           ![p].pc = IF w[p].reauth THEN "request" ELSE "refresh"]
    /\ UNCHANGED <<disk, runs, valid, complete, faults, troubles>>

\* Mutant: the saved token is not tried.
LoadAndAsk(p) ==
    /\ w[p].pc = "load"
    /\ IF file # None /\ content[file] = Torn THEN End(p)
       ELSE LET s == IF file = None THEN None ELSE content[file] IN
            w' = [w EXCEPT ![p].saw = s,
                           ![p].device = IF s = None THEN w[p].n ELSE s.device,
                           ![p].pc = "request"]
    /\ UNCHANGED <<disk, runs, valid, complete, faults, troubles>>

\* load_state and ensure_device_identity.  A file that cannot be parsed ends
\* the run.
Load(p) ==
    /\ w[p].pc = "load"
    /\ IF file # None /\ content[file] = Torn THEN End(p)
       ELSE LET s == IF file = None THEN None ELSE content[file] IN
            w' = [w EXCEPT ![p].saw = s,
                           ![p].device = IF s = None THEN w[p].n ELSE s.device,
                           ![p].pc = IF s = None \/ w[p].reauth THEN "request" ELSE "refresh"]
    /\ UNCHANGED <<disk, runs, valid, complete, faults, troubles>>

New(p, user) == [run |-> w[p].n, user |-> user]

\* The server issues a token for an old one, which it may keep or revoke.
Rotate(old, new) == valid' \in {valid \cup {new}, (valid \ {old}) \cup {new}}

\* refresh_live_token.  Any error, an answer that is lost included, makes
\* acquire_live_token fall back on a login.
Refresh(p) ==
    /\ w[p].pc = "refresh"
    /\ LET old == w[p].saw.token
           new == New(p, old.user)
       IN \/ /\ old \in valid /\ Rotate(old, new)
             /\ \/ w' = [w EXCEPT ![p].token = new, ![p].pc = "exchange"] /\ NoFault
                \/ Goto(p, "request") /\ Fault("fail")
          \/ Goto(p, "request") /\ old \notin valid /\ NoFault /\ UNCHANGED valid
          \/ Goto(p, "request") /\ Fault("fail") /\ UNCHANGED valid
    /\ UNCHANGED <<disk, runs, complete>>

\* request_device_code.
RequestCode(p) ==
    /\ w[p].pc = "request"
    /\ \/ w' = [w EXCEPT ![p].code = "pending", ![p].pc = "poll"] /\ NoFault
       \/ End(p) /\ Fault("fail")
    /\ UNCHANGED <<disk, runs, valid, complete>>

\* The user answers, as one of the accounts.
Answer(p) ==
    /\ w[p].code = "pending"
    /\ \E a \in User \cup {"declined"} : w' = [w EXCEPT ![p].code = a]
    /\ UNCHANGED <<disk, runs, valid, complete, faults, troubles>>

\* The lifetime of the code goes by.
Late(p) ==
    /\ w[p].pc = "poll" /\ ~ w[p].late
    /\ w' = [w EXCEPT ![p].late = TRUE]
    /\ UNCHANGED <<disk, runs, valid, complete, faults, troubles>>

\* exchange_device_code within that time.  While the answer is pending (or
\* slow_down) the run sleeps and asks again; any other error ends it.
Poll(p) ==
    /\ w[p].pc = "poll" /\ ~ w[p].late
    /\ \/ /\ w[p].code \in User
          /\ w' = [w EXCEPT ![p].token = New(p, w[p].code), ![p].code = "none",
                            ![p].pc = "exchange"]
          /\ valid' = valid \cup {New(p, w[p].code)}
          /\ NoFault
       \/ w[p].code = "declined" /\ End(p) /\ NoFault /\ UNCHANGED valid
       \/ End(p) /\ Fault("fail") /\ UNCHANGED valid
    /\ UNCHANGED <<disk, runs, complete>>

\* Mutant: the run polls on as long as the user has not answered.
GiveUpOnceAnswered(p) ==
    /\ w[p].pc = "poll" /\ w[p].late /\ w[p].code # "pending"
    /\ End(p)
    /\ UNCHANGED <<disk, runs, valid, complete, faults, troubles>>

\* The lifetime is over, even if the user has answered since the last poll.
GiveUp(p) ==
    /\ w[p].pc = "poll" /\ w[p].late
    /\ End(p)
    /\ UNCHANGED <<disk, runs, valid, complete, faults, troubles>>

\* Mutant: the refresh token is only saved after a login.
WhatOld(p) ==
    [device |-> w[p].device, profile |-> w[p].token.user,
     token |-> IF w[p].saw = None THEN w[p].token ELSE w[p].saw.token]

\* What a run saves.
What(p) == [device |-> w[p].device, token |-> w[p].token, profile |-> w[p].token.user]

\* Mutant: the refresh token is saved before it has been exchanged.
ExchangeLater(p) ==
    /\ w[p].pc = "exchange"
    /\ Goto(p, "create")
    /\ UNCHANGED <<disk, runs, valid, complete, faults, troubles>>

\* The requests that lead from the Live token to a session and its profile:
\* device token, SISU, launcher login, profile.  They change nothing here.
Exchange(p) ==
    /\ w[p].pc = "exchange"
    /\ \/ Goto(p, "create") /\ complete' = complete \cup {What(p)} /\ NoFault
       \/ End(p) /\ Fault("fail") /\ UNCHANGED complete
    /\ UNCHANGED <<disk, runs, valid>>

\* Mutant: the state file itself is opened for writing.
CreateInPlace(p) ==
    /\ w[p].pc = "create"
    /\ LET i == IF file = None THEN w[p].n ELSE file IN
         /\ tmp' = i
         /\ content' = [content EXCEPT ![i] = Torn]
         /\ w' = [w EXCEPT ![p].inode = i, ![p].pc = "fill"]
    /\ UNCHANGED <<file, runs, valid, complete, faults, troubles>>

\* save_state opens the temporary file and truncates what is in it, ...
Create(p) ==
    /\ w[p].pc = "create"
    /\ LET i == IF tmp = None THEN w[p].n ELSE tmp IN
         /\ tmp' = i
         /\ content' = [content EXCEPT ![i] = Torn]
         /\ w' = [w EXCEPT ![p].inode = i, ![p].pc = "fill"]
    /\ UNCHANGED <<file, runs, valid, complete, faults, troubles>>

\* ... writes to the inode it has opened, over what another run may have
\* written there, ...
Fill(p) ==
    /\ w[p].pc = "fill"
    /\ LET i == w[p].inode IN
         \/ /\ content' = [content EXCEPT ![i] = What(p)]
            /\ Goto(p, "rename") /\ NoFault
         \/ /\ content[i] # Torn
            /\ content' = [content EXCEPT ![i] = Torn]
            /\ Goto(p, "rename") /\ NoFault
         \/ End(p) /\ Fault("fail") /\ UNCHANGED content
    /\ UNCHANGED <<file, tmp, runs, valid, complete>>

\* ... and renames what now has the temporary file's name.
Rename(p) ==
    /\ w[p].pc = "rename"
    /\ End(p)
    /\ \/ /\ file' = IF tmp = None THEN file ELSE tmp
          /\ tmp' = None
          /\ NoFault
       \/ UNCHANGED <<file, tmp>> /\ Fault("fail")
    /\ UNCHANGED <<content, runs, valid, complete>>

Logout ==
    /\ file # None
    /\ file' = None
    /\ troubles' = troubles \cup {t \in {"overlap"} : \E p \in Proc : Busy(p)}
    /\ UNCHANGED <<tmp, content, w, runs, valid, complete, faults>>

Crash(p) ==
    /\ Busy(p)
    /\ End(p)
    /\ Fault("crash")
    /\ UNCHANGED <<disk, runs, valid, complete>>

\* The server stops accepting every token.
Revoke ==
    /\ valid # {}
    /\ valid' = {}
    /\ troubles' = troubles \cup {"revoked"}
    /\ UNCHANGED <<disk, w, runs, complete, faults>>

Step(p) ==
    \/ Load(p) \/ Refresh(p) \/ RequestCode(p) \/ Poll(p) \/ GiveUp(p)
    \/ Exchange(p) \/ Create(p) \/ Fill(p) \/ Rename(p)

Next ==
    \/ \E p \in Proc : Start(p) \/ Step(p) \/ Answer(p) \/ Late(p) \/ Crash(p)
    \/ Logout \/ Revoke

Spec == Init /\ [][Next]_vars

\* Servers answer and time passes; the user need not.
FairSpec == Spec /\ \A p \in Proc : WF_vars(Step(p)) /\ WF_vars(Late(p))

-----------------------------------------------------------------------------
(* Properties *)

\* The types, and what a run needs at each of its steps.
TypeOK ==
    /\ file \in Number \cup {None} /\ tmp \in Number \cup {None}
    /\ content \in [Number -> Saved \cup {Torn}]
    /\ w \in [Proc -> Run]
    /\ runs \in 0..MaxRuns
    /\ valid \subseteq Token
    /\ complete \subseteq Saved
    /\ faults \in 0..MaxFaults
    /\ troubles \subseteq Trouble
    /\ \A p \in Proc :
         /\ Busy(p) => w[p].n \in Number
         /\ w[p].pc \notin {"off", "load"} => w[p].device \in Number
         /\ w[p].pc = "refresh" => w[p].saw # None
         /\ w[p].pc \in {"exchange", "create", "fill", "rename"} => w[p].token \in Token
         /\ w[p].pc \in {"fill", "rename"} => w[p].inode \in Number

\* The state file is replaced as a whole: a crash or a full disk, wherever in a
\* run, never leaves one that cannot be loaded.  (Two runs at a time do: they
\* share the temporary file.)
StateLoads == "overlap" \notin troubles /\ file # None => content[file] # Torn

\* What is saved was established by one complete login: the identity, the
\* token and the profile are of the same run, and the exchange has worked with
\* them, even if several runs write at a time.
SavedTogether == \A i \in Number : content[i] # Torn => content[i] \in complete

\* Between runs, however many there were at a time, the saved token is one the
\* server accepts, so that the next ensure needs no user: unless a run ended
\* early and took along the token it was given for the saved one.
SavedTokenWorks ==
    troubles \subseteq {"overlap"} /\ (\A p \in Proc : ~ Busy(p)) /\ file # None /\ content[file] # Torn
      => content[file].token \in valid

\* The user is only asked to log in if there is no saved token, if the server
\* refuses it, if --reauth asks for it, or if the request has failed.
LoginOnlyWhenNeeded ==
    "fail" \notin troubles =>
      \A p \in Proc : w[p].pc \in {"request", "poll"} =>
        w[p].reauth \/ w[p].saw = None \/ w[p].saw.token \notin valid

\* An account keeps its device identity until logout, as long as one run goes
\* on at a time.
DeviceKept ==
    [][\/ "overlap" \in troubles' \/ file = None \/ file' = None
       \/ content[file] = Torn \/ content'[file'] = Torn
       \/ content'[file'].device = content[file].device]_vars

\* Every ensure ends, whether or not the user answers.
EveryEnsureEnds == \A p \in Proc : Busy(p) ~> ~ Busy(p)
=============================================================================
