-------------------------- MODULE MinecraftAuthProofs --------------------------
(***************************************************************************)
(* Proofs about MinecraftAuth for any number of processes, accounts, runs  *)
(* and faults.                                                             *)
(*                                                                         *)
(* Invariants on top of the types: Numbers says that what a run is given   *)
(* carries its number and is nowhere before the run has it; it makes       *)
(* tokens of different runs different.  Origin says where saved contents   *)
(* come from.  Alone says how the run that is under way stands to the      *)
(* files when no other run interferes.  Inodes, Unused and Carried follow  *)
(* a new token to the state file, however many runs write at a time.       *)
(***************************************************************************)
EXTENDS MinecraftAuth, TLAPS

\* A run that has not been given a token yet.
Early(p) == w[p].pc \in {"load", "refresh", "request", "poll"}

\* A run that has one, and one that is saving it.
HasToken(p) == w[p].pc \in {"exchange", "create", "fill", "rename"}
Saving(p) == w[p].pc \in {"create", "fill", "rename"}

\* Tokens carry the number of the run they were issued to, and no token of a
\* run is saved or loaded before the run has it.
Numbers ==
  /\ \A p \in Proc : Busy(p) => w[p].n <= runs
  /\ \A p, q \in Proc : Busy(p) /\ Busy(q) /\ p # q => w[p].n # w[q].n
  /\ \A p \in Proc : HasToken(p) => w[p].token.run = w[p].n
  /\ \A i \in Number : content[i] # Torn => content[i].token.run <= runs
  /\ \A p \in Proc : w[p].saw # None => w[p].saw.token.run <= runs
  /\ \A p \in Proc : Early(p) =>
       /\ \A i \in Number : content[i] # Torn => content[i].token.run # w[p].n
       /\ \A q \in Proc : w[q].saw # None => w[q].saw.token.run # w[p].n

\* What is saved, or about to be, has been established by a complete login.
Origin == SavedTogether /\ \A p \in Proc : Saving(p) => What(p) \in complete

\* As long as no two runs have been under way at once: the run that is under
\* way has loaded what is in the state file, keeps the identity it found there,
\* and what it writes to is the temporary file and nothing else.
Alone ==
  "overlap" \notin troubles =>
    /\ \A p, q \in Proc : Busy(p) /\ Busy(q) => p = q
    /\ file # None => content[file] # Torn /\ file <= runs /\ file # tmp
    /\ tmp # None => tmp <= runs
    /\ \A p \in Proc :
         /\ w[p].pc \notin {"off", "load"} =>
              /\ w[p].saw = IF file = None THEN None ELSE content[file]
              /\ w[p].device = IF w[p].saw = None THEN w[p].n ELSE w[p].saw.device
         /\ Busy(p) /\ w[p].pc \notin {"fill", "rename"} => file # w[p].n
         /\ w[p].pc \in {"fill", "rename"} => tmp = w[p].inode
         /\ w[p].pc = "fill" => content[tmp] = Torn
         /\ w[p].pc = "rename" => content[tmp] = What(p)

-----------------------------------------------------------------------------
(* Types *)

\* What TypeOK says of one run.
Fits(r) ==
  /\ r \in Run
  /\ r.pc # "off" => r.n \in Number
  /\ r.pc \notin {"off", "load"} => r.device \in Number
  /\ r.pc = "refresh" => r.saw # None
  /\ r.pc \in {"exchange", "create", "fill", "rename"} => r.token \in Token
  /\ r.pc \in {"fill", "rename"} => r.inode \in Number

\* What it says of the rest.
WorldTyped ==
  /\ file \in Number \cup {None} /\ tmp \in Number \cup {None}
  /\ content \in [Number -> Saved \cup {Torn}]
  /\ runs \in 0..MaxRuns
  /\ valid \subseteq Token
  /\ complete \subseteq Saved
  /\ faults \in 0..MaxFaults
  /\ troubles \subseteq Trouble

LEMMA TypeParts ==
  TypeOK <=> WorldTyped /\ w \in [Proc -> Run] /\ \A p \in Proc : Fits(w[p])
BY DEF TypeOK, WorldTyped, Fits, Busy

LEMMA TypePartsNext ==
  TypeOK' <=> WorldTyped' /\ w' \in [Proc -> Run] /\ \A p \in Proc : Fits(w'[p])
BY DEF TypeOK, WorldTyped, Fits, Busy

\* A process without a run fits.
LEMMA OffFits == Fits(Off)
BY AuthAssumption DEF Fits, Off, Run

\* What a run sets its own state to.
Becomes(p, r) == w' = [w EXCEPT ![p] = r]

LEMMA BecomesFits ==
  ASSUME TypeOK, NEW p \in Proc, NEW r, Becomes(p, r), Fits(r)
  PROVE  w' \in [Proc -> Run] /\ \A q \in Proc : Fits(w'[q])
<1>1. r \in Run /\ w \in [Proc -> Run] /\ \A q \in Proc : Fits(w[q])
  BY TypeParts DEF Fits
<1>2. \A q \in Proc : w'[q] = IF q = p THEN r ELSE w[q]
  BY <1>1 DEF Becomes
<1> QED BY <1>1, <1>2 DEF Becomes

\* A run that ends leaves nothing behind in its process.
LEMMA EndBecomes == ASSUME NEW p, End(p) PROVE Becomes(p, Off)
BY DEF End, Becomes

\* A run that goes on to pc, and nothing else.
LEMMA GotoBecomes ==
  ASSUME TypeOK, NEW p \in Proc, NEW pc, Goto(p, pc)
  PROVE  Becomes(p, [w[p] EXCEPT !.pc = pc])
BY DEF TypeOK, Goto, Becomes

\* Faults are counted and remembered.
LEMMA FaultTyped ==
  ASSUME TypeOK, NEW t \in Trouble, NoFault \/ Fault(t)
  PROVE  /\ faults' \in 0..MaxFaults /\ troubles' \subseteq Trouble
         /\ troubles' \in {troubles, troubles \cup {t}}
BY AuthAssumption DEF TypeOK, NoFault, Fault

\* A server that issues a token keeps the set of valid ones a set of tokens.
LEMMA RotateTyped ==
  ASSUME valid \subseteq Token, NEW old, NEW new \in Token, Rotate(old, new)
  PROVE  valid' \subseteq Token /\ valid' \subseteq valid \cup {new}
BY DEF Rotate

\* What a run saves is a saved state.
LEMMA WhatTyped ==
  ASSUME TypeOK, NEW p \in Proc, HasToken(p)
  PROVE  What(p) \in Saved /\ What(p).token = w[p].token /\ What(p).device = w[p].device
         /\ What(p) # Torn /\ What(p) # None
<1>1. w[p].token \in Token /\ w[p].device \in Number
  BY DEF TypeOK, HasToken
<1>2. What(p) \in Saved /\ What(p).token = w[p].token /\ What(p).device = w[p].device
  BY <1>1 DEF What, Saved, Token
<1> QED BY <1>2, ContentsAssumption

LEMMA InitTyped == Init => TypeOK
<1> SUFFICES ASSUME Init PROVE TypeOK
  OBVIOUS
<1>1. WorldTyped
  BY AuthAssumption DEF Init, WorldTyped
<1>2. w \in [Proc -> Run] /\ \A p \in Proc : Fits(w[p])
  BY OffFits DEF Init, Fits
<1> QED BY <1>1, <1>2, TypeParts

-----------------------------------------------------------------------------
(* What the steps of a run make of it *)

\* The run goes on with what it has loaded and been given.
GoesOn(p, r) ==
  /\ r.n = w[p].n /\ r.reauth = w[p].reauth /\ r.saw = w[p].saw /\ r.device = w[p].device

Keeps(p, r) == GoesOn(p, r) /\ r.token = w[p].token

\* What a run loads if it does not end there.
Loaded == IF file = None THEN None ELSE content[file]

LEMMA StartOutcome ==
  ASSUME TypeOK, NEW p \in Proc, Start(p)
  PROVE  \E r : /\ Becomes(p, r) /\ Fits(r)
                /\ r.pc = "load" /\ r.n = runs' /\ r.saw = None
<1>1. PICK reauth \in BOOLEAN :
        w' = [w EXCEPT ![p] = [Off EXCEPT !.pc = "load", !.n = runs', !.reauth = reauth]]
  BY DEF Start
<1>2. runs' \in Number
  BY AuthAssumption DEF TypeOK, Start, Number
<1> DEFINE r == [Off EXCEPT !.pc = "load", !.n = runs', !.reauth = reauth]
<1>3. Fits(r) /\ r.pc = "load" /\ r.n = runs' /\ r.saw = None
  BY <1>2, AuthAssumption DEF Fits, Off, Run
<1>4. Becomes(p, r)
  BY <1>1 DEF Becomes
<1> QED BY <1>3, <1>4

LEMMA LoadOutcome ==
  ASSUME TypeOK, NEW p \in Proc, Load(p)
  PROVE  \E r : /\ Becomes(p, r) /\ Fits(r)
                /\ \/ r = Off
                   \/ /\ r.pc \in {"refresh", "request"}
                      /\ r.n = w[p].n /\ r.reauth = w[p].reauth /\ r.saw = Loaded
                      /\ r.saw # None => r.saw # Torn
                      /\ r.device = IF r.saw = None THEN r.n ELSE r.saw.device
                      /\ r.pc = "request" <=> r.saw = None \/ r.reauth
<1>1. CASE file # None /\ content[file] = Torn
  BY <1>1, EndBecomes, OffFits DEF Load
<1>2. CASE ~ (file # None /\ content[file] = Torn)
  <2> DEFINE s == Loaded
             r == [w[p] EXCEPT !.saw = s, !.device = IF s = None THEN w[p].n ELSE s.device,
                               !.pc = IF s = None \/ w[p].reauth THEN "request" ELSE "refresh"]
  <2>1. w[p] \in Run /\ w[p].n \in Number
    BY DEF TypeOK, Load, Busy
  <2>2. s \in Saved \cup {None} /\ (s # None => s # Torn)
    BY <1>2, ContentsAssumption, AuthAssumption DEF TypeOK, Loaded
  <2>3. (IF s = None THEN w[p].n ELSE s.device) \in Number
    <3>1. \A c \in Saved : c.device \in Number
      BY DEF Saved
    <3> HIDE DEF s
    <3> QED BY <2>1, <2>2, <3>1
  <2>4. r \in Run
    BY <2>1, <2>2, <2>3 DEF Run
  <2>5. Becomes(p, r)
    BY <1>2 DEF Load, Loaded, Becomes, TypeOK
  <2>6. /\ r.pc = IF s = None \/ w[p].reauth THEN "request" ELSE "refresh"
        /\ r.n = w[p].n /\ r.reauth = w[p].reauth /\ r.saw = s
        /\ r.device = IF s = None THEN w[p].n ELSE s.device
    BY <2>1 DEF Run
  <2>7. Fits(r)
    BY <2>1, <2>3, <2>4, <2>6 DEF Fits
  <2> HIDE DEF r, s
  <2> QED BY <2>2, <2>5, <2>6, <2>7 DEF s
<1> QED BY <1>1, <1>2

LEMMA RefreshOutcome ==
  ASSUME TypeOK, NEW p \in Proc, Refresh(p)
  PROVE  \E r : /\ Becomes(p, r) /\ Fits(r) /\ GoesOn(p, r)
                /\ \/ r.pc = "exchange" /\ r.token.run = w[p].n
                   \/ r.pc = "request" /\ (w[p].saw.token \notin valid' \/ "fail" \in troubles')
                /\ valid' \subseteq valid \cup {New(p, w[p].saw.token.user)}
                /\ New(p, w[p].saw.token.user) \in Token
                /\ faults' \in 0..MaxFaults /\ troubles' \in {troubles, troubles \cup {"fail"}}
<1> DEFINE old == w[p].saw.token
           new == New(p, old.user)
           r1 == [w[p] EXCEPT !.token = new, !.pc = "exchange"]
           r2 == [w[p] EXCEPT !.pc = "request"]
<1>1. w[p] \in Run /\ w[p].n \in Number /\ w[p].saw \in Saved /\ w[p].device \in Number
  <2>1. w[p].pc = "refresh" /\ w[p] \in Run
    BY DEF TypeOK, Refresh
  <2> QED BY <2>1 DEF TypeOK, Run, Busy
<1>2. new \in Token /\ new.run = w[p].n
  BY <1>1 DEF Saved, Token, New
<1>3. valid \subseteq Token
  BY DEF TypeOK
<1>4. /\ r1.pc = "exchange" /\ r1.token = new /\ GoesOn(p, r1)
      /\ r2.pc = "request" /\ GoesOn(p, r2)
  BY <1>1 DEF Run, GoesOn
<1>5. r1 \in Run /\ r2 \in Run
  BY <1>1, <1>2 DEF Run
<1>6. Fits(r1) /\ Fits(r2)
  BY <1>1, <1>2, <1>4, <1>5 DEF Fits, GoesOn
<1>7. faults' \in 0..MaxFaults /\ troubles' \in {troubles, troubles \cup {"fail"}}
  BY FaultTyped DEF Refresh, Trouble
<1>8. \/ Becomes(p, r1) /\ Rotate(old, new)
      \/ Becomes(p, r2) /\ (Rotate(old, new) \/ valid' = valid)
           /\ (old \notin valid' \/ "fail" \in troubles')
  <2>1. CASE w' = [w EXCEPT ![p].token = new, ![p].pc = "exchange"] /\ Rotate(old, new)
    BY <2>1 DEF Becomes, TypeOK
  <2>2. CASE Goto(p, "request") /\ Fault("fail") /\ (Rotate(old, new) \/ valid' = valid)
    <3>1. Becomes(p, r2)
      BY <2>2, GotoBecomes
    <3> QED BY <2>2, <3>1 DEF Fault
  <2>3. CASE Goto(p, "request") /\ old \notin valid /\ valid' = valid
    <3>1. Becomes(p, r2)
      BY <2>3, GotoBecomes
    <3> QED BY <2>3, <3>1
  <2> HIDE DEF r1, r2
  <2> QED BY <2>1, <2>2, <2>3 DEF Refresh
<1>9. valid' \subseteq valid \cup {new}
  BY <1>8 DEF Rotate
<1> HIDE DEF r1, r2, new, old
<1>10. CASE Becomes(p, r1)
  BY <1>2, <1>4, <1>6, <1>7, <1>9, <1>10 DEF new, old
<1>11. CASE Becomes(p, r2) /\ (old \notin valid' \/ "fail" \in troubles')
  BY <1>2, <1>4, <1>6, <1>7, <1>9, <1>11 DEF new, old
<1> QED BY <1>8, <1>10, <1>11

\* Nothing but the answer or the time of its device code changes.
LEMMA WaitOutcome ==
  ASSUME TypeOK, NEW p \in Proc, Answer(p) \/ Late(p)
  PROVE  \E r : /\ Becomes(p, r) /\ Fits(r) /\ Keeps(p, r)
                /\ r.pc = w[p].pc /\ r.inode = w[p].inode
<1>1. w[p] \in Run /\ Fits(w[p])
  BY TypeParts
<1>2. CASE Answer(p)
  <2>1. PICK a \in User \cup {"declined"} : w' = [w EXCEPT ![p].code = a]
    BY <1>2 DEF Answer
  <2> DEFINE r == [w[p] EXCEPT !.code = a]
  <2>2. Becomes(p, r) /\ Fits(r) /\ Keeps(p, r) /\ r.pc = w[p].pc /\ r.inode = w[p].inode
    BY <1>1, <2>1 DEF Becomes, Fits, Keeps, GoesOn, Run
  <2> QED BY <2>2
<1>3. CASE Late(p)
  <2> DEFINE r == [w[p] EXCEPT !.late = TRUE]
  <2>1. Becomes(p, r) /\ Fits(r) /\ Keeps(p, r) /\ r.pc = w[p].pc /\ r.inode = w[p].inode
    BY <1>1, <1>3 DEF Late, Becomes, Fits, Keeps, GoesOn, Run
  <2> QED BY <2>1
<1> QED BY <1>2, <1>3

LEMMA RequestOutcome ==
  ASSUME TypeOK, NEW p \in Proc, RequestCode(p)
  PROVE  \E r : Becomes(p, r) /\ Fits(r) /\ (r = Off \/ (r.pc = "poll" /\ GoesOn(p, r)))
<1>1. CASE End(p)
  BY <1>1, EndBecomes, OffFits
<1>2. CASE w' = [w EXCEPT ![p].code = "pending", ![p].pc = "poll"]
  <2> DEFINE r == [w[p] EXCEPT !.code = "pending", !.pc = "poll"]
  <2>1. w[p] \in Run /\ Fits(w[p]) /\ w[p].pc = "request"
    BY TypeParts DEF RequestCode
  <2>2. Becomes(p, r)
    BY <1>2, <2>1 DEF Becomes, TypeOK
  <2>3. r \in Run /\ r.pc = "poll" /\ GoesOn(p, r)
    BY <2>1 DEF Run, GoesOn
  <2>4. Fits(r)
    BY <2>1, <2>3 DEF Fits, GoesOn
  <2> QED BY <2>2, <2>3, <2>4
<1> QED BY <1>1, <1>2 DEF RequestCode

LEMMA PollOutcome ==
  ASSUME TypeOK, NEW p \in Proc, Poll(p)
  PROVE  \E r : /\ Becomes(p, r) /\ Fits(r)
                /\ \/ r = Off /\ valid' = valid
                   \/ /\ r.pc = "exchange" /\ GoesOn(p, r) /\ r.token.run = w[p].n
                      /\ r.token \in Token /\ valid' = valid \cup {r.token}
<1>1. CASE End(p) /\ valid' = valid
  BY <1>1, EndBecomes, OffFits
<1>2. CASE /\ w[p].code \in User
           /\ w' = [w EXCEPT ![p].token = New(p, w[p].code), ![p].code = "none",
                             ![p].pc = "exchange"]
           /\ valid' = valid \cup {New(p, w[p].code)}
  <2> DEFINE t == New(p, w[p].code)
             r == [w[p] EXCEPT !.token = t, !.code = "none", !.pc = "exchange"]
  <2>1. w[p] \in Run /\ Fits(w[p]) /\ w[p].pc = "poll"
    BY TypeParts DEF Poll
  <2>2. t \in Token /\ t.run = w[p].n
    BY <1>2, <2>1 DEF New, Token, Fits
  <2>3. Becomes(p, r)
    BY <1>2, <2>1 DEF Becomes, TypeOK
  <2> HIDE DEF t
  <2>4. r \in Run /\ r.pc = "exchange" /\ GoesOn(p, r) /\ r.token = t
    BY <2>1, <2>2 DEF Run, GoesOn
  <2>5. Fits(r)
    BY <2>1, <2>2, <2>4 DEF Fits, GoesOn
  <2>6. valid' = valid \cup {t}
    BY <1>2 DEF t
  <2> QED BY <2>2, <2>3, <2>4, <2>5, <2>6
<1> QED BY <1>1, <1>2 DEF Poll

LEMMA ExchangeOutcome ==
  ASSUME TypeOK, NEW p \in Proc, Exchange(p)
  PROVE  \E r : /\ Becomes(p, r) /\ Fits(r)
                /\ \/ r = Off /\ complete' = complete
                   \/ r.pc = "create" /\ Keeps(p, r) /\ complete' = complete \cup {What(p)}
<1>1. CASE End(p) /\ complete' = complete
  BY <1>1, EndBecomes, OffFits
<1>2. CASE Goto(p, "create") /\ complete' = complete \cup {What(p)}
  <2> DEFINE r == [w[p] EXCEPT !.pc = "create"]
  <2>1. w[p] \in Run /\ Fits(w[p]) /\ w[p].pc = "exchange"
    BY TypeParts DEF Exchange
  <2>2. Becomes(p, r)
    BY <1>2, GotoBecomes
  <2>3. r \in Run /\ r.pc = "create" /\ Keeps(p, r)
    BY <2>1 DEF Run, Keeps, GoesOn
  <2>4. Fits(r)
    BY <2>1, <2>3 DEF Fits, Keeps, GoesOn
  <2> QED BY <1>2, <2>2, <2>3, <2>4
<1> QED BY <1>1, <1>2 DEF Exchange

LEMMA CreateOutcome ==
  ASSUME TypeOK, NEW p \in Proc, Create(p)
  PROVE  \E r : /\ Becomes(p, r) /\ Fits(r) /\ r.pc = "fill" /\ Keeps(p, r)
                /\ r.inode \in Number /\ r.inode = IF tmp = None THEN w[p].n ELSE tmp
                /\ tmp' = r.inode /\ content' = [content EXCEPT ![r.inode] = Torn]
<1> DEFINE i == IF tmp = None THEN w[p].n ELSE tmp
           r == [w[p] EXCEPT !.inode = i, !.pc = "fill"]
<1>1. w[p] \in Run /\ Fits(w[p]) /\ w[p].pc = "create"
  BY TypeParts DEF Create
<1>2. i \in Number
  BY <1>1 DEF Fits, TypeOK
<1>3. Becomes(p, r) /\ tmp' = i /\ content' = [content EXCEPT ![i] = Torn]
  BY <1>1 DEF Becomes, TypeOK, Create
<1> HIDE DEF i
<1>4. r \in Run /\ r.pc = "fill" /\ Keeps(p, r) /\ r.inode = i
  BY <1>1, <1>2 DEF Run, Keeps, GoesOn
<1>5. Fits(r)
  BY <1>1, <1>2, <1>4 DEF Fits, Keeps, GoesOn
<1> QED BY <1>2, <1>3, <1>4, <1>5 DEF i

LEMMA FillOutcome ==
  ASSUME TypeOK, NEW p \in Proc, Fill(p)
  PROVE  \E r : /\ Becomes(p, r) /\ Fits(r)
                /\ \/ r = Off /\ content' = content
                   \/ /\ r.pc = "rename" /\ Keeps(p, r) /\ r.inode = w[p].inode
                      /\ \/ content' = [content EXCEPT ![r.inode] = What(p)]
                         \/ /\ content[r.inode] # Torn
                            /\ content' = [content EXCEPT ![r.inode] = Torn]
<1>1. CASE End(p) /\ content' = content
  BY <1>1, EndBecomes, OffFits
<1>2. CASE Goto(p, "rename")
           /\ \/ content' = [content EXCEPT ![w[p].inode] = What(p)]
              \/ /\ content[w[p].inode] # Torn
                 /\ content' = [content EXCEPT ![w[p].inode] = Torn]
  <2> DEFINE r == [w[p] EXCEPT !.pc = "rename"]
  <2>1. w[p] \in Run /\ Fits(w[p]) /\ w[p].pc = "fill"
    BY TypeParts DEF Fill
  <2>2. Becomes(p, r)
    BY <1>2, GotoBecomes
  <2>3. r \in Run /\ r.pc = "rename" /\ Keeps(p, r) /\ r.inode = w[p].inode
    BY <2>1 DEF Run, Keeps, GoesOn
  <2>4. Fits(r)
    BY <2>1, <2>3 DEF Fits, Keeps, GoesOn
  <2> HIDE DEF r
  <2> QED BY <1>2, <2>2, <2>3, <2>4
<1> QED BY <1>1, <1>2 DEF Fill

-----------------------------------------------------------------------------
(* The types are kept *)

LEMMA StepTyped == TypeOK /\ [Next]_vars => TypeOK'
<1> SUFFICES ASSUME TypeOK, [Next]_vars PROVE TypeOK'
  OBVIOUS
<1> USE DEF disk
<1>1. ASSUME NEW p \in Proc, Start(p) PROVE TypeOK'
  <2>1. w' \in [Proc -> Run] /\ \A q \in Proc : Fits(w'[q])
    BY <1>1, StartOutcome, BecomesFits
  <2>2. runs' \in 0..MaxRuns /\ troubles' \subseteq Trouble
    BY <1>1, AuthAssumption DEF Start, TypeOK, Trouble
  <2> QED BY <1>1, <2>1, <2>2, TypeParts, TypePartsNext DEF Start, WorldTyped
<1>2. ASSUME NEW p \in Proc, Load(p) PROVE TypeOK'
  <2>1. w' \in [Proc -> Run] /\ \A q \in Proc : Fits(w'[q])
    BY <1>2, LoadOutcome, BecomesFits
  <2> QED BY <1>2, <2>1, TypeParts, TypePartsNext DEF Load, WorldTyped
<1>3. ASSUME NEW p \in Proc, Refresh(p) PROVE TypeOK'
  <2>1. PICK r : /\ Becomes(p, r) /\ Fits(r)
                 /\ valid' \subseteq valid \cup {New(p, w[p].saw.token.user)}
                 /\ New(p, w[p].saw.token.user) \in Token
                 /\ faults' \in 0..MaxFaults /\ troubles' \in {troubles, troubles \cup {"fail"}}
    BY <1>3, RefreshOutcome
  <2>2. w' \in [Proc -> Run] /\ \A q \in Proc : Fits(w'[q])
    BY <2>1, BecomesFits
  <2>3. valid' \subseteq Token /\ troubles' \subseteq Trouble
    BY <2>1 DEF TypeOK, Trouble
  <2> QED BY <1>3, <2>1, <2>2, <2>3, TypeParts, TypePartsNext DEF Refresh, WorldTyped
<1>4. ASSUME NEW p \in Proc, RequestCode(p) PROVE TypeOK'
  <2>1. w' \in [Proc -> Run] /\ \A q \in Proc : Fits(w'[q])
    BY <1>4, RequestOutcome, BecomesFits
  <2>2. faults' \in 0..MaxFaults /\ troubles' \subseteq Trouble
    BY <1>4, FaultTyped DEF RequestCode, Trouble
  <2> QED BY <1>4, <2>1, <2>2, TypeParts, TypePartsNext DEF RequestCode, WorldTyped
<1>5. ASSUME NEW p \in Proc, Answer(p) \/ Late(p) PROVE TypeOK'
  <2>1. w' \in [Proc -> Run] /\ \A q \in Proc : Fits(w'[q])
    BY <1>5, WaitOutcome, BecomesFits
  <2> QED BY <1>5, <2>1, TypeParts, TypePartsNext DEF Answer, Late, WorldTyped
<1>6. ASSUME NEW p \in Proc, Poll(p) PROVE TypeOK'
  <2>1. w' \in [Proc -> Run] /\ (\A q \in Proc : Fits(w'[q])) /\ valid' \subseteq Token
    BY <1>6, PollOutcome, BecomesFits DEF TypeOK
  <2>2. faults' \in 0..MaxFaults /\ troubles' \subseteq Trouble
    BY <1>6, FaultTyped DEF Poll, Trouble
  <2> QED BY <1>6, <2>1, <2>2, TypeParts, TypePartsNext DEF Poll, WorldTyped
<1>7. ASSUME NEW p \in Proc, GiveUp(p) PROVE TypeOK'
  <2>1. w' \in [Proc -> Run] /\ \A q \in Proc : Fits(w'[q])
    BY <1>7, EndBecomes, OffFits, BecomesFits DEF GiveUp
  <2> QED BY <1>7, <2>1, TypeParts, TypePartsNext DEF GiveUp, WorldTyped
<1>8. ASSUME NEW p \in Proc, Exchange(p) PROVE TypeOK'
  <2>1. w' \in [Proc -> Run] /\ \A q \in Proc : Fits(w'[q])
    BY <1>8, ExchangeOutcome, BecomesFits
  <2>2. What(p) \in Saved
    BY <1>8, WhatTyped DEF Exchange, HasToken
  <2>3. complete' \subseteq Saved
    BY <1>8, <2>2 DEF Exchange, TypeOK
  <2>4. faults' \in 0..MaxFaults /\ troubles' \subseteq Trouble
    BY <1>8, FaultTyped DEF Exchange, Trouble
  <2> QED BY <1>8, <2>1, <2>3, <2>4, TypeParts, TypePartsNext DEF Exchange, WorldTyped
<1>9. ASSUME NEW p \in Proc, Create(p) PROVE TypeOK'
  <2>1. PICK r : /\ Becomes(p, r) /\ Fits(r) /\ r.inode \in Number
                 /\ tmp' = r.inode /\ content' = [content EXCEPT ![r.inode] = Torn]
    BY <1>9, CreateOutcome
  <2>2. w' \in [Proc -> Run] /\ \A q \in Proc : Fits(w'[q])
    BY <2>1, BecomesFits
  <2>3. content' \in [Number -> Saved \cup {Torn}]
    BY <2>1 DEF TypeOK
  <2> QED BY <1>9, <2>1, <2>2, <2>3, TypeParts, TypePartsNext DEF Create, WorldTyped
<1>10. ASSUME NEW p \in Proc, Fill(p) PROVE TypeOK'
  <2>1. w' \in [Proc -> Run] /\ \A q \in Proc : Fits(w'[q])
    BY <1>10, FillOutcome, BecomesFits
  <2>2. What(p) \in Saved
    BY <1>10, WhatTyped DEF Fill, HasToken
  <2>3. content' \in [Number -> Saved \cup {Torn}]
    BY <1>10, <2>2 DEF Fill, TypeOK
  <2>4. faults' \in 0..MaxFaults /\ troubles' \subseteq Trouble
    BY <1>10, FaultTyped DEF Fill, Trouble
  <2> QED BY <1>10, <2>1, <2>3, <2>4, TypeParts, TypePartsNext DEF Fill, WorldTyped
<1>11. ASSUME NEW p \in Proc, Rename(p) PROVE TypeOK'
  <2>1. w' \in [Proc -> Run] /\ \A q \in Proc : Fits(w'[q])
    BY <1>11, EndBecomes, OffFits, BecomesFits DEF Rename
  <2>2. faults' \in 0..MaxFaults /\ troubles' \subseteq Trouble
    BY <1>11, FaultTyped DEF Rename, Trouble
  <2>3. file' \in Number \cup {None} /\ tmp' \in Number \cup {None}
    BY <1>11 DEF Rename, TypeOK
  <2> QED BY <1>11, <2>1, <2>2, <2>3, TypeParts, TypePartsNext DEF Rename, WorldTyped
<1>12. ASSUME NEW p \in Proc, Crash(p) PROVE TypeOK'
  <2>1. w' \in [Proc -> Run] /\ \A q \in Proc : Fits(w'[q])
    BY <1>12, EndBecomes, OffFits, BecomesFits DEF Crash
  <2>2. faults' \in 0..MaxFaults /\ troubles' \subseteq Trouble
    BY <1>12, FaultTyped DEF Crash, Trouble
  <2> QED BY <1>12, <2>1, <2>2, TypeParts, TypePartsNext DEF Crash, WorldTyped
<1>13. CASE Logout
  BY <1>13, TypeParts, TypePartsNext DEF Logout, WorldTyped, Trouble, Fits
<1>14. CASE Revoke
  BY <1>14, TypeParts, TypePartsNext DEF Revoke, WorldTyped, Trouble, Fits
<1>15. CASE UNCHANGED vars
  BY <1>15, TypeParts, TypePartsNext DEF vars, WorldTyped, Fits
<1> QED BY <1>1, <1>2, <1>3, <1>4, <1>5, <1>6, <1>7, <1>8, <1>9, <1>10, <1>11, <1>12, <1>13,
           <1>14, <1>15 DEF Next, Step

-----------------------------------------------------------------------------
(* Numbers are kept *)

\* Who the other processes are does not change.
LEMMA Others ==
  ASSUME TypeOK, NEW p \in Proc, NEW r, Becomes(p, r)
  PROVE  w'[p] = r /\ \A q \in Proc : q # p => w'[q] = w[q]
BY DEF TypeOK, Becomes

\* A run that ends disturbs no number, ...
LEMMA NumbersEnd ==
  ASSUME TypeOK, Numbers, NEW p \in Proc, Becomes(p, Off), runs' = runs, content' = content
  PROVE  Numbers'
<1>1. w'[p] = Off /\ \A q \in Proc : q # p => w'[q] = w[q]
  BY Others
<1>2. Off.pc = "off" /\ Off.saw = None
  BY DEF Off
<1> QED BY <1>1, <1>2 DEF Numbers, Busy, HasToken, Early

\* ... and neither does one that goes on, if what it is given carries its number.
LEMMA NumbersOn ==
  ASSUME TypeOK, Numbers, NEW p \in Proc, NEW r, Becomes(p, r), GoesOn(p, r), Busy(p),
         r.pc \in {"load", "refresh", "request", "poll"} => Early(p),
         r.pc \in {"exchange", "create", "fill", "rename"} => r.token.run = r.n,
         runs' = runs, content' = content
  PROVE  Numbers'
<1>1. w'[p] = r /\ \A q \in Proc : q # p => w'[q] = w[q]
  BY Others
<1>2. r.n = w[p].n /\ r.saw = w[p].saw
  BY DEF GoesOn
<1> QED BY <1>1, <1>2 DEF Numbers, Busy, HasToken, Early

\* A run that writes may leave what it has been given.
LEMMA NumbersWritten ==
  ASSUME TypeOK, Numbers, NEW p \in Proc, NEW r, Becomes(p, r), Keeps(p, r), HasToken(p),
         r.pc \in {"exchange", "create", "fill", "rename"}, runs' = runs,
         \A i \in Number : content'[i] \in {content[i], What(p), Torn}
  PROVE  Numbers'
<1>1. w'[p] = r /\ \A q \in Proc : q # p => w'[q] = w[q]
  BY Others
<1>2. r.n = w[p].n /\ r.saw = w[p].saw /\ r.token = w[p].token
  BY DEF Keeps, GoesOn
<1>3. What(p).token = w[p].token /\ w[p].token.run = w[p].n /\ w[p].n <= runs
  BY WhatTyped DEF Numbers, HasToken, Busy
<1>4. \A i \in Number : content'[i] # Torn =>
        \/ content[i] # Torn /\ content'[i].token.run = content[i].token.run
        \/ content'[i].token.run = w[p].n
  BY <1>3
<1>5. \A q \in Proc : Early(q)' => q # p /\ Early(q) /\ w[q].n # w[p].n
  BY <1>1 DEF Numbers, Early, HasToken, Busy
<1> QED BY <1>1, <1>2, <1>3, <1>4, <1>5 DEF Numbers, Busy, HasToken, Early

LEMMA InitNumbers == Init => Numbers
BY DEF Init, Numbers, Busy, HasToken, Early, Off

LEMMA StepNumbers == TypeOK /\ Numbers /\ [Next]_vars => Numbers'
<1> SUFFICES ASSUME TypeOK, Numbers, [Next]_vars PROVE Numbers'
  OBVIOUS
<1> USE DEF disk
<1>1. ASSUME NEW p \in Proc, Start(p) PROVE Numbers'
  <2>1. PICK r : Becomes(p, r) /\ Fits(r) /\ r.pc = "load" /\ r.n = runs' /\ r.saw = None
    BY <1>1, StartOutcome
  <2>2. w'[p] = r /\ \A q \in Proc : q # p => w'[q] = w[q]
    BY <2>1, Others
  <2>3. runs \in Nat /\ runs' = runs + 1 /\ content' = content
    BY <1>1, AuthAssumption DEF Start, TypeOK
  <2>4. \A i \in Number : content[i] # Torn =>
          content[i].token.run \in Nat /\ content[i].token.run <= runs
    BY DEF TypeOK, Numbers, Saved, Token, Number
  <2>5. \A q \in Proc : w[q].saw # None => w[q].saw.token.run \in Nat /\ w[q].saw.token.run <= runs
    BY DEF TypeOK, Numbers, Run, Saved, Token, Number
  <2>6. \A q \in Proc : Busy(q) => w[q].n \in Nat /\ w[q].n <= runs
    BY DEF TypeOK, Numbers, Number
  <2>7. \A q \in Proc : q # p /\ Busy(q)' => Busy(q)
    BY <2>2 DEF Busy
  <2>8. (\A q \in Proc : Busy(q) => w[q].n <= runs)'
    BY <2>1, <2>2, <2>3, <2>6, <2>7
  <2>9. (\A o, q \in Proc : Busy(o) /\ Busy(q) /\ o # q => w[o].n # w[q].n)'
    <3> SUFFICES ASSUME NEW o \in Proc, NEW q \in Proc, Busy(o)', Busy(q)', o # q
                 PROVE  w'[o].n # w'[q].n
      OBVIOUS
    <3>1. CASE o = p
      BY <3>1, <2>1, <2>2, <2>3, <2>6, <2>7
    <3>2. CASE q = p
      BY <3>2, <2>1, <2>2, <2>3, <2>6, <2>7
    <3>3. CASE o # p /\ q # p
      BY <3>3, <2>2, <2>7 DEF Numbers
    <3> QED BY <3>1, <3>2, <3>3
  <2>10. (\A q \in Proc : HasToken(q) => w[q].token.run = w[q].n)'
    BY <2>1, <2>2 DEF Numbers, HasToken
  <2>11. /\ \A i \in Number : content'[i] # Torn => content'[i].token.run <= runs'
         /\ \A q \in Proc : w'[q].saw # None => w'[q].saw.token.run <= runs'
    BY <2>1, <2>2, <2>3, <2>4, <2>5
  <2>12. ASSUME NEW q \in Proc, Early(q)'
         PROVE  /\ \A i \in Number : content'[i] # Torn => content'[i].token.run # w'[q].n
                /\ \A o \in Proc : w'[o].saw # None => w'[o].saw.token.run # w'[q].n
    <3>1. CASE q = p
      BY <3>1, <2>1, <2>2, <2>3, <2>4, <2>5
    <3>2. CASE q # p
      BY <3>2, <2>1, <2>2, <2>3, <2>12 DEF Numbers, Early
    <3> QED BY <3>1, <3>2
  <2> QED BY <2>8, <2>9, <2>10, <2>11, <2>12 DEF Numbers
<1>2. ASSUME NEW p \in Proc, Load(p) PROVE Numbers'
  <2>1. PICK r : /\ Becomes(p, r) /\ Fits(r)
                 /\ \/ r = Off
                    \/ /\ r.pc \in {"refresh", "request"}
                       /\ r.n = w[p].n /\ r.saw = Loaded
                       /\ r.saw # None => r.saw # Torn
    BY <1>2, LoadOutcome
  <2>2. runs' = runs /\ content' = content /\ Early(p)
    BY <1>2 DEF Load, Early
  <2>3. CASE r = Off
    BY <2>1, <2>2, <2>3, NumbersEnd
  <2>4. CASE r # Off
    <3>1. w'[p] = r /\ \A q \in Proc : q # p => w'[q] = w[q]
      BY <2>1, Others
    <3>2. r.saw # None => file \in Number /\ r.saw = content[file] /\ content[file] # Torn
      BY <2>1, <2>4 DEF Loaded, TypeOK
    <3>3. r.saw # None => /\ r.saw.token.run <= runs
                          /\ \A q \in Proc : Early(q) => r.saw.token.run # w[q].n
      BY <3>2 DEF Numbers
    <3>4. r.n = w[p].n /\ r.pc \in {"refresh", "request"}
      BY <2>1, <2>4
    <3> QED BY <2>2, <3>1, <3>3, <3>4 DEF Numbers, Busy, HasToken, Early
  <2> QED BY <2>3, <2>4
<1>3. ASSUME NEW p \in Proc, Refresh(p) PROVE Numbers'
  <2>1. PICK r : /\ Becomes(p, r) /\ GoesOn(p, r)
                 /\ r.pc = "request" \/ (r.pc = "exchange" /\ r.token.run = w[p].n)
    BY <1>3, RefreshOutcome
  <2>2. Busy(p) /\ Early(p) /\ runs' = runs /\ content' = content
    BY <1>3 DEF Refresh, Busy, Early
  <2> QED BY <2>1, <2>2, NumbersOn DEF GoesOn
<1>4. ASSUME NEW p \in Proc, RequestCode(p) PROVE Numbers'
  <2>1. PICK r : Becomes(p, r) /\ (r = Off \/ (r.pc = "poll" /\ GoesOn(p, r)))
    BY <1>4, RequestOutcome
  <2>2. Busy(p) /\ Early(p) /\ runs' = runs /\ content' = content
    BY <1>4 DEF RequestCode, Busy, Early
  <2>3. CASE r = Off
    BY <2>1, <2>2, <2>3, NumbersEnd
  <2>4. CASE r.pc = "poll" /\ GoesOn(p, r)
    BY <2>1, <2>2, <2>4, NumbersOn
  <2> QED BY <2>1, <2>3, <2>4
<1>5. ASSUME NEW p \in Proc, Answer(p) \/ Late(p) PROVE Numbers'
  <2>1. PICK r : Becomes(p, r) /\ Keeps(p, r) /\ r.pc = w[p].pc
    BY <1>5, WaitOutcome
  <2>2. w'[p] = r /\ (\A q \in Proc : q # p => w'[q] = w[q]) /\ runs' = runs /\ content' = content
    BY <1>5, <2>1, Others DEF Answer, Late
  <2>3. r.n = w[p].n /\ r.saw = w[p].saw /\ r.token = w[p].token
    BY <2>1 DEF Keeps, GoesOn
  <2> QED BY <2>1, <2>2, <2>3 DEF Numbers, Busy, HasToken, Early
<1>6. ASSUME NEW p \in Proc, Poll(p) PROVE Numbers'
  <2>1. PICK r : /\ Becomes(p, r)
                 /\ r = Off \/ (r.pc = "exchange" /\ GoesOn(p, r) /\ r.token.run = w[p].n)
    BY <1>6, PollOutcome
  <2>2. Busy(p) /\ Early(p) /\ runs' = runs /\ content' = content
    BY <1>6 DEF Poll, Busy, Early
  <2>3. CASE r = Off
    BY <2>1, <2>2, <2>3, NumbersEnd
  <2>4. CASE r.pc = "exchange" /\ GoesOn(p, r) /\ r.token.run = w[p].n
    BY <2>1, <2>2, <2>4, NumbersOn DEF GoesOn
  <2> QED BY <2>1, <2>3, <2>4
<1>7. ASSUME NEW p \in Proc, GiveUp(p) \/ Rename(p) \/ Crash(p) PROVE Numbers'
  BY <1>7, EndBecomes, NumbersEnd DEF GiveUp, Rename, Crash
<1>8. ASSUME NEW p \in Proc, Exchange(p) PROVE Numbers'
  <2>1. PICK r : Becomes(p, r) /\ (r = Off \/ (r.pc = "create" /\ Keeps(p, r)))
    BY <1>8, ExchangeOutcome
  <2>2. HasToken(p) /\ runs' = runs /\ content' = content
    BY <1>8 DEF Exchange, HasToken
  <2>3. CASE r = Off
    BY <2>1, <2>2, <2>3, NumbersEnd
  <2>4. CASE r.pc = "create" /\ Keeps(p, r)
    BY <2>1, <2>2, <2>4, NumbersWritten
  <2> QED BY <2>1, <2>3, <2>4
<1>9. ASSUME NEW p \in Proc, Create(p) PROVE Numbers'
  <2>1. PICK r : /\ Becomes(p, r) /\ r.pc = "fill" /\ Keeps(p, r) /\ r.inode \in Number
                 /\ content' = [content EXCEPT ![r.inode] = Torn]
    BY <1>9, CreateOutcome
  <2>2. HasToken(p) /\ runs' = runs
    BY <1>9 DEF Create, HasToken
  <2>3. \A i \in Number : content'[i] \in {content[i], What(p), Torn}
    BY <2>1 DEF TypeOK
  <2> QED BY <2>1, <2>2, <2>3, NumbersWritten
<1>10. ASSUME NEW p \in Proc, Fill(p) PROVE Numbers'
  <2>1. PICK r : /\ Becomes(p, r)
                 /\ \/ r = Off /\ content' = content
                    \/ /\ r.pc = "rename" /\ Keeps(p, r)
                       /\ \/ content' = [content EXCEPT ![r.inode] = What(p)]
                          \/ content' = [content EXCEPT ![r.inode] = Torn]
    BY <1>10, FillOutcome
  <2>2. HasToken(p) /\ runs' = runs
    BY <1>10 DEF Fill, HasToken
  <2>3. CASE r = Off /\ content' = content
    BY <2>1, <2>2, <2>3, NumbersEnd
  <2>4. CASE /\ r.pc = "rename" /\ Keeps(p, r)
             /\ \/ content' = [content EXCEPT ![r.inode] = What(p)]
                \/ content' = [content EXCEPT ![r.inode] = Torn]
    <3>1. \A i \in Number : content'[i] \in {content[i], What(p), Torn}
      BY <2>4 DEF TypeOK
    <3> QED BY <2>1, <2>2, <2>4, <3>1, NumbersWritten
  <2> QED BY <2>1, <2>3, <2>4
<1>11. CASE Logout \/ Revoke \/ UNCHANGED vars
  BY <1>11 DEF Logout, Revoke, vars, Numbers, Busy, HasToken, Early
<1> QED BY <1>1, <1>2, <1>3, <1>4, <1>5, <1>6, <1>7, <1>8, <1>9, <1>10, <1>11 DEF Next, Step

-----------------------------------------------------------------------------
(* What is saved has an origin *)

\* What a run saves depends on its identity and its token only.
LEMMA SameWhat ==
  ASSUME TypeOK, NEW p \in Proc, NEW r, Becomes(p, r), Keeps(p, r)
  PROVE  What(p)' = What(p)
<1>1. w'[p] = r
  BY Others
<1> QED BY <1>1 DEF Keeps, GoesOn, What

LEMMA OtherWhat ==
  ASSUME TypeOK, NEW p \in Proc, NEW r, Becomes(p, r), NEW q \in Proc, q # p
  PROVE  What(q)' = What(q) /\ Saving(q)' = Saving(q)
<1>1. w'[q] = w[q]
  BY Others
<1> QED BY <1>1 DEF What, Saving

\* A step of a run that writes nothing and does not begin to save.
LEMMA OriginOn ==
  ASSUME TypeOK, Origin, NEW p \in Proc, NEW r, Becomes(p, r),
         r.pc \in {"create", "fill", "rename"} => Saving(p) /\ Keeps(p, r),
         complete' = complete, content' = content
  PROVE  Origin'
<1>1. w'[p] = r
  BY Others
<1>2. \A q \in Proc : Saving(q)' => What(q)' \in complete'
  <2> SUFFICES ASSUME NEW q \in Proc, Saving(q)' PROVE What(q)' \in complete'
    OBVIOUS
  <2>1. CASE q = p
    <3>1. Saving(p) /\ Keeps(p, r)
      BY <1>1, <2>1 DEF Saving
    <3> QED BY <2>1, <3>1, SameWhat DEF Origin
  <2>2. CASE q # p
    BY <2>2, OtherWhat DEF Origin
  <2> QED BY <2>1, <2>2
<1> QED BY <1>2 DEF Origin, SavedTogether

LEMMA InitOrigin == Init => Origin
BY DEF Init, Origin, SavedTogether, Saving, Off

LEMMA StepOrigin == TypeOK /\ Origin /\ [Next]_vars => Origin'
<1> SUFFICES ASSUME TypeOK, Origin, [Next]_vars PROVE Origin'
  OBVIOUS
<1> USE DEF disk
<1>1. ASSUME NEW p \in Proc, Start(p) PROVE Origin'
  <2>1. PICK r : Becomes(p, r) /\ r.pc = "load"
    BY <1>1, StartOutcome
  <2> QED BY <1>1, <2>1, OriginOn DEF Start
<1>2. ASSUME NEW p \in Proc, Load(p) PROVE Origin'
  <2>1. PICK r : Becomes(p, r) /\ r.pc \in {"off", "refresh", "request"}
    BY <1>2, LoadOutcome DEF Off
  <2> QED BY <1>2, <2>1, OriginOn DEF Load
<1>3. ASSUME NEW p \in Proc, Refresh(p) PROVE Origin'
  <2>1. PICK r : Becomes(p, r) /\ r.pc \in {"exchange", "request"}
    BY <1>3, RefreshOutcome
  <2> QED BY <1>3, <2>1, OriginOn DEF Refresh
<1>4. ASSUME NEW p \in Proc, RequestCode(p) PROVE Origin'
  <2>1. PICK r : Becomes(p, r) /\ r.pc \in {"off", "poll"}
    BY <1>4, RequestOutcome DEF Off
  <2> QED BY <1>4, <2>1, OriginOn DEF RequestCode
<1>5. ASSUME NEW p \in Proc, Answer(p) \/ Late(p) PROVE Origin'
  <2>1. PICK r : Becomes(p, r) /\ Keeps(p, r) /\ r.pc = w[p].pc
    BY <1>5, WaitOutcome
  <2> QED BY <1>5, <2>1, OriginOn DEF Answer, Late, Saving
<1>6. ASSUME NEW p \in Proc, Poll(p) PROVE Origin'
  <2>1. PICK r : Becomes(p, r) /\ r.pc \in {"off", "exchange"}
    BY <1>6, PollOutcome DEF Off
  <2> QED BY <1>6, <2>1, OriginOn DEF Poll
<1>7. ASSUME NEW p \in Proc, GiveUp(p) \/ Rename(p) \/ Crash(p) PROVE Origin'
  <2>1. Becomes(p, Off) /\ Off.pc = "off"
    BY <1>7, EndBecomes DEF GiveUp, Rename, Crash, Off
  <2> QED BY <1>7, <2>1, OriginOn DEF GiveUp, Rename, Crash
<1>8. ASSUME NEW p \in Proc, Exchange(p) PROVE Origin'
  <2>1. PICK r : /\ Becomes(p, r)
                 /\ \/ r = Off /\ complete' = complete
                    \/ r.pc = "create" /\ Keeps(p, r) /\ complete' = complete \cup {What(p)}
    BY <1>8, ExchangeOutcome
  <2>2. content' = content
    BY <1>8 DEF Exchange
  <2>3. CASE r = Off /\ complete' = complete
    BY <2>1, <2>2, <2>3, OriginOn DEF Off
  <2>4. CASE Keeps(p, r) /\ complete' = complete \cup {What(p)}
    <3>1. What(p)' \in complete'
      BY <2>1, <2>4, SameWhat
    <3>2. \A q \in Proc \ {p} : Saving(q)' => What(q)' \in complete'
      BY <2>1, <2>4, OtherWhat DEF Origin
    <3> QED BY <2>2, <2>4, <3>1, <3>2 DEF Origin, SavedTogether
  <2> QED BY <2>1, <2>3, <2>4
<1>9. ASSUME NEW p \in Proc, Create(p) \/ Fill(p) PROVE Origin'
  <2>1. PICK r : /\ Becomes(p, r)
                 /\ \/ r = Off /\ content' = content
                    \/ /\ Keeps(p, r)
                       /\ \/ content' = [content EXCEPT ![r.inode] = Torn]
                          \/ content' = [content EXCEPT ![r.inode] = What(p)]
    BY <1>9, CreateOutcome, FillOutcome
  <2>2. Saving(p) /\ complete' = complete /\ What(p) \in complete
    BY <1>9 DEF Create, Fill, Saving, Origin
  <2>3. CASE r = Off /\ content' = content
    BY <2>1, <2>2, <2>3, OriginOn DEF Off
  <2>4. CASE /\ Keeps(p, r)
             /\ \/ content' = [content EXCEPT ![r.inode] = Torn]
                \/ content' = [content EXCEPT ![r.inode] = What(p)]
    <3>1. What(p)' \in complete'
      BY <2>1, <2>2, <2>4, SameWhat
    <3>2. \A q \in Proc \ {p} : Saving(q)' => What(q)' \in complete'
      BY <2>1, <2>2, OtherWhat DEF Origin
    <3>3. \A i \in Number : content'[i] \in {content[i], Torn, What(p)}
      BY <2>4 DEF TypeOK
    <3> QED BY <2>2, <3>1, <3>2, <3>3 DEF Origin, SavedTogether
  <2> QED BY <2>1, <2>3, <2>4
<1>10. CASE Logout \/ Revoke \/ UNCHANGED vars
  BY <1>10 DEF Logout, Revoke, vars, Origin, SavedTogether, Saving, What
<1> QED BY <1>1, <1>2, <1>3, <1>4, <1>5, <1>6, <1>7, <1>8, <1>9, <1>10 DEF Next, Step

-----------------------------------------------------------------------------
(* The user is asked only when needed *)

\* What LoginOnlyWhenNeeded says of one run.
Needed(p) ==
  "fail" \notin troubles /\ w[p].pc \in {"request", "poll"} =>
    w[p].reauth \/ w[p].saw = None \/ w[p].saw.token \notin valid

LEMMA NeededParts == LoginOnlyWhenNeeded <=> \A p \in Proc : Needed(p)
BY DEF LoginOnlyWhenNeeded, Needed

LEMMA NeededPartsNext == LoginOnlyWhenNeeded' <=> \A p \in Proc : Needed(p)'
BY DEF LoginOnlyWhenNeeded, Needed

\* The tokens of others remain what they are: if a run is issued one, it is
\* not the token that another run has loaded, or the run itself.
LEMMA NeededOthers ==
  ASSUME TypeOK, Numbers, LoginOnlyWhenNeeded, NEW p \in Proc, NEW r, Becomes(p, r),
         NEW t \in Token, valid' \subseteq valid \cup {t}, troubles \subseteq troubles',
         valid' \subseteq valid \/ (Early(p) /\ t.run = w[p].n),
         NEW q \in Proc, q # p
  PROVE  Needed(q)'
<1>1. w'[q] = w[q]
  BY Others
<1>2. w[q].saw # None /\ w[q].saw.token \in valid' => w[q].saw.token \in valid
  BY DEF Numbers
<1> QED BY <1>1, <1>2 DEF Needed, LoginOnlyWhenNeeded

\* A step after which no more tokens are valid than before.
LEMMA NeededOn ==
  ASSUME TypeOK, LoginOnlyWhenNeeded, NEW p \in Proc, NEW r, Becomes(p, r),
         valid' \subseteq valid, troubles \subseteq troubles',
         r.pc \in {"request", "poll"} => w[p].pc \in {"request", "poll"} /\ GoesOn(p, r)
  PROVE  LoginOnlyWhenNeeded'
<1>1. w'[p] = r /\ \A q \in Proc : q # p => w'[q] = w[q]
  BY Others
<1> QED BY <1>1 DEF LoginOnlyWhenNeeded, GoesOn

\* What happens to the list of troubles, and to the tokens in steps that have
\* nothing to do with them.
LEMMA TroublesGrow == TypeOK /\ [Next]_vars => troubles \subseteq troubles'
BY DEF Next, Step, vars, Start, Load, Refresh, RequestCode, Poll, GiveUp, Exchange, Create, Fill,
   Rename, Answer, Late, Crash, Logout, Revoke, NoFault, Fault

LEMMA InitNeeded == Init => LoginOnlyWhenNeeded
BY DEF Init, LoginOnlyWhenNeeded, Off

LEMMA StepNeeded ==
  TypeOK /\ Numbers /\ LoginOnlyWhenNeeded /\ [Next]_vars => LoginOnlyWhenNeeded'
<1> SUFFICES ASSUME TypeOK, Numbers, LoginOnlyWhenNeeded, [Next]_vars
             PROVE  LoginOnlyWhenNeeded'
  OBVIOUS
<1>0. troubles \subseteq troubles'
  BY TroublesGrow
<1>1. ASSUME NEW p \in Proc, Start(p) PROVE LoginOnlyWhenNeeded'
  BY <1>0, <1>1, StartOutcome, NeededOn DEF Start
<1>2. ASSUME NEW p \in Proc, Load(p) PROVE LoginOnlyWhenNeeded'
  <2>1. PICK r : /\ Becomes(p, r)
                 /\ r.pc = "request" => r.saw = None \/ r.reauth
                 /\ r.pc # "poll"
    BY <1>2, LoadOutcome DEF Off
  <2>2. w'[p] = r /\ (\A q \in Proc : q # p => w'[q] = w[q]) /\ valid' = valid
    BY <1>2, <2>1, Others DEF Load
  <2> QED BY <1>0, <2>1, <2>2 DEF LoginOnlyWhenNeeded
<1>3. ASSUME NEW p \in Proc, Refresh(p) PROVE LoginOnlyWhenNeeded'
  <2>1. PICK r : /\ Becomes(p, r) /\ GoesOn(p, r)
                 /\ \/ r.pc = "exchange"
                    \/ r.pc = "request" /\ (w[p].saw.token \notin valid' \/ "fail" \in troubles')
                 /\ valid' \subseteq valid \cup {New(p, w[p].saw.token.user)}
                 /\ New(p, w[p].saw.token.user) \in Token
    BY <1>3, RefreshOutcome
  <2>2. Early(p) /\ New(p, w[p].saw.token.user).run = w[p].n
    BY <1>3 DEF Refresh, Early, New
  <2>3. \A q \in Proc : q # p => Needed(q)'
    BY <1>0, <2>1, <2>2, NeededOthers
  <2>4. w'[p] = r
    BY <2>1, Others
  <2>5. Needed(p)'
    BY <2>1, <2>4 DEF Needed, GoesOn
  <2> QED BY <2>3, <2>5, NeededPartsNext
<1>4. ASSUME NEW p \in Proc, RequestCode(p) PROVE LoginOnlyWhenNeeded'
  <2>1. PICK r : Becomes(p, r) /\ (r = Off \/ (r.pc = "poll" /\ GoesOn(p, r)))
    BY <1>4, RequestOutcome
  <2>2. w[p].pc = "request" /\ valid' = valid
    BY <1>4 DEF RequestCode
  <2> QED BY <1>0, <2>1, <2>2, NeededOn DEF Off
<1>5. ASSUME NEW p \in Proc, Answer(p) \/ Late(p) PROVE LoginOnlyWhenNeeded'
  <2>1. PICK r : Becomes(p, r) /\ Keeps(p, r) /\ r.pc = w[p].pc
    BY <1>5, WaitOutcome
  <2> QED BY <1>0, <1>5, <2>1, NeededOn DEF Answer, Late, Keeps
<1>6. ASSUME NEW p \in Proc, Poll(p) PROVE LoginOnlyWhenNeeded'
  <2>1. PICK r : /\ Becomes(p, r)
                 /\ \/ r = Off /\ valid' = valid
                    \/ /\ r.pc = "exchange" /\ r.token.run = w[p].n
                       /\ r.token \in Token /\ valid' = valid \cup {r.token}
    BY <1>6, PollOutcome
  <2>2. CASE r = Off /\ valid' = valid
    BY <1>0, <2>1, <2>2, NeededOn DEF Off
  <2>3. CASE /\ r.pc = "exchange" /\ r.token.run = w[p].n
             /\ r.token \in Token /\ valid' = valid \cup {r.token}
    <3>1. Early(p)
      BY <1>6 DEF Poll, Early
    <3>2. \A q \in Proc : q # p => Needed(q)'
      BY <1>0, <2>1, <2>3, <3>1, NeededOthers
    <3>3. Needed(p)'
      BY <2>1, <2>3, Others DEF Needed
    <3> QED BY <3>2, <3>3, NeededPartsNext
  <2> QED BY <2>1, <2>2, <2>3
<1>7. ASSUME NEW p \in Proc, GiveUp(p) \/ Rename(p) \/ Crash(p) PROVE LoginOnlyWhenNeeded'
  <2>1. Becomes(p, Off) /\ Off.pc = "off" /\ valid' = valid
    BY <1>7, EndBecomes DEF GiveUp, Rename, Crash, Off
  <2> QED BY <1>0, <2>1, NeededOn
<1>8. ASSUME NEW p \in Proc, Exchange(p) \/ Create(p) \/ Fill(p) PROVE LoginOnlyWhenNeeded'
  <2>1. PICK r : Becomes(p, r) /\ r.pc \in {"off", "create", "fill", "rename"}
    BY <1>8, ExchangeOutcome, CreateOutcome, FillOutcome DEF Off
  <2>2. valid' = valid
    BY <1>8 DEF Exchange, Create, Fill
  <2> QED BY <1>0, <2>1, <2>2, NeededOn
<1>9. CASE Logout \/ Revoke \/ UNCHANGED vars
  BY <1>0, <1>9 DEF Logout, Revoke, vars, LoginOnlyWhenNeeded
<1> QED BY <1>1, <1>2, <1>3, <1>4, <1>5, <1>6, <1>7, <1>8, <1>9 DEF Next, Step

-----------------------------------------------------------------------------
(* One run at a time *)

\* What Alone says of the files, and of one run.
FilesApart ==
  /\ file # None => content[file] # Torn /\ file <= runs /\ file # tmp
  /\ tmp # None => tmp <= runs

RunApart(p) ==
  /\ w[p].pc \notin {"off", "load"} =>
       /\ w[p].saw = Loaded
       /\ w[p].device = IF w[p].saw = None THEN w[p].n ELSE w[p].saw.device
  /\ Busy(p) /\ w[p].pc \notin {"fill", "rename"} => file # w[p].n
  /\ w[p].pc \in {"fill", "rename"} => tmp = w[p].inode
  /\ w[p].pc = "fill" => content[tmp] = Torn
  /\ w[p].pc = "rename" => content[tmp] = What(p)

OneBusy == \A p, q \in Proc : Busy(p) /\ Busy(q) => p = q

LEMMA AloneParts ==
  /\ Alone <=> ("overlap" \notin troubles =>
                  OneBusy /\ FilesApart /\ \A p \in Proc : RunApart(p))
  /\ Alone' <=> ("overlap" \notin troubles' =>
                  OneBusy' /\ FilesApart' /\ \A p \in Proc : RunApart(p)')
BY DEF Alone, OneBusy, FilesApart, RunApart, Loaded

\* Nothing is to be shown of the others: they are not under way.
LEMMA OthersApart ==
  ASSUME TypeOK, OneBusy, NEW p \in Proc, Busy(p), NEW r, Becomes(p, r)
  PROVE  OneBusy' /\ \A q \in Proc : q # p => RunApart(q)'
<1>1. w'[p] = r /\ \A q \in Proc : q # p => w'[q] = w[q]
  BY Others
<1>2. \A q \in Proc : q # p => w'[q].pc = "off"
  BY <1>1 DEF OneBusy, Busy
<1> QED BY <1>2 DEF OneBusy, RunApart, Busy

\* A run that goes on without touching the disk, before it saves.
LEMMA AloneOn ==
  ASSUME TypeOK, Alone, NEW p \in Proc, Busy(p), NEW r, Becomes(p, r),
         UNCHANGED <<file, tmp, content, runs>>, troubles \subseteq troubles',
         \/ r.pc = "off"
         \/ w[p].pc # "load" /\ r.pc \notin {"load", "fill", "rename"} /\ GoesOn(p, r)
              /\ w[p].pc \notin {"fill", "rename"}
         \/ r.pc = w[p].pc /\ Keeps(p, r) /\ r.inode = w[p].inode
  PROVE  Alone'
<1> SUFFICES ASSUME "overlap" \notin troubles'
             PROVE  OneBusy' /\ FilesApart' /\ \A q \in Proc : RunApart(q)'
  BY AloneParts
<1>1. OneBusy /\ FilesApart /\ RunApart(p)
  BY AloneParts
<1>2. w'[p] = r
  BY Others
<1>3. FilesApart'
  BY <1>1 DEF FilesApart
<1>4. RunApart(p)'
  <2>1. CASE r.pc = "off"
    BY <1>2, <2>1 DEF RunApart, Busy
  <2>2. CASE w[p].pc # "load" /\ r.pc \notin {"load", "fill", "rename"} /\ GoesOn(p, r)
               /\ w[p].pc \notin {"fill", "rename"}
    BY <1>1, <1>2, <2>2 DEF RunApart, Busy, GoesOn, Loaded
  <2>3. CASE r.pc = w[p].pc /\ Keeps(p, r) /\ r.inode = w[p].inode
    <3>1. What(p)' = What(p)
      BY <2>3, SameWhat
    <3> QED BY <1>1, <1>2, <2>3, <3>1 DEF RunApart, Busy, GoesOn, Keeps, Loaded
  <2> QED BY <2>1, <2>2, <2>3
<1> QED BY <1>1, <1>3, <1>4, OthersApart

LEMMA InitAlone == Init => Alone
BY DEF Init, Alone, Busy, Off

LEMMA StepAlone == TypeOK /\ Numbers /\ Alone /\ [Next]_vars => Alone'
<1> SUFFICES ASSUME TypeOK, Numbers, Alone, [Next]_vars PROVE Alone'
  OBVIOUS
<1>0. troubles \subseteq troubles'
  BY TroublesGrow
<1> USE DEF disk
<1>1. ASSUME NEW p \in Proc, Start(p) PROVE Alone'
  <2> SUFFICES ASSUME "overlap" \notin troubles'
               PROVE  OneBusy' /\ FilesApart' /\ \A q \in Proc : RunApart(q)'
    BY AloneParts
  <2>1. OneBusy /\ FilesApart
    BY <1>0, AloneParts
  <2>2. \A q \in Proc : ~ Busy(q)
    BY <1>1 DEF Start
  <2>3. PICK r : Becomes(p, r) /\ r.pc = "load" /\ r.n = runs'
    BY <1>1, StartOutcome
  <2>4. w'[p] = r /\ \A q \in Proc : q # p => w'[q].pc = "off"
    BY <2>2, <2>3, Others DEF Busy
  <2>5. runs \in Nat /\ runs' = runs + 1 /\ UNCHANGED <<file, tmp, content>>
    BY <1>1, AuthAssumption DEF Start, TypeOK
  <2>6. file # None => file \in Nat /\ file <= runs /\ content[file] # Torn /\ file # tmp
    BY <2>1 DEF FilesApart, TypeOK, Number
  <2>7. tmp # None => tmp \in Nat /\ tmp <= runs
    BY <2>1 DEF FilesApart, TypeOK, Number
  <2>8. FilesApart'
    BY <2>5, <2>6, <2>7 DEF FilesApart
  <2>9. file' # r.n
    <3>1. runs + 1 \in Number
      BY <1>1, <2>5, AuthAssumption DEF Start, TypeOK, Number
    <3> QED BY <2>3, <2>5, <2>6, <3>1, AuthAssumption DEF Number
  <2>10. OneBusy' /\ \A q \in Proc : RunApart(q)'
    BY <2>3, <2>4, <2>9 DEF OneBusy, RunApart, Busy
  <2> QED BY <2>8, <2>10
<1>2. ASSUME NEW p \in Proc, Load(p) PROVE Alone'
  <2> SUFFICES ASSUME "overlap" \notin troubles'
               PROVE  OneBusy' /\ FilesApart' /\ \A q \in Proc : RunApart(q)'
    BY AloneParts
  <2>1. OneBusy /\ FilesApart /\ RunApart(p)
    BY <1>0, AloneParts
  <2>2. PICK r : /\ Becomes(p, r)
                 /\ \/ r = Off
                    \/ /\ r.pc \in {"refresh", "request"} /\ r.n = w[p].n /\ r.saw = Loaded
                       /\ r.device = IF r.saw = None THEN r.n ELSE r.saw.device
    BY <1>2, LoadOutcome
  <2>3. Busy(p) /\ w[p].pc = "load" /\ UNCHANGED <<file, tmp, content, runs>>
    BY <1>2 DEF Load, Busy
  <2>4. w'[p] = r /\ OneBusy' /\ \A q \in Proc : q # p => RunApart(q)'
    BY <2>1, <2>2, <2>3, OthersApart, Others
  <2>5. RunApart(p)' /\ FilesApart'
    BY <2>1, <2>2, <2>3, <2>4 DEF RunApart, FilesApart, Loaded, Busy, Off
  <2> QED BY <2>4, <2>5
<1>3. ASSUME NEW p \in Proc, Refresh(p) \/ RequestCode(p) \/ Poll(p) \/ Exchange(p) PROVE Alone'
  <2>1. PICK r : /\ Becomes(p, r)
                 /\ r.pc = "off" \/ (r.pc \in {"exchange", "request", "poll", "create"} /\ GoesOn(p, r))
    BY <1>3, RefreshOutcome, RequestOutcome, PollOutcome, ExchangeOutcome DEF Off, Keeps
  <2>2. /\ w[p].pc \in {"refresh", "request", "poll", "exchange"} /\ Busy(p)
        /\ UNCHANGED <<file, tmp, content, runs>>
    BY <1>3 DEF Refresh, RequestCode, Poll, Exchange, Busy
  <2> QED BY <1>0, <2>1, <2>2, AloneOn
<1>4. ASSUME NEW p \in Proc, Answer(p) \/ Late(p) PROVE Alone'
  <2>1. PICK r : Becomes(p, r) /\ Keeps(p, r) /\ r.pc = w[p].pc /\ r.inode = w[p].inode
    BY <1>4, WaitOutcome
  <2>2. UNCHANGED <<file, tmp, content, runs>>
    BY <1>4 DEF Answer, Late
  <2>3. CASE Busy(p)
    BY <1>0, <2>1, <2>2, <2>3, AloneOn
  <2>4. CASE ~ Busy(p)
    <3>1. w'[p] = r /\ r.pc = "off" /\ \A q \in Proc : q # p => w'[q] = w[q]
      BY <2>1, <2>4, Others DEF Busy
    <3>2. OneBusy => OneBusy'
      BY <3>1 DEF OneBusy, Busy
    <3>3. \A q \in Proc : RunApart(q) => RunApart(q)'
      BY <2>2, <3>1 DEF RunApart, Busy, What, Loaded
    <3>4. FilesApart => FilesApart'
      BY <2>2 DEF FilesApart
    <3> QED BY <1>0, <3>2, <3>3, <3>4, AloneParts
  <2> QED BY <2>3, <2>4
<1>5. ASSUME NEW p \in Proc, GiveUp(p) \/ Crash(p) PROVE Alone'
  <2>1. Becomes(p, Off) /\ Off.pc = "off" /\ Busy(p) /\ UNCHANGED <<file, tmp, content, runs>>
    BY <1>5, EndBecomes DEF GiveUp, Crash, Off, Busy
  <2> QED BY <1>0, <2>1, AloneOn
<1>6. ASSUME NEW p \in Proc, Create(p) PROVE Alone'
  <2> SUFFICES ASSUME "overlap" \notin troubles'
               PROVE  OneBusy' /\ FilesApart' /\ \A q \in Proc : RunApart(q)'
    BY AloneParts
  <2>1. OneBusy /\ FilesApart /\ RunApart(p)
    BY <1>0, AloneParts
  <2>2. PICK r : /\ Becomes(p, r) /\ r.pc = "fill" /\ Keeps(p, r)
                 /\ r.inode \in Number /\ r.inode = IF tmp = None THEN w[p].n ELSE tmp
                 /\ tmp' = r.inode /\ content' = [content EXCEPT ![r.inode] = Torn]
    BY <1>6, CreateOutcome
  <2>3. w[p].pc = "create" /\ Busy(p) /\ UNCHANGED <<file, runs>>
    BY <1>6 DEF Create, Busy
  <2>4. w'[p] = r /\ OneBusy' /\ \A q \in Proc : q # p => RunApart(q)'
    BY <2>1, <2>2, <2>3, OthersApart, Others
  <2>5. file # None => file \in Number /\ file # r.inode
    BY <2>1, <2>2, <2>3 DEF RunApart, FilesApart, TypeOK
  <2>6. content'[r.inode] = Torn /\ (file # None => content'[file] = content[file])
    BY <2>2, <2>5 DEF TypeOK
  <2>7. RunApart(p)'
    BY <2>1, <2>2, <2>3, <2>4, <2>6 DEF RunApart, Loaded, Keeps, GoesOn, Busy
  <2>8. w[p].n \in Number
    BY <2>3 DEF TypeOK
  <2>9. tmp' <= runs'
    <3>1. CASE tmp = None
      BY <2>2, <2>3, <3>1 DEF Numbers
    <3>2. CASE tmp # None
      BY <2>1, <2>2, <2>3, <3>2 DEF FilesApart
    <3> QED BY <3>1, <3>2
  <2>10. FilesApart'
    BY <2>1, <2>2, <2>3, <2>5, <2>6, <2>9 DEF FilesApart
  <2> QED BY <2>4, <2>7, <2>10
<1>7. ASSUME NEW p \in Proc, Fill(p) PROVE Alone'
  <2> SUFFICES ASSUME "overlap" \notin troubles'
               PROVE  OneBusy' /\ FilesApart' /\ \A q \in Proc : RunApart(q)'
    BY AloneParts
  <2>1. OneBusy /\ FilesApart /\ RunApart(p)
    BY <1>0, AloneParts
  <2>2. PICK r : /\ Becomes(p, r)
                 /\ \/ r = Off /\ content' = content
                    \/ /\ r.pc = "rename" /\ Keeps(p, r) /\ r.inode = w[p].inode
                       /\ \/ content' = [content EXCEPT ![r.inode] = What(p)]
                          \/ /\ content[r.inode] # Torn
                             /\ content' = [content EXCEPT ![r.inode] = Torn]
    BY <1>7, FillOutcome
  <2>3. w[p].pc = "fill" /\ Busy(p) /\ UNCHANGED <<file, tmp, runs>> /\ w[p].inode \in Number
    BY <1>7 DEF Fill, Busy, TypeOK
  <2>4. w'[p] = r /\ OneBusy' /\ \A q \in Proc : q # p => RunApart(q)'
    BY <2>1, <2>2, <2>3, OthersApart, Others
  <2>5. tmp = w[p].inode /\ content[tmp] = Torn
    BY <2>1, <2>3 DEF RunApart
  <2>6. CASE r = Off /\ content' = content
    BY <2>1, <2>3, <2>4, <2>6 DEF FilesApart, RunApart, Off, Busy
  <2>7. CASE /\ r.pc = "rename" /\ Keeps(p, r) /\ r.inode = w[p].inode
             /\ content' = [content EXCEPT ![r.inode] = What(p)]
    <3>1. file # None => file \in Number /\ content'[file] = content[file]
      BY <2>1, <2>3, <2>5, <2>7 DEF FilesApart, TypeOK
    <3>2. content'[tmp] = What(p) /\ What(p)' = What(p)
      BY <2>2, <2>3, <2>5, <2>7, SameWhat DEF TypeOK
    <3>3. FilesApart'
      BY <2>1, <2>3, <3>1 DEF FilesApart
    <3>4. RunApart(p)'
      BY <2>1, <2>3, <2>4, <2>7, <3>1, <3>2 DEF RunApart, Loaded, Keeps, GoesOn, Busy
    <3> QED BY <2>4, <3>3, <3>4
  <2> QED BY <2>2, <2>5, <2>6, <2>7
<1>8. ASSUME NEW p \in Proc, Rename(p) PROVE Alone'
  <2> SUFFICES ASSUME "overlap" \notin troubles'
               PROVE  OneBusy' /\ FilesApart' /\ \A q \in Proc : RunApart(q)'
    BY AloneParts
  <2>1. OneBusy /\ FilesApart /\ RunApart(p)
    BY <1>0, AloneParts
  <2>2. /\ w[p].pc = "rename" /\ Busy(p) /\ UNCHANGED <<content, runs>> /\ Becomes(p, Off)
        /\ \/ file' = (IF tmp = None THEN file ELSE tmp) /\ tmp' = None
           \/ UNCHANGED <<file, tmp>>
    BY <1>8, EndBecomes DEF Rename, Busy
  <2>3. w'[p] = Off /\ OneBusy' /\ \A q \in Proc : q # p => RunApart(q)'
    BY <2>1, <2>2, OthersApart, Others
  <2>4. tmp = w[p].inode /\ tmp \in Number /\ tmp # None /\ content[tmp] # Torn
    BY <2>1, <2>2, WhatTyped, AuthAssumption DEF RunApart, TypeOK, HasToken, Number
  <2>5. FilesApart'
    BY <2>1, <2>2, <2>4 DEF FilesApart
  <2>6. RunApart(p)'
    BY <2>3 DEF RunApart, Busy, Off
  <2> QED BY <2>3, <2>5, <2>6
<1>9. CASE Logout
  <2> SUFFICES ASSUME "overlap" \notin troubles'
               PROVE  OneBusy' /\ FilesApart' /\ \A q \in Proc : RunApart(q)'
    BY AloneParts
  <2>1. FilesApart /\ \A q \in Proc : ~ Busy(q)
    BY <1>0, <1>9, AloneParts DEF Logout
  <2> QED BY <1>9, <2>1 DEF Logout, OneBusy, FilesApart, RunApart, Busy
<1>10. CASE Revoke \/ UNCHANGED vars
  BY <1>10 DEF Revoke, vars, Alone, Busy, What
<1> QED BY <1>1, <1>2, <1>3, <1>4, <1>5, <1>6, <1>7, <1>8, <1>9, <1>10 DEF Next, Step

-----------------------------------------------------------------------------
(* The saved token is carried on *)

\* What is written to under the temporary file's name is not the state file, and
\* no inode has the number of a run that has not created it yet.
Inodes ==
  /\ file # None => file # tmp /\ file <= runs
  /\ tmp # None => tmp <= runs
  /\ \A p \in Proc : Busy(p) /\ w[p].pc \notin {"fill", "rename"} => file # w[p].n /\ tmp # w[p].n

\* A run that has a token it has not written yet.
Unwritten(p) == w[p].pc \in {"exchange", "create", "fill"}

\* A token is in one inode at most, and before it is there nobody has loaded it.
Unused ==
  /\ \A i, j \in Number : i # j /\ content[i] # Torn /\ content[j] # Torn
       => content[i].token # content[j].token
  /\ \A p \in Proc : Unwritten(p) =>
       /\ \A i \in Number : content[i] # Torn => content[i].token # w[p].token
       /\ \A q \in Proc : w[q].saw # None => w[q].saw.token # w[p].token

\* A run that is going to replace the state file: it is on its way to its own
\* temporary file, or has one that nobody has renamed.
Pending(p) ==
  \/ w[p].pc \in {"exchange", "create"}
  \/ w[p].pc \in {"fill", "rename"} /\ tmp # None

Quiet == troubles \subseteq {"overlap"}

\* Unless a run ends early: tokens on their way to the file are accepted, and if
\* the saved one no longer is, somebody is about to replace it.
Carried ==
  Quiet =>
    /\ \A p \in Proc : Unwritten(p) => w[p].token \in valid
    /\ tmp # None /\ content[tmp] # Torn =>
         /\ content[tmp].token \in valid
         /\ \A q \in Proc : w[q].saw # None => w[q].saw.token # content[tmp].token
    /\ file # None /\ content[file] # Torn /\ content[file].token \notin valid
         => \E p \in Proc : Pending(p)

LEMMA InitCarried == Init => Inodes /\ Unused /\ Carried
BY DEF Init, Inodes, Unused, Carried, Busy, Unwritten, Off

\* A run that leaves both names alone.
LEMMA InodesOn ==
  ASSUME TypeOK, Inodes, NEW p \in Proc, NEW r, Becomes(p, r),
         UNCHANGED <<file, tmp, runs>>,
         \/ r.pc = "off"
         \/ Busy(p) /\ r.n = w[p].n
              /\ (w[p].pc \in {"fill", "rename"} => r.pc \in {"fill", "rename"})
  PROVE  Inodes'
<1>1. w'[p] = r /\ \A q \in Proc : q # p => w'[q] = w[q]
  BY Others
<1> QED BY <1>1 DEF Inodes, Busy

LEMMA StepInodes == TypeOK /\ Numbers /\ Inodes /\ [Next]_vars => Inodes'
<1> SUFFICES ASSUME TypeOK, Numbers, Inodes, [Next]_vars PROVE Inodes'
  OBVIOUS
<1> USE DEF disk
<1>1. ASSUME NEW p \in Proc, Start(p) PROVE Inodes'
  <2>1. PICK r : Becomes(p, r) /\ Fits(r) /\ r.pc = "load" /\ r.n = runs'
    BY <1>1, StartOutcome
  <2>2. w'[p] = r /\ \A q \in Proc : q # p => w'[q] = w[q]
    BY <2>1, Others
  <2>3. runs \in Nat /\ runs' = runs + 1 /\ UNCHANGED <<file, tmp>> /\ r.n \in Number
    BY <1>1, <2>1, AuthAssumption DEF Start, TypeOK, Fits
  <2>4. /\ file # None => file \in Nat /\ file <= runs /\ file # tmp
        /\ tmp # None => tmp \in Nat /\ tmp <= runs
    BY DEF Inodes, TypeOK, Number
  <2>5. file # r.n /\ tmp # r.n
    BY <2>1, <2>3, <2>4, AuthAssumption DEF Number
  <2> QED BY <2>1, <2>2, <2>3, <2>4, <2>5 DEF Inodes, Busy
<1>2. ASSUME NEW p \in Proc,
             \/ Load(p) \/ Refresh(p) \/ RequestCode(p) \/ Poll(p) \/ Exchange(p) \/ Fill(p)
      PROVE  Inodes'
  <2>1. PICK r : Becomes(p, r) /\ (r.pc = "off" \/ (r.n = w[p].n /\ (w[p].pc = "fill" => r.pc = "rename")))
    <3>1. CASE Load(p)
      <4>1. w[p].pc # "fill"
        BY <3>1 DEF Load
      <4>2. PICK r : Becomes(p, r) /\ (r = Off \/ r.n = w[p].n)
        BY <3>1, LoadOutcome
      <4> QED BY <4>1, <4>2 DEF Off
    <3>2. CASE Refresh(p)
      BY <3>2, RefreshOutcome DEF GoesOn, Refresh
    <3>3. CASE RequestCode(p)
      BY <3>3, RequestOutcome DEF Off, GoesOn, RequestCode
    <3>4. CASE Poll(p)
      <4>1. w[p].pc # "fill"
        BY <3>4 DEF Poll
      <4>2. PICK r : Becomes(p, r) /\ (r = Off \/ GoesOn(p, r))
        BY <3>4, PollOutcome
      <4> QED BY <4>1, <4>2 DEF Off, GoesOn
    <3>5. CASE Exchange(p)
      BY <3>5, ExchangeOutcome DEF Off, Keeps, GoesOn, Exchange
    <3>6. CASE Fill(p)
      BY <3>6, FillOutcome DEF Off, Keeps, GoesOn
    <3> QED BY <1>2, <3>1, <3>2, <3>3, <3>4, <3>5, <3>6
  <2>2. /\ UNCHANGED <<file, tmp, runs>> /\ Busy(p)
        /\ w[p].pc \notin {"rename"}
    BY <1>2 DEF Load, Refresh, RequestCode, Poll, Exchange, Fill, Busy
  <2> QED BY <2>1, <2>2, InodesOn
<1>3. ASSUME NEW p \in Proc, Answer(p) \/ Late(p) PROVE Inodes'
  <2>1. PICK r : Becomes(p, r) /\ r.n = w[p].n /\ r.pc = w[p].pc
    BY <1>3, WaitOutcome DEF Keeps, GoesOn
  <2>2. UNCHANGED <<file, tmp, runs>>
    BY <1>3 DEF Answer, Late
  <2> QED BY <2>1, <2>2, InodesOn DEF Busy
<1>4. ASSUME NEW p \in Proc, GiveUp(p) \/ Crash(p) PROVE Inodes'
  <2>1. Becomes(p, Off) /\ Off.pc = "off" /\ UNCHANGED <<file, tmp, runs>>
    BY <1>4, EndBecomes DEF GiveUp, Crash, Off
  <2> QED BY <2>1, InodesOn
<1>5. ASSUME NEW p \in Proc, Create(p) PROVE Inodes'
  <2>1. PICK r : /\ Becomes(p, r) /\ r.pc = "fill" /\ tmp' = r.inode
                 /\ r.inode \in Number /\ r.inode = IF tmp = None THEN w[p].n ELSE tmp
    BY <1>5, CreateOutcome
  <2>2. w[p].pc = "create" /\ Busy(p) /\ UNCHANGED <<file, runs>>
    BY <1>5 DEF Create, Busy
  <2>3. w'[p] = r /\ \A q \in Proc : q # p => w'[q] = w[q]
    BY <2>1, Others
  <2>4. w[p].n <= runs /\ file # w[p].n /\ \A q \in Proc : q # p /\ Busy(q) => w[q].n # w[p].n
    BY <2>2 DEF Numbers, Inodes
  <2>5. (file # None => file # tmp') /\ tmp' <= runs
    BY <2>1, <2>4 DEF Inodes
  <2>6. \A q \in Proc : q # p /\ Busy(q) /\ w[q].pc \notin {"fill", "rename"} => tmp' # w[q].n
    BY <2>1, <2>4 DEF Inodes
  <2> QED BY <2>1, <2>2, <2>3, <2>5, <2>6 DEF Inodes, Busy
<1>6. ASSUME NEW p \in Proc, Rename(p) PROVE Inodes'
  <2>1. /\ Becomes(p, Off) /\ runs' = runs
        /\ \/ file' = (IF tmp = None THEN file ELSE tmp) /\ tmp' = None
           \/ UNCHANGED <<file, tmp>>
    BY <1>6, EndBecomes DEF Rename
  <2>2. w'[p] = Off /\ \A q \in Proc : q # p => w'[q] = w[q]
    BY <2>1, Others
  <2>3. \A q \in Proc : Busy(q)' => q # p /\ Busy(q) /\ w[q].n # None
    BY <2>2, AuthAssumption DEF Busy, Off, TypeOK, Number
  <2> QED BY <2>1, <2>2, <2>3 DEF Inodes
<1>7. CASE Logout
  <2>1. \A q \in Proc : Busy(q) => w[q].n # None
    BY AuthAssumption DEF TypeOK, Number
  <2> QED BY <1>7, <2>1 DEF Logout, Inodes, Busy
<1>8. CASE Revoke \/ UNCHANGED vars
  BY <1>8 DEF Revoke, vars, Inodes, Busy
<1> QED BY <1>1, <1>2, <1>3, <1>4, <1>5, <1>6, <1>7, <1>8 DEF Next, Step

\* A step that writes no token.
LEMMA UnusedOn ==
  ASSUME TypeOK, Numbers, Unused, NEW p \in Proc, NEW r, Becomes(p, r),
         \A i \in Number : content'[i] \in {content[i], Torn},
         \/ r.saw \in {None, w[p].saw}
         \/ \E i \in Number : content[i] # Torn /\ r.saw = content[i],
         r.pc \in {"exchange", "create", "fill"} =>
           /\ r.saw = w[p].saw
           /\ \/ Unwritten(p) /\ r.token = w[p].token
              \/ Early(p) /\ r.token.run = w[p].n
  PROVE  Unused'
<1>1. w'[p] = r /\ \A q \in Proc : q # p => w'[q] = w[q]
  BY Others
<1>2. \A i, j \in Number : i # j /\ content'[i] # Torn /\ content'[j] # Torn
        => content'[i].token # content'[j].token
  BY DEF Unused
<1>3. ASSUME NEW q \in Proc, Unwritten(q)'
      PROVE  \A i \in Number : content'[i] # Torn => content'[i].token # w'[q].token
  <2>1. CASE q = p
    BY <1>1, <1>3, <2>1 DEF Unused, Unwritten, Numbers
  <2>2. CASE q # p
    BY <1>1, <1>3, <2>2 DEF Unused, Unwritten
  <2> QED BY <2>1, <2>2
<1>4. ASSUME NEW q \in Proc, Unwritten(q)', NEW o \in Proc, w'[o].saw # None
      PROVE  w'[o].saw.token # w'[q].token
  <2>1. CASE q = p
    <3>1. w'[o].saw = w[o].saw
      BY <1>1, <1>4, <2>1 DEF Unwritten
    <3> QED BY <1>1, <1>4, <2>1, <3>1 DEF Unused, Unwritten, Numbers
  <2>2. CASE q # p
    <3>1. w'[q] = w[q] /\ Unwritten(q)
      BY <1>1, <1>4, <2>2 DEF Unwritten
    <3>2. \/ w'[o].saw = w[o].saw
          \/ \E i \in Number : content[i] # Torn /\ w'[o].saw = content[i]
      BY <1>1, <1>4
    <3> QED BY <1>4, <3>1, <3>2 DEF Unused
  <2> QED BY <2>1, <2>2
<1> QED BY <1>2, <1>3, <1>4 DEF Unused

\* The tokens of two runs differ.
LEMMA TokensDiffer ==
  ASSUME TypeOK, Numbers, NEW p \in Proc, NEW q \in Proc, p # q, HasToken(p), HasToken(q)
  PROVE  w[p].token # w[q].token
<1>1. Busy(p) /\ Busy(q)
  BY DEF HasToken, Busy
<1> QED BY <1>1 DEF Numbers

LEMMA StepUnused == TypeOK /\ Numbers /\ Unused /\ [Next]_vars => Unused'
<1> SUFFICES ASSUME TypeOK, Numbers, Unused, [Next]_vars PROVE Unused'
  OBVIOUS
<1> USE DEF disk
<1>1. ASSUME NEW p \in Proc, Start(p) PROVE Unused'
  BY <1>1, StartOutcome, UnusedOn DEF Start
<1>2. ASSUME NEW p \in Proc, Load(p) PROVE Unused'
  <2>1. PICK r : /\ Becomes(p, r) /\ r.pc \in {"off", "refresh", "request"}
                 /\ r.saw = None \/ (r.saw = Loaded /\ r.saw # Torn)
    BY <1>2, LoadOutcome DEF Off
  <2>2. r.saw = None \/ \E i \in Number : content[i] # Torn /\ r.saw = content[i]
    BY <2>1 DEF Loaded, TypeOK
  <2>3. content' = content
    BY <1>2 DEF Load
  <2> QED BY <2>1, <2>2, <2>3, UnusedOn
<1>3. ASSUME NEW p \in Proc, Refresh(p) \/ RequestCode(p) \/ Poll(p) PROVE Unused'
  <2>1. PICK r : /\ Becomes(p, r)
                 /\ \/ r.pc = "off" /\ r.saw = None
                    \/ r.pc \in {"request", "poll"} /\ r.saw = w[p].saw
                    \/ r.pc = "exchange" /\ r.saw = w[p].saw /\ r.token.run = w[p].n
    <3>1. CASE Refresh(p)
      BY <3>1, RefreshOutcome DEF GoesOn
    <3>2. CASE RequestCode(p)
      BY <3>2, RequestOutcome DEF Off, GoesOn
    <3>3. CASE Poll(p)
      BY <3>3, PollOutcome DEF Off, GoesOn
    <3> QED BY <1>3, <3>1, <3>2, <3>3
  <2>2. content' = content /\ Early(p)
    BY <1>3 DEF Refresh, RequestCode, Poll, Early
  <2> QED BY <2>1, <2>2, UnusedOn
<1>4. ASSUME NEW p \in Proc, Answer(p) \/ Late(p) PROVE Unused'
  <2>1. PICK r : Becomes(p, r) /\ Keeps(p, r) /\ r.pc = w[p].pc
    BY <1>4, WaitOutcome
  <2>2. content' = content
    BY <1>4 DEF Answer, Late
  <2>3. r.saw = w[p].saw /\ r.token = w[p].token
    BY <2>1 DEF Keeps, GoesOn
  <2> QED BY <2>1, <2>2, <2>3, UnusedOn DEF Unwritten
<1>5. ASSUME NEW p \in Proc, GiveUp(p) \/ Crash(p) \/ Rename(p) PROVE Unused'
  <2>1. Becomes(p, Off) /\ Off.pc = "off" /\ Off.saw = None /\ content' = content
    BY <1>5, EndBecomes DEF GiveUp, Crash, Rename, Off
  <2> QED BY <2>1, UnusedOn
<1>6. ASSUME NEW p \in Proc, Exchange(p) PROVE Unused'
  <2>1. PICK r : Becomes(p, r) /\ (r = Off \/ (r.pc = "create" /\ Keeps(p, r)))
    BY <1>6, ExchangeOutcome
  <2>2. content' = content /\ Unwritten(p)
    BY <1>6 DEF Exchange, Unwritten
  <2>3. \/ r.pc = "off" /\ r.saw = None
        \/ r.saw = w[p].saw /\ r.token = w[p].token
    BY <2>1 DEF Off, Keeps, GoesOn
  <2> QED BY <2>2, <2>3, <2>1, UnusedOn
<1>7. ASSUME NEW p \in Proc, Create(p) PROVE Unused'
  <2>1. PICK r : /\ Becomes(p, r) /\ r.pc = "fill" /\ Keeps(p, r)
                 /\ content' = [content EXCEPT ![r.inode] = Torn]
    BY <1>7, CreateOutcome
  <2>2. Unwritten(p) /\ \A i \in Number : content'[i] \in {content[i], Torn}
    BY <1>7, <2>1 DEF Create, Unwritten, TypeOK
  <2> QED BY <2>1, <2>2, UnusedOn DEF Keeps, GoesOn
<1>8. ASSUME NEW p \in Proc, Fill(p) PROVE Unused'
  <2>1. PICK r : /\ Becomes(p, r)
                 /\ \/ r = Off /\ content' = content
                    \/ /\ r.pc = "rename" /\ Keeps(p, r)
                       /\ \/ content' = [content EXCEPT ![r.inode] = What(p)]
                          \/ content' = [content EXCEPT ![r.inode] = Torn]
    BY <1>8, FillOutcome
  <2>2. CASE r = Off /\ content' = content
    BY <2>1, <2>2, UnusedOn DEF Off
  <2>3. CASE r.pc = "rename" /\ Keeps(p, r) /\ content' = [content EXCEPT ![r.inode] = Torn]
    <3>1. \A i \in Number : content'[i] \in {content[i], Torn}
      BY <2>3 DEF TypeOK
    <3> QED BY <2>1, <2>3, <3>1, UnusedOn DEF Keeps, GoesOn
  <2>4. CASE r.pc = "rename" /\ Keeps(p, r) /\ content' = [content EXCEPT ![r.inode] = What(p)]
    <3>1. Unwritten(p) /\ HasToken(p)
      BY <1>8 DEF Fill, Unwritten, HasToken
    <3>2. What(p).token = w[p].token
      BY <3>1, WhatTyped
    <3>3. \A i \in Number : /\ i # r.inode => content'[i] = content[i]
                            /\ i = r.inode => content'[i] = What(p)
      BY <2>4 DEF TypeOK
    <3>4. w'[p] = r /\ (\A q \in Proc : q # p => w'[q] = w[q]) /\ r.saw = w[p].saw
      BY <2>1, <2>4, Others DEF Keeps, GoesOn
    <3>5. \A q \in Proc : Unwritten(q)' => q # p /\ Unwritten(q) /\ w[p].token # w[q].token
      <4>1. \A q \in Proc : Unwritten(q)' => q # p /\ Unwritten(q)
        BY <2>4, <3>4 DEF Unwritten
      <4> QED BY <3>1, <4>1, TokensDiffer DEF Unwritten, HasToken
    <3>6. \A i, j \in Number : i # j /\ content'[i] # Torn /\ content'[j] # Torn
            => content'[i].token # content'[j].token
      BY <3>1, <3>2, <3>3 DEF Unused
    <3>7. ASSUME NEW q \in Proc, Unwritten(q)'
          PROVE  /\ \A i \in Number : content'[i] # Torn => content'[i].token # w'[q].token
                 /\ \A o \in Proc : w'[o].saw # None => w'[o].saw.token # w'[q].token
      <4>1. q # p /\ Unwritten(q) /\ w[p].token # w[q].token /\ w'[q] = w[q]
        BY <3>4, <3>5, <3>7
      <4>2. \A o \in Proc : w'[o].saw = w[o].saw
        BY <3>4
      <4> QED BY <3>2, <3>3, <4>1, <4>2 DEF Unused
    <3> QED BY <3>6, <3>7 DEF Unused
  <2> QED BY <2>1, <2>2, <2>3, <2>4
<1>9. CASE Logout \/ Revoke \/ UNCHANGED vars
  BY <1>9 DEF Logout, Revoke, vars, Unused, Unwritten
<1> QED BY <1>1, <1>2, <1>3, <1>4, <1>5, <1>6, <1>7, <1>8, <1>9 DEF Next, Step

\* Carried, part by part, in the state after a step.
LEMMA CarriedNext ==
  ASSUME Quiet' =>
           /\ \A q \in Proc : Unwritten(q)' => w'[q].token \in valid'
           /\ tmp' # None /\ content'[tmp'] # Torn =>
                /\ content'[tmp'].token \in valid'
                /\ \A q \in Proc : w'[q].saw # None => w'[q].saw.token # content'[tmp'].token
           /\ file' # None /\ content'[file'] # Torn /\ content'[file'].token \notin valid'
                => \E q \in Proc : Pending(q)'
  PROVE  Carried'
BY DEF Carried

\* A run that leaves the disk alone, and no token is revoked.
LEMMA CarriedOn ==
  ASSUME TypeOK, Carried, Quiet, NEW p \in Proc, NEW r, Becomes(p, r),
         UNCHANGED <<file, tmp, content>>, valid \subseteq valid',
         r.saw \in {None, w[p].saw},
         r.pc \in {"exchange", "create", "fill"} => r.token \in valid',
         Pending(p) => \/ r.pc \in {"exchange", "create"}
                       \/ r.pc \in {"fill", "rename"} /\ tmp # None
  PROVE  Carried'
<1>1. w'[p] = r /\ \A q \in Proc : q # p => w'[q] = w[q]
  BY Others
<1>2. \A q \in Proc : Unwritten(q)' => w'[q].token \in valid'
  BY <1>1 DEF Carried, Unwritten
<1>3. \A q \in Proc : w'[q].saw # None => w'[q].saw = w[q].saw
  BY <1>1
<1>4. \A q \in Proc : Pending(q) => Pending(q)'
  BY <1>1 DEF Pending
<1> QED BY <1>2, <1>3, <1>4, CarriedNext DEF Carried

\* A refresh that does not fail.
LEMMA RefreshQuiet ==
  ASSUME TypeOK, NEW p \in Proc, Refresh(p), Quiet'
  PROVE  \E r : /\ Becomes(p, r) /\ r.saw = w[p].saw
                /\ \/ r.pc = "request" /\ valid' = valid
                   \/ /\ r.pc = "exchange" /\ r.token \in valid'
                      /\ valid \ {w[p].saw.token} \subseteq valid'
<1> DEFINE new == New(p, w[p].saw.token.user)
           r1 == [w[p] EXCEPT !.token = new, !.pc = "exchange"]
           r2 == [w[p] EXCEPT !.pc = "request"]
<1>1. ~ Fault("fail")
  BY DEF Quiet, Fault
<1>2. w[p] \in Run
  BY DEF TypeOK
<1>3. \/ w' = [w EXCEPT ![p].token = new, ![p].pc = "exchange"] /\ Rotate(w[p].saw.token, new)
      \/ Goto(p, "request") /\ valid' = valid
  BY <1>1 DEF Refresh
<1>4. CASE w' = [w EXCEPT ![p].token = new, ![p].pc = "exchange"] /\ Rotate(w[p].saw.token, new)
  <2>1. Becomes(p, r1)
    BY <1>4 DEF Becomes, TypeOK
  <2>2. r1.pc = "exchange" /\ r1.token = new /\ r1.saw = w[p].saw
    BY <1>2 DEF Run
  <2>3. new \in valid' /\ valid \ {w[p].saw.token} \subseteq valid'
    BY <1>4 DEF Rotate
  <2> HIDE DEF r1, new
  <2> QED BY <2>1, <2>2, <2>3
<1>5. CASE Goto(p, "request") /\ valid' = valid
  <2>1. Becomes(p, r2)
    BY <1>5, GotoBecomes
  <2>2. r2.pc = "request" /\ r2.saw = w[p].saw
    BY <1>2 DEF Run
  <2> HIDE DEF r2
  <2> QED BY <1>5, <2>1, <2>2
<1> QED BY <1>3, <1>4, <1>5

LEMMA StepCarried ==
  TypeOK /\ Numbers /\ Inodes /\ Unused /\ Carried /\ [Next]_vars => Carried'
<1> SUFFICES ASSUME TypeOK, Numbers, Inodes, Unused, Carried, [Next]_vars, Quiet'
             PROVE  Carried'
  BY DEF Carried
<1>0. Quiet /\ "fail" \notin troubles' /\ "crash" \notin troubles' /\ "revoked" \notin troubles'
  BY TroublesGrow DEF Quiet
<1>a. ~ Fault("fail") /\ ~ Fault("crash")
  BY <1>0 DEF Fault
<1> USE DEF disk
<1>1. ASSUME NEW p \in Proc, Start(p) PROVE Carried'
  <2>1. PICK r : Becomes(p, r) /\ r.pc = "load" /\ r.saw = None
    BY <1>1, StartOutcome
  <2>2. UNCHANGED <<file, tmp, content, valid>> /\ ~ Pending(p)
    BY <1>1 DEF Start, Pending, Busy
  <2> QED BY <1>0, <2>1, <2>2, CarriedOn
<1>2. ASSUME NEW p \in Proc, Load(p) PROVE Carried'
  <2>1. PICK r : /\ Becomes(p, r) /\ r.pc \in {"off", "refresh", "request"}
                 /\ r.saw = None \/ (r.saw = Loaded /\ r.saw # Torn)
    BY <1>2, LoadOutcome DEF Off
  <2>2. UNCHANGED <<file, tmp, content, valid>> /\ w[p].pc = "load"
    BY <1>2 DEF Load
  <2>3. w'[p] = r /\ \A q \in Proc : q # p => w'[q] = w[q]
    BY <2>1, Others
  <2>4. r.saw # None => file \in Number /\ content[file] # Torn /\ r.saw = content[file]
    BY <2>1 DEF Loaded, TypeOK
  <2>5. ASSUME tmp # None, content[tmp] # Torn, r.saw # None PROVE r.saw.token # content[tmp].token
    <3>1. tmp \in Number /\ file # None /\ file # tmp
      BY <2>4, <2>5, AuthAssumption DEF TypeOK, Inodes, Number
    <3> QED BY <2>4, <2>5, <3>1 DEF Unused
  <2>6. \A q \in Proc : Unwritten(q)' => w'[q].token \in valid'
    BY <1>0, <2>1, <2>2, <2>3 DEF Carried, Unwritten
  <2>7. \A q \in Proc : Pending(q) => Pending(q)'
    BY <2>2, <2>3 DEF Pending
  <2> QED BY <1>0, <2>2, <2>3, <2>5, <2>6, <2>7, CarriedNext DEF Carried
<1>3. ASSUME NEW p \in Proc, Refresh(p) PROVE Carried'
  <2>1. PICK r : /\ Becomes(p, r) /\ r.saw = w[p].saw
                 /\ \/ r.pc = "request" /\ valid' = valid
                    \/ /\ r.pc = "exchange" /\ r.token \in valid'
                       /\ valid \ {w[p].saw.token} \subseteq valid'
    BY <1>3, RefreshQuiet
  <2>2. UNCHANGED <<file, tmp, content>> /\ w[p].pc = "refresh" /\ w[p].saw # None
    BY <1>3 DEF Refresh, TypeOK
  <2>3. CASE r.pc = "request" /\ valid' = valid
    BY <1>0, <2>1, <2>2, <2>3, CarriedOn DEF Pending
  <2>4. CASE /\ r.pc = "exchange" /\ r.token \in valid'
             /\ valid \ {w[p].saw.token} \subseteq valid'
    <3>1. w'[p] = r /\ \A q \in Proc : q # p => w'[q] = w[q]
      BY <2>1, Others
    <3>2. \A q \in Proc : w'[q].saw = w[q].saw
      BY <2>1, <3>1
    <3>3. \A q \in Proc : q # p /\ Unwritten(q) => w[q].token \in valid /\ w[p].saw.token # w[q].token
      BY <1>0, <2>2 DEF Carried, Unused
    <3>4. \A q \in Proc : Unwritten(q)' => w'[q].token \in valid'
      BY <2>4, <3>1, <3>3 DEF Unwritten
    <3>5. tmp # None /\ content[tmp] # Torn =>
            content[tmp].token \in valid /\ w[p].saw.token # content[tmp].token
      BY <1>0, <2>2 DEF Carried
    <3>6. Pending(p)'
      BY <2>4, <3>1 DEF Pending
    <3> QED BY <1>0, <2>2, <2>4, <3>2, <3>4, <3>5, <3>6, CarriedNext DEF Carried
  <2> QED BY <2>1, <2>3, <2>4
<1>4. ASSUME NEW p \in Proc, RequestCode(p) PROVE Carried'
  <2>1. PICK r : Becomes(p, r) /\ r.pc \in {"off", "poll"} /\ r.saw \in {None, w[p].saw}
    BY <1>4, RequestOutcome DEF Off, GoesOn
  <2>2. UNCHANGED <<file, tmp, content, valid>> /\ ~ Pending(p)
    BY <1>4 DEF RequestCode, Pending
  <2> QED BY <1>0, <2>1, <2>2, CarriedOn
<1>5. ASSUME NEW p \in Proc, Answer(p) \/ Late(p) PROVE Carried'
  <2>1. PICK r : Becomes(p, r) /\ Keeps(p, r) /\ r.pc = w[p].pc
    BY <1>5, WaitOutcome
  <2>2. UNCHANGED <<file, tmp, content, valid>>
    BY <1>5 DEF Answer, Late
  <2>3. r.saw = w[p].saw /\ r.token = w[p].token
    BY <2>1 DEF Keeps, GoesOn
  <2>4. Unwritten(p) => w[p].token \in valid
    BY <1>0 DEF Carried
  <2> QED BY <1>0, <2>1, <2>2, <2>3, <2>4, CarriedOn DEF Unwritten, Pending
<1>6. ASSUME NEW p \in Proc, Poll(p) PROVE Carried'
  <2>1. PICK r : /\ Becomes(p, r) /\ r.saw \in {None, w[p].saw}
                 /\ \/ r.pc = "off" /\ valid' = valid
                    \/ r.pc = "exchange" /\ valid' = valid \cup {r.token}
    BY <1>6, PollOutcome DEF Off, GoesOn
  <2>2. UNCHANGED <<file, tmp, content>> /\ ~ Pending(p)
    BY <1>6 DEF Poll, Pending
  <2> QED BY <1>0, <2>1, <2>2, CarriedOn
<1>7. ASSUME NEW p \in Proc, GiveUp(p) PROVE Carried'
  <2>1. Becomes(p, Off) /\ Off.pc = "off" /\ Off.saw = None
    BY <1>7, EndBecomes DEF GiveUp, Off
  <2>2. UNCHANGED <<file, tmp, content, valid>> /\ ~ Pending(p)
    BY <1>7 DEF GiveUp, Pending
  <2> QED BY <1>0, <2>1, <2>2, CarriedOn
<1>8. ASSUME NEW p \in Proc, Exchange(p) PROVE Carried'
  <2>1. w[p].pc = "exchange" /\ UNCHANGED <<file, tmp, content, valid>> /\ Goto(p, "create")
    BY <1>a, <1>8 DEF Exchange
  <2> DEFINE r == [w[p] EXCEPT !.pc = "create"]
  <2>2. w[p] \in Run /\ Becomes(p, r)
    BY <2>1, GotoBecomes DEF TypeOK
  <2>3. r.pc = "create" /\ r.saw = w[p].saw /\ r.token = w[p].token
    BY <2>2 DEF Run
  <2>4. w[p].token \in valid
    BY <1>0, <2>1 DEF Carried, Unwritten
  <2> HIDE DEF r
  <2> QED BY <1>0, <2>1, <2>2, <2>3, <2>4, CarriedOn
<1>9. ASSUME NEW p \in Proc, Create(p) PROVE Carried'
  <2>1. PICK r : /\ Becomes(p, r) /\ r.pc = "fill" /\ Keeps(p, r) /\ r.inode \in Number
                 /\ r.inode = IF tmp = None THEN w[p].n ELSE tmp
                 /\ tmp' = r.inode /\ content' = [content EXCEPT ![r.inode] = Torn]
    BY <1>9, CreateOutcome
  <2>2. w[p].pc = "create" /\ UNCHANGED <<file, valid>>
    BY <1>9 DEF Create
  <2>3. w'[p] = r /\ (\A q \in Proc : q # p => w'[q] = w[q]) /\ r.token = w[p].token
    BY <2>1, Others DEF Keeps, GoesOn
  <2>4. content'[tmp'] = Torn /\ \A i \in Number : i # r.inode => content'[i] = content[i]
    BY <2>1 DEF TypeOK
  <2>5. file # None => file # r.inode /\ file \in Number
    BY <2>1, <2>2 DEF Inodes, TypeOK, Busy
  <2>6. \A q \in Proc : Unwritten(q)' => w'[q].token \in valid'
    BY <1>0, <2>2, <2>3 DEF Carried, Unwritten
  <2>7. tmp' # None
    BY <2>1, AuthAssumption DEF Number
  <2>8. Pending(p)'
    BY <2>1, <2>3, <2>7 DEF Pending
  <2> QED BY <2>4, <2>6, <2>8, CarriedNext
<1>10. ASSUME NEW p \in Proc, Fill(p) PROVE Carried'
  <2>1. /\ w[p].pc = "fill" /\ UNCHANGED <<file, tmp, valid>> /\ Goto(p, "rename")
        /\ \/ content' = [content EXCEPT ![w[p].inode] = What(p)]
           \/ content' = [content EXCEPT ![w[p].inode] = Torn]
    BY <1>a, <1>10 DEF Fill
  <2> DEFINE r == [w[p] EXCEPT !.pc = "rename"]
  <2>2. w[p] \in Run /\ w[p].inode \in Number /\ Becomes(p, r)
    BY <2>1, GotoBecomes DEF TypeOK
  <2>3. r.pc = "rename" /\ r.saw = w[p].saw
    BY <2>2 DEF Run
  <2>4. w'[p] = r /\ \A q \in Proc : q # p => w'[q] = w[q]
    BY <2>2, Others
  <2> HIDE DEF r
  <2>5. \A q \in Proc : w'[q].saw = w[q].saw
    BY <2>3, <2>4
  <2>6. /\ What(p).token = w[p].token /\ w[p].token \in valid
        /\ \A q \in Proc : w[q].saw # None => w[q].saw.token # w[p].token
    BY <1>0, <2>1, WhatTyped DEF HasToken, Unwritten, Carried, Unused
  <2>7. \A i \in Number : \/ content'[i] = content[i]
                          \/ content'[i] \in {What(p), Torn}
    BY <2>1 DEF TypeOK
  <2>8. \A q \in Proc : Unwritten(q)' => w'[q].token \in valid'
    BY <1>0, <2>1, <2>3, <2>4 DEF Carried, Unwritten
  <2>9. \A q \in Proc : Pending(q) => Pending(q)'
    BY <2>1, <2>3, <2>4 DEF Pending
  <2>10. tmp' # None /\ content'[tmp'] # Torn =>
           /\ content'[tmp'].token \in valid'
           /\ \A q \in Proc : w'[q].saw # None => w'[q].saw.token # content'[tmp'].token
    <3> SUFFICES ASSUME tmp # None, content'[tmp] # Torn
                 PROVE  /\ content'[tmp].token \in valid
                        /\ \A q \in Proc : w[q].saw # None => w[q].saw.token # content'[tmp].token
      BY <2>1, <2>5
    <3>1. tmp \in Number
      BY DEF TypeOK
    <3>2. CASE content'[tmp] = content[tmp]
      BY <1>0, <3>2 DEF Carried
    <3>3. CASE content'[tmp] = What(p)
      BY <2>6, <3>3
    <3> QED BY <2>7, <3>1, <3>2, <3>3
  <2>11. file' # None /\ content'[file'] # Torn /\ content'[file'].token \notin valid'
           => \E q \in Proc : Pending(q)'
    <3> SUFFICES ASSUME file # None, content'[file] # Torn, content'[file].token \notin valid
                 PROVE  \E q \in Proc : Pending(q)'
      BY <2>1
    <3>1. file \in Number
      BY DEF TypeOK
    <3>2. content'[file] = content[file]
      BY <2>6, <2>7, <3>1
    <3> QED BY <1>0, <2>9, <3>2 DEF Carried
  <2> QED BY <2>8, <2>10, <2>11, CarriedNext
<1>11. ASSUME NEW p \in Proc, Rename(p) PROVE Carried'
  <2>1. /\ w[p].pc = "rename" /\ UNCHANGED <<content, valid>> /\ Becomes(p, Off)
        /\ file' = (IF tmp = None THEN file ELSE tmp) /\ tmp' = None
    BY <1>a, <1>11, EndBecomes DEF Rename
  <2>2. w'[p] = Off /\ \A q \in Proc : q # p => w'[q] = w[q]
    BY <2>1, Others
  <2>3. \A q \in Proc : Unwritten(q)' => w'[q].token \in valid'
    BY <1>0, <2>1, <2>2 DEF Carried, Unwritten, Off
  <2>4. CASE tmp # None
    BY <1>0, <2>1, <2>3, <2>4, CarriedNext DEF Carried
  <2>5. CASE tmp = None
    <3>1. \A q \in Proc : Pending(q) => Pending(q)'
      BY <2>1, <2>2, <2>5 DEF Pending
    <3> QED BY <1>0, <2>1, <2>3, <2>5, <3>1, CarriedNext DEF Carried
  <2> QED BY <2>4, <2>5
<1>12. ASSUME NEW p \in Proc, Crash(p) PROVE Carried'
  BY <1>a, <1>12 DEF Crash
<1>13. CASE Logout
  BY <1>0, <1>13, CarriedNext DEF Logout, Carried, Unwritten
<1>14. CASE Revoke
  BY <1>0, <1>14 DEF Revoke
<1>15. CASE UNCHANGED vars
  BY <1>15 DEF vars, Carried, Quiet, Unwritten, Pending
<1> QED BY <1>1, <1>2, <1>3, <1>4, <1>5, <1>6, <1>7, <1>8, <1>9, <1>10, <1>11, <1>12, <1>13,
           <1>14, <1>15 DEF Next, Step

-----------------------------------------------------------------------------
(* What holds in every state, and of every step *)

\* The invariant.
AuthInv == TypeOK /\ Numbers /\ Origin /\ LoginOnlyWhenNeeded /\ Alone

\* The inductive invariant of ensure, save_state and logout.
THEOREM AuthInvariant == Spec => []AuthInv
<1>1. Init => AuthInv
  BY InitTyped, InitNumbers, InitOrigin, InitNeeded, InitAlone DEF AuthInv
<1>2. AuthInv /\ [Next]_vars => AuthInv'
  BY StepTyped, StepNumbers, StepOrigin, StepNeeded, StepAlone DEF AuthInv
<1> QED BY <1>1, <1>2, PTL DEF Spec

\* The types, and what each step of a run needs (State, ensure).
THEOREM AuthTypeCorrect == Spec => []TypeOK
<1>1. AuthInv => TypeOK
  BY DEF AuthInv
<1> QED BY <1>1, AuthInvariant, PTL

\* Whatever runs crash, fail or overlap: what is on disk and can be parsed was
\* established by one complete login (ensure_session saves only at its end, and
\* save_state writes one document).
THEOREM SavedTogetherAlways == Spec => []SavedTogether
<1>1. AuthInv => SavedTogether
  BY DEF AuthInv, Origin
<1> QED BY <1>1, AuthInvariant, PTL

\* A crash or failure at any step, and any number of them, leaves a state file
\* that loads, unless two runs have shared the temporary file (save_state).
THEOREM StateAlwaysLoads == Spec => []StateLoads
<1>1. AuthInv => StateLoads
  BY DEF AuthInv, Alone, StateLoads
<1> QED BY <1>1, AuthInvariant, PTL

\* The user is asked only if the saved token is missing, refused or not to be
\* used, or a request has failed (acquire_live_token), however many runs there
\* are at a time and whatever the server does with old tokens.
THEOREM LoginOnlyWhenNeededAlways == Spec => []LoginOnlyWhenNeeded
<1>1. AuthInv => LoginOnlyWhenNeeded
  BY DEF AuthInv
<1> QED BY <1>1, AuthInvariant, PTL

\* A step of one run at a time leaves the identity in the state file alone.
LEMMA StepKeepsDevice ==
  ASSUME AuthInv, [Next]_vars, "overlap" \notin troubles', file # None, file' # None,
         content[file] # Torn, content'[file'] # Torn
  PROVE  content'[file'].device = content[file].device
<1>0. "overlap" \notin troubles
  BY TroublesGrow DEF AuthInv
<1>1. TypeOK /\ FilesApart /\ \A p \in Proc : RunApart(p)
  BY <1>0, AloneParts DEF AuthInv
<1>2. file \in Number
  BY <1>1 DEF TypeOK
<1>3. CASE UNCHANGED <<file, content>>
  BY <1>3
<1>4. ASSUME NEW p \in Proc, Create(p) PROVE content'[file'].device = content[file].device
  <2>1. PICK r : /\ r.inode \in Number /\ r.inode = IF tmp = None THEN w[p].n ELSE tmp
                 /\ content' = [content EXCEPT ![r.inode] = Torn]
    BY <1>1, <1>4, CreateOutcome
  <2>2. file' = file /\ file # r.inode
    BY <1>1, <1>4, <2>1 DEF Create, RunApart, FilesApart, Busy
  <2> QED BY <1>1, <1>2, <2>1, <2>2 DEF TypeOK
<1>5. ASSUME NEW p \in Proc, Fill(p) PROVE content'[file'].device = content[file].device
  <2>1. file' = file /\ file # w[p].inode
    BY <1>1, <1>5 DEF Fill, RunApart, FilesApart
  <2>2. \/ content' = content \/ content' = [content EXCEPT ![w[p].inode] = What(p)]
        \/ content' = [content EXCEPT ![w[p].inode] = Torn]
    BY <1>5 DEF Fill
  <2> QED BY <1>1, <1>2, <2>1, <2>2 DEF TypeOK
<1>6. ASSUME NEW p \in Proc, Rename(p) PROVE content'[file'].device = content[file].device
  <2>1. w[p].pc = "rename" /\ content' = content /\ file' \in {file, tmp}
    BY <1>6 DEF Rename
  <2>2. content[tmp].device = w[p].device
    BY <1>1, <2>1, WhatTyped DEF RunApart, HasToken
  <2>3. w[p].saw = content[file] /\ content[file] \in Saved
    BY <1>1, <1>2, <2>1 DEF RunApart, Loaded, TypeOK
  <2>4. w[p].device = content[file].device
    BY <1>1, <2>1, <2>3, ContentsAssumption DEF RunApart
  <2> QED BY <2>1, <2>2, <2>4
<1>7. CASE Logout
  BY <1>7 DEF Logout
<1>8. ASSUME NEW p \in Proc,
             \/ Start(p) \/ Load(p) \/ Refresh(p) \/ RequestCode(p) \/ Poll(p) \/ GiveUp(p)
             \/ Exchange(p) \/ Answer(p) \/ Late(p) \/ Crash(p)
      PROVE  UNCHANGED <<file, content>>
  BY <1>8 DEF Start, Load, Refresh, RequestCode, Poll, GiveUp, Exchange, Answer, Late, Crash, disk
<1>9. CASE Revoke \/ UNCHANGED vars
  BY <1>3, <1>9 DEF Revoke, vars, disk
<1> QED BY <1>3, <1>4, <1>5, <1>6, <1>7, <1>8, <1>9 DEF Next, Step

\* Until logout an account keeps its device identity (ensure_device_identity
\* makes one up only where there is none), as long as one run goes on at a time.
THEOREM DeviceAlwaysKept == Spec => DeviceKept
<1>1. AuthInv /\ [Next]_vars =>
        [\/ "overlap" \in troubles' \/ file = None \/ file' = None
         \/ content[file] = Torn \/ content'[file'] = Torn
         \/ content'[file'].device = content[file].device]_vars
  BY StepKeepsDevice
<1> QED BY <1>1, AuthInvariant, PTL DEF Spec, DeviceKept

\* However many runs there were, at a time or one after the other, and whatever
\* the server does with old tokens: between runs the saved one is accepted,
\* unless a run ended early or every token was revoked (ensure_session saves
\* the successor it was given, and save_state whichever was written last).
THEOREM SavedTokenAlwaysWorks == Spec => []SavedTokenWorks
<1> DEFINE Inv == AuthInv /\ Inodes /\ Unused /\ Carried
<1>1. Init => Inv
  BY InitTyped, InitNumbers, InitOrigin, InitNeeded, InitAlone, InitCarried DEF AuthInv
<1>2. Inv /\ [Next]_vars => Inv'
  BY StepTyped, StepNumbers, StepOrigin, StepNeeded, StepAlone, StepInodes, StepUnused,
     StepCarried DEF AuthInv
<1>3. Inv => SavedTokenWorks
  BY DEF Carried, Quiet, Pending, Busy, SavedTokenWorks
<1> QED BY <1>1, <1>2, <1>3, PTL DEF Spec
=============================================================================
