--------------------------- MODULE SessionsProofs ---------------------------
(* A rotated refresh token never leaves two live successors, and presenting a *)
(* revoked token ends the sessions of its user, for any number of users,      *)
(* tokens and faults.  At rest the three storage keys tell of one session,    *)
(* and without faults the stored token is live, unless a refresh has ended    *)
(* over a session that was changing.                                          *)
EXTENDS Sessions, TLAPS

\* The login a token descends from is itself an issued token.
LinesIssued == \A t \in Issued : line[t] \in Issued

\* What a request presents was issued, and its user's tokens were read.
AskedIssued ==
    \A p \in Party : pc[p] \in {"read", "revoke", "claim", "create"} => tok[p] \in Issued

SeenOwn ==
    \A p \in Party : pc[p] = "revoke" => \A t \in seen[p] : t \in Issued /\ user[t] = user[tok[p]]

\* A transaction that has claimed a token has it alone.
ClaimsExclusive ==
    \A p \in Party : pc[p] = "create" =>
        /\ state[tok[p]] = "live"
        /\ \A q \in Party : pc[q] = "create" /\ tok[q] = tok[p] => q = p

\* What is answered or stored was issued.
AnswersIssued ==
    /\ \A p \in Party : pc[p] = "done" => got[p] = NoToken \/ got[p] \in Issued
    /\ \A f \in Flow : flow[f] \in {"writeAccess", "writeRefresh", "writeOwner"}
           => got[f] \in Issued /\ pc[f] = "idle"
    /\ refresh = NoToken \/ refresh \in Issued

IInv == /\ TypeOK /\ LinesIssued /\ AskedIssued /\ SeenOwn /\ ClaimsExclusive
        /\ AnswersIssued /\ OneLiveToken

-----------------------------------------------------------------------------

LEMMA Initial == Init => IInv
  <1> SUFFICES ASSUME Init PROVE IInv
    OBVIOUS
  <1> USE SessionsAssumption
  <1>1. TypeOK
    <2>1. seen \in [Party -> SUBSET Token]
      BY DEF Init
    <2>2. replay \in [step : {"idle", "token", "owner", "sent"}, expected : User \cup {NoUser},
                       token : User \cup {NoUser}]
      BY DEF Init, NoReplay
    <2>3. /\ state \in [Token -> {"unused", "live", "revoked"}]
          /\ user \in [Token -> User \cup {NoUser}]
          /\ line \in [Token -> Token \cup {NoToken}]
      BY DEF Init
    <2>4. /\ pc \in [Party -> {"idle", "read", "revoke", "claim", "create", "done"}]
          /\ tok \in [Party -> Token \cup {NoToken}]
          /\ got \in [Party -> Token \cup {NoToken}]
      BY DEF Init
    <2>5. /\ flow \in [Flow -> {"idle", "boot", "wait", "writeAccess", "writeRefresh",
                                "writeOwner", "clearAccess", "clearRefresh", "clearOwner"}]
          /\ faults \in 0..MaxFaults
      BY DEF Init
    <2> QED
      BY <2>1, <2>2, <2>3, <2>4, <2>5 DEF Init, TypeOK
  <1>2. LinesIssued /\ AskedIssued /\ SeenOwn /\ ClaimsExclusive /\ AnswersIssued /\ OneLiveToken
    BY DEF Init, LinesIssued, AskedIssued, SeenOwn, ClaimsExclusive, AnswersIssued,
           OneLiveToken, Issued
  <1> QED
    BY <1>1, <1>2 DEF IInv

LEMMA ReadStep ==
    ASSUME IInv, NEW p \in Party, ReadToken(p)
    PROVE  IInv'
  <1> USE SessionsAssumption
  <1>1. TypeOK'
    BY DEF IInv, TypeOK, ReadToken, Advance, tokens, disk, app, Live
  <1>2. LinesIssued' /\ OneLiveToken'
    BY DEF IInv, LinesIssued, OneLiveToken, Issued, ReadToken, tokens
  <1>3. AskedIssued' /\ SeenOwn' /\ ClaimsExclusive' /\ AnswersIssued'
    BY DEF IInv, TypeOK, AskedIssued, SeenOwn, ClaimsExclusive, AnswersIssued, Issued, Live,
           ReadToken, Advance, tokens, disk, app, Party, Flow
  <1> QED
    BY <1>1, <1>2, <1>3 DEF IInv

LEMMA RevokeStep ==
    ASSUME IInv, NEW p \in Party, RevokeAll(p)
    PROVE  IInv'
  <1> USE SessionsAssumption
  <1>1. TypeOK'
    BY DEF IInv, TypeOK, RevokeAll, Advance, disk, app
  <1>2. LinesIssued' /\ OneLiveToken'
    BY DEF IInv, TypeOK, LinesIssued, OneLiveToken, Issued, RevokeAll, Live
  <1>3. AskedIssued' /\ SeenOwn'
    BY DEF IInv, TypeOK, AskedIssued, SeenOwn, Issued, RevokeAll, Advance, Live
  <1>4. ClaimsExclusive'
    BY DEF IInv, TypeOK, ClaimsExclusive, AskedIssued, Issued, Claimed, RevokeAll, Advance
  <1>5. AnswersIssued'
    BY DEF IInv, TypeOK, AnswersIssued, Issued, RevokeAll, Advance, Live, disk, app, Party, Flow
  <1> QED
    BY <1>1, <1>2, <1>3, <1>4, <1>5 DEF IInv

LEMMA ClaimStep ==
    ASSUME IInv, NEW p \in Party, Claim(p)
    PROVE  IInv'
  <1> USE SessionsAssumption
  <1>1. TypeOK'
    BY DEF IInv, TypeOK, Claim, Advance, tokens, disk, app
  <1>2. LinesIssued' /\ OneLiveToken'
    BY DEF IInv, LinesIssued, OneLiveToken, Issued, Claim, tokens
  <1>3. AskedIssued' /\ SeenOwn'
    BY DEF IInv, TypeOK, AskedIssued, SeenOwn, Issued, Claim, Advance, tokens
  <1>4. ClaimsExclusive'
    BY DEF IInv, TypeOK, ClaimsExclusive, AskedIssued, Issued, Claimed, Claim, Advance, tokens
  <1>5. AnswersIssued'
    BY DEF IInv, TypeOK, AnswersIssued, Issued, Claim, Advance, tokens, disk, app, Party, Flow
  <1> QED
    BY <1>1, <1>2, <1>3, <1>4, <1>5 DEF IInv

LEMMA CreateStep ==
    ASSUME IInv, NEW p \in Party, Create(p)
    PROVE  IInv'
  <1> USE SessionsAssumption
  <1>1. PICK t \in Token \ Issued :
          /\ state' = [state EXCEPT ![tok[p]] = "revoked", ![t] = "live"]
          /\ user' = [user EXCEPT ![t] = user[tok[p]]]
          /\ line' = [line EXCEPT ![t] = line[tok[p]]]
          /\ got' = [got EXCEPT ![p] = t]
    BY DEF Create
  <1>2. /\ pc[p] = "create" /\ pc' = [pc EXCEPT ![p] = "done"]
        /\ tok[p] \in Issued /\ state[tok[p]] = "live" /\ tok[p] # t
        /\ UNCHANGED <<tok, seen, disk, app>>
    BY <1>1 DEF IInv, Create, Advance, AskedIssued, ClaimsExclusive, Issued
  <1>3. TypeOK'
    BY <1>1, <1>2 DEF IInv, TypeOK, Issued, disk, app
  <1>4. Issued' = Issued \cup {t}
    BY <1>1, <1>2 DEF IInv, TypeOK, Issued
  <1>5. LinesIssued'
    BY <1>1, <1>2, <1>4 DEF IInv, TypeOK, LinesIssued, Issued
  <1>6. OneLiveToken'
    BY <1>1, <1>2 DEF IInv, TypeOK, OneLiveToken, Issued
  <1>7. AskedIssued'
    BY <1>1, <1>2, <1>4 DEF IInv, TypeOK, AskedIssued
  <1>8. SeenOwn'
    <2> SUFFICES ASSUME NEW q \in Party, pc'[q] = "revoke", NEW s \in seen[q]
                 PROVE  s \in Issued' /\ user'[s] = user'[tok[q]]
      BY <1>2 DEF SeenOwn
    <2> QED
      BY <1>1, <1>2, <1>4 DEF IInv, TypeOK, SeenOwn, AskedIssued, Issued
  <1>9. ClaimsExclusive'
    BY <1>1, <1>2 DEF IInv, TypeOK, ClaimsExclusive, AskedIssued, Issued
  <1>10. AnswersIssued'
    BY <1>1, <1>2, <1>4 DEF IInv, TypeOK, AnswersIssued, disk, app, Party, Flow
  <1> QED
    BY <1>3, <1>5, <1>6, <1>7, <1>8, <1>9, <1>10 DEF IInv
LEMMA LoginStep ==
    ASSUME IInv, NEW u \in User, Login(u)
    PROVE  IInv'
  <1> USE SessionsAssumption
  <1>1. PICK t \in Token \ Issued :
          /\ state' = [state EXCEPT ![t] = "live"]
          /\ user' = [user EXCEPT ![t] = u]
          /\ line' = [line EXCEPT ![t] = t]
          /\ got' = [got EXCEPT !["ui"] = t]
    BY DEF Login
  <1>2. /\ flow' = [flow EXCEPT !["ui"] = "writeAccess"] /\ pc["ui"] = "idle"
        /\ UNCHANGED <<pc, tok, seen, disk, mode, replay, crossed, faults>>
    BY DEF Login, Step
  <1>3. TypeOK'
    BY <1>1, <1>2 DEF IInv, TypeOK, Issued, disk, Party, Flow
  <1>4. Issued' = Issued \cup {t}
    BY <1>1 DEF IInv, TypeOK, Issued
  <1>5. LinesIssued'
    BY <1>1, <1>4 DEF IInv, TypeOK, LinesIssued, Issued
  <1>6. OneLiveToken'
    <2>1. \A s \in Token : s # t /\ state'[s] = "live" => line'[s] # t
      BY <1>1 DEF IInv, TypeOK, LinesIssued, Issued
    <2> QED
      BY <1>1, <2>1 DEF IInv, TypeOK, OneLiveToken
  <1>7. AskedIssued'
    BY <1>1, <1>2, <1>4 DEF IInv, TypeOK, AskedIssued
  <1>8. SeenOwn'
    <2> SUFFICES ASSUME NEW q \in Party, pc[q] = "revoke", NEW s \in seen[q]
                 PROVE  s \in Issued' /\ user'[s] = user'[tok[q]]
      BY <1>2 DEF SeenOwn
    <2> QED
      BY <1>1, <1>4 DEF IInv, TypeOK, SeenOwn, AskedIssued, Issued
  <1>9. ClaimsExclusive'
    BY <1>1, <1>2 DEF IInv, TypeOK, ClaimsExclusive, AskedIssued, Issued
  <1>10. AnswersIssued'
    BY <1>1, <1>2, <1>4 DEF IInv, TypeOK, AnswersIssued, disk, Party, Flow
  <1> QED
    BY <1>3, <1>5, <1>6, <1>7, <1>8, <1>9, <1>10 DEF IInv

\* Steps that change no token, no token presented and none read.
LEMMA QuietStep ==
    ASSUME IInv, UNCHANGED <<tokens, tok, seen>>,
           \A p \in Party : pc'[p] \in {"read", "revoke", "claim", "create"} => pc'[p] = pc[p]
    PROVE  /\ LinesIssued' /\ AskedIssued' /\ SeenOwn' /\ ClaimsExclusive' /\ OneLiveToken'
           /\ Issued' = Issued
  <1>1. LinesIssued' /\ OneLiveToken' /\ Issued' = Issued
    BY DEF IInv, LinesIssued, OneLiveToken, Issued, tokens
  <1>2. AskedIssued' /\ SeenOwn' /\ ClaimsExclusive'
    BY DEF IInv, AskedIssued, SeenOwn, ClaimsExclusive, Issued, tokens
  <1> QED
    BY <1>1, <1>2

\* An issued token is presented by a party with no request on its way.
LEMMA AskStep ==
    ASSUME IInv, NEW p \in Party, NEW t \in Issued, NEW step \in {"read", "revoke"},
           Ask(p, t, step)
    PROVE  /\ LinesIssued' /\ AskedIssued' /\ SeenOwn' /\ ClaimsExclusive' /\ OneLiveToken'
           /\ Issued' = Issued /\ tok' \in [Party -> Token \cup {NoToken}]
           /\ seen' \in [Party -> SUBSET Token]
           /\ pc' \in [Party -> {"idle", "read", "revoke", "claim", "create", "done"}]
  <1> USE SessionsAssumption
  <1>1. LinesIssued' /\ OneLiveToken' /\ Issued' = Issued
    BY DEF IInv, LinesIssued, OneLiveToken, Issued, Ask, tokens
  <1>2. AskedIssued' /\ ClaimsExclusive'
    BY DEF IInv, TypeOK, AskedIssued, ClaimsExclusive, Issued, Ask, Advance, tokens
  <1>3. SeenOwn'
    BY DEF IInv, TypeOK, SeenOwn, Issued, Live, Ask, Advance, tokens
  <1> QED
    BY <1>1, <1>2, <1>3 DEF IInv, TypeOK, Ask, Advance, Issued, Live
\* The steps of the application that ask the server nothing.
StorageStep ==
    \/ \E f \in Flow : \/ WriteAccess(f) \/ WriteRefresh(f) \/ WriteOwner(f)
                       \/ ClearAccess(f) \/ ClearRefresh(f) \/ ClearOwner(f)
                       \/ Answered(f) \/ Lost(f)
    \/ \E p \in Party : Drop(p)
    \/ Kill \/ BeginReplay \/ ReplayToken \/ ReplayOwner \/ Retry
    \/ UNCHANGED vars

LEMMA StorageTypes ==
    ASSUME IInv, StorageStep
    PROVE  TypeOK' /\ AnswersIssued'
  <1> USE SessionsAssumption DEF IInv, TypeOK, AnswersIssued
  <1> USE DEF Issued, Step, Ended, Crossing, Advance, tokens, asked, disk, app, Flow, Party
  <1>1. ASSUME NEW f \in Flow, WriteAccess(f)
        PROVE  TypeOK' /\ AnswersIssued'
    BY <1>1 DEF WriteAccess
  <1>2. ASSUME NEW f \in Flow, WriteRefresh(f)
        PROVE  TypeOK' /\ AnswersIssued'
    BY <1>2 DEF WriteRefresh
  <1>3. ASSUME NEW f \in Flow, WriteOwner(f)
        PROVE  TypeOK' /\ AnswersIssued'
    BY <1>3 DEF WriteOwner
  <1>4. ASSUME NEW f \in Flow, ClearAccess(f) \/ ClearRefresh(f) \/ ClearOwner(f)
        PROVE  TypeOK' /\ AnswersIssued'
    <2>1. CASE ClearAccess(f)
      BY <2>1 DEF ClearAccess
    <2>2. CASE ClearRefresh(f)
      BY <2>2 DEF ClearRefresh
    <2>3. CASE ClearOwner(f)
      BY <2>3 DEF ClearOwner
    <2> QED
      BY <1>4, <2>1, <2>2, <2>3
  <1>5. ASSUME NEW f \in Flow, Answered(f)
        PROVE  TypeOK' /\ AnswersIssued'
    BY <1>5 DEF Answered
  <1>6. ASSUME NEW f \in Flow, Lost(f)
        PROVE  TypeOK' /\ AnswersIssued'
    BY <1>6 DEF Lost
  <1>7. ASSUME NEW p \in Party, Drop(p)
        PROVE  TypeOK' /\ AnswersIssued'
    BY <1>7 DEF Drop
  <1>8. ASSUME Kill
        PROVE  TypeOK' /\ AnswersIssued'
    BY <1>8 DEF Kill, NoReplay
  <1>9. ASSUME BeginReplay \/ ReplayToken \/ ReplayOwner \/ Retry
        PROVE  TypeOK' /\ AnswersIssued'
    <2>1. replay' \in [step : {"idle", "token", "owner", "sent"}, expected : User \cup {NoUser},
                       token : User \cup {NoUser}]
      <3>1. CASE BeginReplay
        BY <3>1 DEF BeginReplay
      <3>2. CASE ReplayToken
        BY <3>2 DEF ReplayToken
      <3>3. CASE ReplayOwner
        BY <3>3 DEF ReplayOwner, NoReplay
      <3>4. CASE Retry
        BY <3>4 DEF Retry
      <3> QED
        BY <1>9, <3>1, <3>2, <3>3, <3>4
    <2>2. UNCHANGED <<tokens, asked, disk, flow, mode, crossed, faults>>
      BY <1>9 DEF BeginReplay, ReplayToken, ReplayOwner, Retry
    <2> QED
      BY <2>1, <2>2
  <1>10. ASSUME UNCHANGED vars
         PROVE  TypeOK' /\ AnswersIssued'
    BY <1>10 DEF vars
  <1> QED
    BY <1>1, <1>2, <1>3, <1>4, <1>5, <1>6, <1>7, <1>8, <1>9, <1>10 DEF StorageStep

LEMMA StorageStepIsQuiet ==
    ASSUME IInv, StorageStep
    PROVE  IInv'
  <1>1. /\ UNCHANGED <<tokens, tok, seen>>
        /\ \A p \in Party : pc'[p] \in {"read", "revoke", "claim", "create"} => pc'[p] = pc[p]
    BY DEF StorageStep, WriteAccess, WriteRefresh, WriteOwner, ClearAccess, ClearRefresh,
           ClearOwner, Answered, Lost, Drop, Kill, BeginReplay, ReplayToken, ReplayOwner, Retry,
           vars, asked, Advance, IInv, TypeOK, Flow, Party
  <1> QED
    BY <1>1, QuietStep, StorageTypes DEF IInv

\* The steps that present a token.
LEMMA PresentStep ==
    ASSUME IInv, Logout \/ Boot \/ Refresh \/ \E t \in Token : UseCopy(t)
    PROVE  IInv'
  <1> USE SessionsAssumption
  <1>1. ASSUME NEW t \in Token, UseCopy(t)
        PROVE  IInv'
    <2>1. Ask("copy", t, "read") /\ t \in Issued
      BY <1>1 DEF UseCopy
    <2>2. TypeOK'
      <3>1. faults' \in 0..MaxFaults
        BY <1>1 DEF IInv, TypeOK, UseCopy
      <3>2. /\ UNCHANGED <<disk, flow, mode, replay, crossed, tokens, got>>
            /\ seen' \in [Party -> SUBSET Token] /\ tok' \in [Party -> Token \cup {NoToken}]
            /\ pc' \in [Party -> {"idle", "read", "revoke", "claim", "create", "done"}]
        BY <1>1, <2>1, AskStep DEF UseCopy, Ask, Party
      <3> QED
        BY <3>1, <3>2 DEF IInv, TypeOK, tokens, disk
    <2>3. AnswersIssued'
      <3>1. Issued' = Issued
        BY <2>1, AskStep DEF Party
      <3>2. UNCHANGED <<disk, flow, got>> /\ pc' = [pc EXCEPT !["copy"] = "read"]
        BY <1>1, <2>1 DEF UseCopy, Ask, Advance
      <3> QED
        BY <3>1, <3>2 DEF IInv, TypeOK, AnswersIssued, disk, Party, Flow
    <2> QED
      BY <2>1, <2>2, <2>3, AskStep DEF IInv, Party
  <1>2. ASSUME Refresh
        PROVE  IInv'
    <2>1. Ask("refresher", refresh, "read") /\ refresh \in Issued
      BY <1>2 DEF Refresh, IInv, AnswersIssued
    <2>2. TypeOK'
      BY <1>2, <2>1, AskStep DEF IInv, TypeOK, Refresh, Step, Ask, tokens, disk, Party, Flow
    <2>3. AnswersIssued'
      BY <1>2, <2>1, AskStep
      DEF IInv, TypeOK, AnswersIssued, Refresh, Step, Ask, Advance, tokens, disk, Party, Flow
    <2> QED
      BY <2>1, <2>2, <2>3, AskStep DEF IInv, Party
  <1>3. ASSUME NEW step \in {"read", "revoke"}, AskUnlessEmpty(step),
               flow["ui"] \in {"idle", "boot"}
        PROVE  IInv'
    <2>1. CASE refresh = NoToken
      <3>1. /\ UNCHANGED <<tokens, asked, disk, mode, replay, crossed, faults>>
            /\ flow' = [flow EXCEPT !["ui"] = "clearAccess"]
        BY <1>3, <2>1 DEF AskUnlessEmpty, Step
      <3>2. TypeOK' /\ AnswersIssued'
        BY <3>1 DEF IInv, TypeOK, AnswersIssued, Issued, tokens, asked, disk, Party, Flow
      <3> QED
        BY <3>1, <3>2, QuietStep DEF IInv, asked
    <2>2. CASE refresh # NoToken
      <3>1. /\ Ask("ui", refresh, step) /\ refresh \in Issued
            /\ flow' = [flow EXCEPT !["ui"] = "wait"]
            /\ UNCHANGED <<disk, mode, replay, crossed, faults>>
        BY <1>3, <2>2 DEF AskUnlessEmpty, Step, IInv, AnswersIssued
      <3>2. /\ LinesIssued' /\ AskedIssued' /\ SeenOwn' /\ ClaimsExclusive' /\ OneLiveToken'
            /\ Issued' = Issued /\ tok' \in [Party -> Token \cup {NoToken}]
            /\ seen' \in [Party -> SUBSET Token]
            /\ pc' \in [Party -> {"idle", "read", "revoke", "claim", "create", "done"}]
        BY <1>3, <3>1, AskStep DEF Party
      <3>3. TypeOK'
        BY <3>1, <3>2 DEF IInv, TypeOK, Ask, tokens, disk, Flow
      <3>4. pc' = [pc EXCEPT !["ui"] = step] /\ UNCHANGED got
        BY <3>1 DEF Ask, Advance
      <3>5. AnswersIssued'
        BY <1>3, <3>1, <3>2, <3>4 DEF IInv, TypeOK, AnswersIssued, disk, Party, Flow
      <3> QED
        BY <3>2, <3>3, <3>5 DEF IInv
    <2> QED
      BY <2>1, <2>2
  <1> QED
    BY <1>1, <1>2, <1>3 DEF Logout, Boot

LEMMA Inductive == IInv /\ [Next]_vars => IInv'
  <1> SUFFICES ASSUME IInv, [Next]_vars PROVE IInv'
    OBVIOUS
  <1>1. ASSUME NEW p \in Party, ReadToken(p) \/ RevokeAll(p) \/ Claim(p) \/ Create(p)
        PROVE  IInv'
    BY <1>1, ReadStep, RevokeStep, ClaimStep, CreateStep
  <1>2. ASSUME NEW u \in User, Login(u)
        PROVE  IInv'
    BY <1>2, LoginStep
  <1>3. CASE Logout \/ Boot \/ Refresh \/ \E t \in Token : UseCopy(t)
    BY <1>3, PresentStep
  <1>4. CASE StorageStep
    BY <1>4, StorageStepIsQuiet
  <1> QED
    BY <1>1, <1>2, <1>3, <1>4 DEF Next, StorageStep

LEMMA Invariance == Spec => []IInv
  BY Initial, Inductive, PTL DEF Spec

\* Every reachable state of the server and of the application is well formed.
THEOREM Types == Spec => []TypeOK
  BY Invariance, PTL DEF IInv

\* However many present a token at once, it is rotated once (auth.service.ts:64).
THEOREM RotationNeverForks == Spec => []OneLiveToken
  BY Invariance, PTL DEF IInv

\* A logout, or a revoked token that is presented, ends the user's sessions
\* (auth.service.ts:55 and 100).
THEOREM RevocationIsComplete == Spec => ReuseEndsSessions
  <1>1. ASSUME IInv, [Next]_vars, NEW p \in Party, pc[p] = "revoke", pc'[p] = "done"
        PROVE  \A t \in seen[p] \ Claimed : state'[t] # "live"
    <2>1. RevokeAll(p)
      BY <1>1
      DEF Next, ReadToken, RevokeAll, Claim, Create, Drop, UseCopy, Ask, WriteAccess,
          WriteRefresh, WriteOwner, ClearAccess, ClearRefresh, ClearOwner, Answered, Lost, Login,
          Logout, Boot, AskUnlessEmpty, Refresh, Kill, BeginReplay, ReplayToken, ReplayOwner,
          Retry, vars, asked, Advance, IInv, TypeOK, Party, Flow
    <2> QED
      BY <1>1, <2>1 DEF RevokeAll, Live, IInv, TypeOK, SeenOwn, Issued
  <1>2. IInv /\ [Next]_vars =>
          [\A p \in Party : pc[p] = "revoke" /\ pc'[p] = "done"
              => \A t \in seen[p] \ Claimed : state'[t] # "live"]_vars
    BY <1>1
  <1> QED
    BY <1>2, Invariance, PTL DEF Spec, ReuseEndsSessions

-----------------------------------------------------------------------------
(* The storage keys of the client, and the token that is kept in them *)

\* A refresh presents an issued token and is answered with one of the same user.
RefresherOwn ==
    /\ flow["refresher"] \notin {"boot", "writeOwner"}
    /\ pc["refresher"] # "idle" \/ flow["refresher"] # "idle" => tok["refresher"] \in Issued
    /\ pc["refresher"] = "done" /\ got["refresher"] # NoToken
           => user[got["refresher"]] = user[tok["refresher"]]
    /\ flow["refresher"] \in {"writeAccess", "writeRefresh"}
           => user[got["refresher"]] = user[tok["refresher"]]

\* What the ui can be doing is told by what it shows: a logout never stores a session,
\* and at start-up it is alone.
UiOwn ==
    /\ mode = "boot" => flow["ui"] # "idle" /\ flow["refresher"] = "idle"
    /\ mode = "out" => flow["ui"] \in {"idle", "writeAccess", "writeRefresh", "writeOwner"}
    /\ mode = "in" =>
          /\ flow["ui"] \in {"idle", "wait", "clearAccess", "clearRefresh", "clearOwner"}
          /\ flow["ui"] = "wait" => \/ pc["ui"] = "revoke"
                                    \/ pc["ui"] = "done" /\ got["ui"] = NoToken

OneSession ==
    \/ access = NoUser /\ refresh = NoToken /\ owner = NoUser
    \/ refresh # NoToken /\ user[refresh] = access /\ owner = access

\* The keys that the ui has written or deleted so far, and that the session it
\* stores is not the one a refresh was begun with.
UiHalf ==
    /\ flow["ui"] = "writeRefresh" => access = user[got["ui"]]
    /\ flow["ui"] = "writeOwner" => access = user[got["ui"]] /\ refresh = got["ui"]
    /\ flow["ui"] = "clearRefresh" => access = NoUser
    /\ flow["ui"] = "clearOwner" => access = NoUser /\ refresh = NoToken
    /\ mode = "out" /\ flow["ui"] # "writeOwner" => refresh = NoToken
    /\ mode # "boot" /\ flow["refresher"] # "idle" /\ flow["ui"] \in {"writeAccess", "writeRefresh"}
           => got["ui"] # tok["refresher"]
    /\ flow["ui"] = "writeOwner" /\ flow["refresher"] = "clearRefresh"
           => got["ui"] # tok["refresher"]

\* The keys that the refresher has written or deleted so far.
RefresherHalf ==
    flow["ui"] = "idle" =>
        /\ flow["refresher"] \notin {"clearRefresh", "clearOwner"} => OneSession
        /\ flow["refresher"] = "clearRefresh" =>
              IF refresh = tok["refresher"] THEN access = NoUser ELSE OneSession
        /\ flow["refresher"] = "clearOwner" =>
              OneSession \/ (access = NoUser /\ refresh = NoToken)

StorageInv == /\ RefresherOwn /\ UiOwn
              /\ ~crossed => UiHalf /\ RefresherHalf

IsLive(t) == t # NoToken /\ state[t] = "live"

\* Without faults a request is awaited, and the token that is stored, or is about to
\* replace the stored one, is live.
LiveInv ==
    faults = 0 =>
        /\ mode # "boot" /\ pc["copy"] = "idle"
        /\ \A f \in Flow : pc[f] # "idle" => flow[f] = "wait"
        /\ ~crossed =>
              /\ flow["refresher"] \notin {"clearRefresh", "clearOwner"}
              /\ flow["refresher"] = "idle" =>
                    /\ flow["ui"] \in {"idle", "writeOwner"} => refresh = NoToken \/ IsLive(refresh)
                    /\ flow["ui"] \in {"writeAccess", "writeRefresh"} => IsLive(got["ui"])
              /\ /\ flow["refresher"] # "idle" /\ refresh = tok["refresher"]
                 /\ flow["ui"] \in {"idle", "writeOwner"}
                 => \/ /\ flow["refresher"] = "wait"
                       /\ pc["refresher"] \in {"read", "claim", "create"} /\ IsLive(refresh)
                    \/ /\ flow["refresher"] = "wait" /\ pc["refresher"] = "done"
                       /\ IsLive(got["refresher"])
                    \/ /\ flow["refresher"] \in {"writeAccess", "writeRefresh"}
                       /\ IsLive(got["refresher"])

-----------------------------------------------------------------------------
(* What the ui and the refresher are doing *)

\* A login issues a token that no refresh presents.
LEMMA OwnLogin ==
    ASSUME IInv, StorageInv, NEW u \in User, Login(u)
    PROVE  RefresherOwn' /\ UiOwn'
  <1>1. PICK t \in Token \ Issued :
          /\ user' = [user EXCEPT ![t] = u]
          /\ state' = [state EXCEPT ![t] = "live"]
          /\ got' = [got EXCEPT !["ui"] = t]
    BY DEF Login
  <1>2. flow' = [flow EXCEPT !["ui"] = "writeAccess"] /\ UNCHANGED <<pc, tok, mode>> /\ mode = "out"
    BY DEF Login, Step
  <1>3. UiOwn'
    BY <1>1, <1>2 DEF IInv, TypeOK, StorageInv, UiOwn, Flow, Party
  <1>4. Issued' = Issued \cup {t}
    BY <1>1 DEF IInv, TypeOK, Issued
  <1>5. \A s \in Issued : user'[s] = user[s]
    BY <1>1 DEF IInv, TypeOK, Issued
  <1>6. got'["refresher"] = got["refresher"] /\ flow'["refresher"] = flow["refresher"]
    BY <1>1, <1>2 DEF IInv, TypeOK, Flow, Party
  <1>7. RefresherOwn'
    BY <1>1, <1>2, <1>4, <1>5, <1>6
    DEF IInv, TypeOK, AnswersIssued, StorageInv, RefresherOwn, Flow, Party
  <1> QED
    BY <1>3, <1>7

\* A rotation answers with a token of the same user.
LEMMA OwnCreate ==
    ASSUME IInv, StorageInv, NEW p \in Party, Create(p)
    PROVE  RefresherOwn' /\ UiOwn'
  <1>1. PICK t \in Token \ Issued :
          /\ user' = [user EXCEPT ![t] = user[tok[p]]]
          /\ state' = [state EXCEPT ![tok[p]] = "revoked", ![t] = "live"]
          /\ got' = [got EXCEPT ![p] = t]
    BY DEF Create
  <1>2. pc' = [pc EXCEPT ![p] = "done"] /\ pc[p] = "create" /\ UNCHANGED <<tok, flow, mode>>
    BY DEF Create, Advance, app
  <1>3. UiOwn'
    BY <1>1, <1>2 DEF IInv, TypeOK, StorageInv, UiOwn, Flow, Party
  <1>4. tok[p] \in Issued /\ Issued' = Issued \cup {t}
    BY <1>1, <1>2 DEF IInv, TypeOK, AskedIssued, Issued
  <1>5. user'[t] = user[tok[p]] /\ \A s \in Issued : user'[s] = user[s]
    BY <1>1 DEF IInv, TypeOK, Issued
  <1>6. RefresherOwn'
    BY <1>1, <1>2, <1>4, <1>5
    DEF IInv, TypeOK, AnswersIssued, StorageInv, RefresherOwn, Flow, Party
  <1> QED
    BY <1>3, <1>6

\* Every step keeps what the two flows are doing.
LEMMA OwnStep ==
    ASSUME IInv, StorageInv, [Next]_vars
    PROVE  RefresherOwn' /\ UiOwn'
  <1> USE SessionsAssumption
  <1> USE DEF IInv, TypeOK, AnswersIssued, AskedIssued, ClaimsExclusive, StorageInv
  <1> USE DEF RefresherOwn, UiOwn, Issued, Live, Ask, AskUnlessEmpty, Advance, Step, Ended
  <1> USE DEF Crossing, Booted, tokens, asked, disk, app, Party, Flow
  <1>1. ASSUME NEW p \in Party, ReadToken(p)
        PROVE  RefresherOwn' /\ UiOwn'
    BY <1>1, SMTT(20) DEF ReadToken
  <1>2. ASSUME NEW p \in Party, RevokeAll(p)
        PROVE  RefresherOwn' /\ UiOwn'
    BY <1>2, SMTT(20) DEF RevokeAll
  <1>3. ASSUME NEW p \in Party, Claim(p)
        PROVE  RefresherOwn' /\ UiOwn'
    BY <1>3, SMTT(20) DEF Claim
  <1>4. ASSUME NEW p \in Party, Create(p)
        PROVE  RefresherOwn' /\ UiOwn'
    BY <1>4, OwnCreate
  <1>5. ASSUME NEW p \in Party, Drop(p)
        PROVE  RefresherOwn' /\ UiOwn'
    BY <1>5, SMTT(20) DEF Drop
  <1>6. ASSUME NEW t \in Token, UseCopy(t)
        PROVE  RefresherOwn' /\ UiOwn'
    BY <1>6, SMTT(20) DEF UseCopy
  <1>7. ASSUME NEW f \in Flow, WriteAccess(f)
        PROVE  RefresherOwn' /\ UiOwn'
    BY <1>7, SMTT(20) DEF WriteAccess
  <1>8. ASSUME NEW f \in Flow, WriteRefresh(f)
        PROVE  RefresherOwn' /\ UiOwn'
    BY <1>8, SMTT(20) DEF WriteRefresh
  <1>9. ASSUME NEW f \in Flow, WriteOwner(f)
        PROVE  RefresherOwn' /\ UiOwn'
    BY <1>9, SMTT(20) DEF WriteOwner
  <1>10. ASSUME NEW f \in Flow, ClearAccess(f)
        PROVE  RefresherOwn' /\ UiOwn'
    BY <1>10, SMTT(20) DEF ClearAccess
  <1>11. ASSUME NEW f \in Flow, ClearRefresh(f)
        PROVE  RefresherOwn' /\ UiOwn'
    BY <1>11, SMTT(20) DEF ClearRefresh
  <1>12. ASSUME NEW f \in Flow, ClearOwner(f)
        PROVE  RefresherOwn' /\ UiOwn'
    BY <1>12, SMTT(20) DEF ClearOwner
  <1>13. ASSUME NEW f \in Flow, Answered(f)
        PROVE  RefresherOwn' /\ UiOwn'
    BY <1>13, SMTT(20) DEF Answered
  <1>14. ASSUME NEW f \in Flow, Lost(f)
        PROVE  RefresherOwn' /\ UiOwn'
    BY <1>14, SMTT(20) DEF Lost
  <1>15. ASSUME NEW u \in User, Login(u)
        PROVE  RefresherOwn' /\ UiOwn'
    BY <1>15, OwnLogin
  <1>16. ASSUME Logout
        PROVE  RefresherOwn' /\ UiOwn'
    BY <1>16, SMTT(20) DEF Logout
  <1>17. ASSUME Boot
        PROVE  RefresherOwn' /\ UiOwn'
    BY <1>17, SMTT(20) DEF Boot
  <1>18. ASSUME Refresh
        PROVE  RefresherOwn' /\ UiOwn'
    BY <1>18, SMTT(20) DEF Refresh
  <1>19. ASSUME Kill
        PROVE  RefresherOwn' /\ UiOwn'
    BY <1>19, SMTT(20) DEF Kill
  <1>20. CASE BeginReplay \/ ReplayToken \/ ReplayOwner \/ Retry \/ UNCHANGED vars
    BY <1>20, SMTT(20) DEF BeginReplay, ReplayToken, ReplayOwner, Retry, vars
  <1> QED
    BY <1>1, <1>2, <1>3, <1>4, <1>5, <1>6, <1>7, <1>8, <1>9, <1>10, <1>11, <1>12, <1>13,
       <1>14, <1>15, <1>16, <1>17, <1>18, <1>19, <1>20 DEF Next

-----------------------------------------------------------------------------
(* The keys *)

\* A step of the refresher that does not cross found the session it was begun with.
LEMMA NotCrossed ==
    ASSUME NEW t, Crossing("refresher", t), ~crossed'
    PROVE  ~crossed /\ flow["ui"] = "idle" /\ refresh = t
  BY DEF Crossing

\* The refresher stores the access token of the user that is stored.
LEMMA RefresherWritesAccess ==
    ASSUME IInv, StorageInv, WriteAccess("refresher"), ~crossed'
    PROVE  UiHalf' /\ RefresherHalf'
  <1>1. ~crossed /\ flow["ui"] = "idle" /\ refresh = tok["refresher"]
    BY NotCrossed DEF WriteAccess
  <1>2. flow' = [flow EXCEPT !["refresher"] = "writeRefresh"] /\ flow["refresher"] = "writeAccess"
    BY DEF WriteAccess, Step
  <1>3. access' = user[refresh] /\ UNCHANGED <<tokens, asked, refresh, owner, mode>>
    BY <1>1, <1>2 DEF WriteAccess, StorageInv, RefresherOwn
  <1>4. flow'["ui"] = "idle" /\ flow'["refresher"] = "writeRefresh"
    BY <1>1, <1>2 DEF IInv, TypeOK, Flow
  <1>5. UiHalf'
    BY <1>1, <1>3, <1>4 DEF StorageInv, UiHalf, asked
  <1>6. OneSession
    BY <1>1, <1>2 DEF StorageInv, RefresherHalf
  <1>7. OneSession'
    <2>1. refresh # NoToken
      BY <1>1, <1>2, SessionsAssumption DEF StorageInv, RefresherOwn, Issued
    <2> QED
      BY <1>3, <1>6, <2>1 DEF OneSession, tokens
  <1> QED
    BY <1>4, <1>5, <1>7 DEF RefresherHalf

\* With the refresh token the storage tells of one session again.
LEMMA RefresherWritesRefresh ==
    ASSUME IInv, StorageInv, WriteRefresh("refresher"), ~crossed'
    PROVE  UiHalf' /\ RefresherHalf'
  <1>1. ~crossed /\ flow["ui"] = "idle" /\ refresh = tok["refresher"]
    BY NotCrossed DEF WriteRefresh
  <1>2. /\ flow' = [flow EXCEPT !["refresher"] = "idle"] /\ flow["refresher"] = "writeRefresh"
        /\ mode' = mode
    BY DEF WriteRefresh, Step, Ended
  <1>3. refresh' = got["refresher"] /\ UNCHANGED <<tokens, asked, access, owner>>
    BY <1>1, <1>2 DEF WriteRefresh, StorageInv, RefresherOwn
  <1>4. flow'["ui"] = "idle" /\ flow'["refresher"] = "idle"
    BY <1>1, <1>2 DEF IInv, TypeOK, Flow
  <1>5. refresh # NoToken /\ refresh' # NoToken
    BY <1>1, <1>2, <1>3, SessionsAssumption
       DEF StorageInv, RefresherOwn, Issued, IInv, AnswersIssued, Flow
  <1>6. mode # "out"
    BY <1>1, <1>5 DEF StorageInv, UiHalf
  <1>7. OneSession
    BY <1>1, <1>2 DEF StorageInv, RefresherHalf
  <1>8. user[refresh'] = user[refresh]
    BY <1>1, <1>2, <1>3 DEF StorageInv, RefresherOwn
  <1>9. OneSession'
    BY <1>3, <1>5, <1>7, <1>8 DEF OneSession, tokens
  <1>10. UiHalf'
    BY <1>2, <1>4, <1>6 DEF UiHalf
  <1> QED
    BY <1>4, <1>9, <1>10 DEF RefresherHalf

\* A failed refresh deletes the session it was begun with, key by key.
LEMMA RefresherClears ==
    ASSUME IInv, StorageInv, ~crossed',
           ClearAccess("refresher") \/ ClearRefresh("refresher") \/ ClearOwner("refresher")
    PROVE  UiHalf' /\ RefresherHalf'
  <1>1. UNCHANGED <<tokens, asked, mode>>
    BY DEF ClearAccess, ClearRefresh, ClearOwner, Ended
  <1>2. CASE ClearAccess("refresher")
    <2>1. ~crossed /\ flow["ui"] = "idle" /\ refresh = tok["refresher"]
      BY <1>2, NotCrossed DEF ClearAccess
    <2>2. flow'["ui"] = "idle" /\ flow'["refresher"] = "clearRefresh"
      BY <1>2, <2>1 DEF IInv, TypeOK, Flow, ClearAccess, Step
    <2>3. access' = NoUser /\ UNCHANGED <<refresh, owner>>
      BY <1>2 DEF ClearAccess
    <2>4. UiHalf'
      BY <1>1, <2>1, <2>2, <2>3 DEF StorageInv, UiHalf
    <2>5. RefresherHalf'
      BY <1>1, <2>1, <2>2, <2>3 DEF RefresherHalf, asked
    <2> QED
      BY <2>4, <2>5
  <1>3. CASE ClearRefresh("refresher")
    <2>1. ~crossed /\ flow["ui"] = "idle" /\ refresh = tok["refresher"]
      BY <1>3, NotCrossed DEF ClearRefresh
    <2>2. /\ flow'["ui"] = "idle" /\ flow'["refresher"] = "clearOwner"
          /\ flow["refresher"] = "clearRefresh"
      BY <1>3, <2>1 DEF IInv, TypeOK, Flow, ClearRefresh, Step
    <2>3. refresh' = NoToken /\ UNCHANGED <<access, owner>>
      BY <1>3 DEF ClearRefresh
    <2>4. UiHalf'
      BY <1>1, <2>2, <2>3 DEF UiHalf
    <2>5. access = NoUser
      BY <2>1, <2>2 DEF StorageInv, RefresherHalf
    <2>6. RefresherHalf'
      BY <2>2, <2>3, <2>5 DEF RefresherHalf
    <2> QED
      BY <2>4, <2>6
  <1>4. CASE ClearOwner("refresher")
    <2>1. ~crossed /\ flow["ui"] = "idle" /\ refresh = NoToken
      BY <1>4, NotCrossed DEF ClearOwner
    <2>2. /\ flow'["ui"] = "idle" /\ flow'["refresher"] = "idle"
          /\ flow["refresher"] = "clearOwner"
      BY <1>4, <2>1 DEF IInv, TypeOK, Flow, ClearOwner, Step, Ended
    <2>3. owner' = NoUser /\ UNCHANGED <<access, refresh>>
      BY <1>4 DEF ClearOwner
    <2>4. UiHalf'
      BY <2>1, <2>2, <2>3 DEF UiHalf
    <2>5. access = NoUser
      BY <2>1, <2>2 DEF StorageInv, RefresherHalf, OneSession
    <2>6. RefresherHalf'
      BY <2>1, <2>2, <2>3, <2>5 DEF RefresherHalf, OneSession
    <2> QED
      BY <2>4, <2>6
  <1> QED
    BY <1>2, <1>3, <1>4

\* Every step that does not cross keeps what is written and deleted so far.
LEMMA HalfStep ==
    ASSUME IInv, StorageInv, [Next]_vars
    PROVE  ~crossed' => UiHalf' /\ RefresherHalf'
  <1> USE SessionsAssumption
  <1> USE DEF IInv, TypeOK, AnswersIssued, AskedIssued, ClaimsExclusive, StorageInv
  <1> USE DEF RefresherOwn, UiOwn, Issued, Live, Ask, AskUnlessEmpty, Advance, Step, Ended
  <1> USE DEF Crossing, Booted, tokens, asked, disk, app, Party, Flow
  <1> USE DEF UiHalf, RefresherHalf, OneSession
  <1>1. ASSUME NEW p \in Party, ReadToken(p)
        PROVE  ~crossed' => UiHalf' /\ RefresherHalf'
    BY <1>1, SMTT(20) DEF ReadToken
  <1>2. ASSUME NEW p \in Party, RevokeAll(p)
        PROVE  ~crossed' => UiHalf' /\ RefresherHalf'
    BY <1>2, SMTT(20) DEF RevokeAll
  <1>3. ASSUME NEW p \in Party, Claim(p)
        PROVE  ~crossed' => UiHalf' /\ RefresherHalf'
    BY <1>3, SMTT(20) DEF Claim
  <1>4. ASSUME NEW p \in Party, Create(p)
        PROVE  ~crossed' => UiHalf' /\ RefresherHalf'
    BY <1>4, SMTT(20) DEF Create
  <1>5. ASSUME NEW p \in Party, Drop(p)
        PROVE  ~crossed' => UiHalf' /\ RefresherHalf'
    BY <1>5, SMTT(20) DEF Drop
  <1>6. ASSUME NEW t \in Token, UseCopy(t)
        PROVE  ~crossed' => UiHalf' /\ RefresherHalf'
    BY <1>6, SMTT(20) DEF UseCopy
  <1>7. ASSUME NEW f \in Flow, WriteAccess(f)
        PROVE  ~crossed' => UiHalf' /\ RefresherHalf'
    <2>1. CASE f = "refresher"
      BY <1>7, <2>1, RefresherWritesAccess
    <2>2. CASE f = "ui"
      BY <1>7, <2>2, SMTT(20) DEF WriteAccess
    <2> QED
      BY <2>1, <2>2
  <1>8. ASSUME NEW f \in Flow, WriteRefresh(f)
        PROVE  ~crossed' => UiHalf' /\ RefresherHalf'
    <2>1. CASE f = "refresher"
      BY <1>8, <2>1, RefresherWritesRefresh
    <2>2. CASE f = "ui"
      BY <1>8, <2>2, SMTT(20) DEF WriteRefresh
    <2> QED
      BY <2>1, <2>2
  <1>9. ASSUME NEW f \in Flow, WriteOwner(f)
        PROVE  ~crossed' => UiHalf' /\ RefresherHalf'
    BY <1>9, SMTT(20) DEF WriteOwner
  <1>10. ASSUME NEW f \in Flow, ClearAccess(f)
        PROVE  ~crossed' => UiHalf' /\ RefresherHalf'
    <2>1. CASE f = "refresher"
      BY <1>10, <2>1, RefresherClears
    <2>2. CASE f = "ui"
      BY <1>10, <2>2, SMTT(20) DEF ClearAccess
    <2> QED
      BY <2>1, <2>2
  <1>11. ASSUME NEW f \in Flow, ClearRefresh(f)
        PROVE  ~crossed' => UiHalf' /\ RefresherHalf'
    <2>1. CASE f = "refresher"
      BY <1>11, <2>1, RefresherClears
    <2>2. CASE f = "ui"
      BY <1>11, <2>2, SMTT(20) DEF ClearRefresh
    <2> QED
      BY <2>1, <2>2
  <1>12. ASSUME NEW f \in Flow, ClearOwner(f)
        PROVE  ~crossed' => UiHalf' /\ RefresherHalf'
    <2>1. CASE f = "refresher"
      BY <1>12, <2>1, RefresherClears
    <2>2. CASE f = "ui"
      BY <1>12, <2>2, SMTT(20) DEF ClearOwner
    <2> QED
      BY <2>1, <2>2
  <1>13. ASSUME NEW f \in Flow, Answered(f)
        PROVE  ~crossed' => UiHalf' /\ RefresherHalf'
    BY <1>13, SMTT(20) DEF Answered
  <1>14. ASSUME NEW f \in Flow, Lost(f)
        PROVE  ~crossed' => UiHalf' /\ RefresherHalf'
    BY <1>14, SMTT(20) DEF Lost
  <1>15. ASSUME NEW u \in User, Login(u)
        PROVE  ~crossed' => UiHalf' /\ RefresherHalf'
    BY <1>15, SMTT(20) DEF Login
  <1>16. ASSUME Logout
        PROVE  ~crossed' => UiHalf' /\ RefresherHalf'
    BY <1>16, SMTT(20) DEF Logout
  <1>17. ASSUME Boot
        PROVE  ~crossed' => UiHalf' /\ RefresherHalf'
    BY <1>17, SMTT(20) DEF Boot
  <1>18. ASSUME Refresh
        PROVE  ~crossed' => UiHalf' /\ RefresherHalf'
    BY <1>18, SMTT(20) DEF Refresh
  <1>19. ASSUME Kill
        PROVE  ~crossed' => UiHalf' /\ RefresherHalf'
    BY <1>19, SMTT(20) DEF Kill
  <1>20. CASE BeginReplay \/ ReplayToken \/ ReplayOwner \/ Retry \/ UNCHANGED vars
    BY <1>20, SMTT(20) DEF BeginReplay, ReplayToken, ReplayOwner, Retry, vars
  <1> QED
    BY <1>1, <1>2, <1>3, <1>4, <1>5, <1>6, <1>7, <1>8, <1>9, <1>10, <1>11, <1>12, <1>13,
       <1>14, <1>15, <1>16, <1>17, <1>18, <1>19, <1>20 DEF Next

-----------------------------------------------------------------------------
(* Live tokens *)

\* Without faults no refresh fails over the session it was begun with.
LEMMA LiveRefresherClears ==
    ASSUME IInv, StorageInv, LiveInv, ClearAccess("refresher")
    PROVE  LiveInv'
  <1>1. UNCHANGED <<tokens, asked, mode, faults>> /\ flow["refresher"] = "clearAccess"
    BY DEF ClearAccess
  <1>2. flow' = [flow EXCEPT !["refresher"] = "clearRefresh"]
    BY DEF ClearAccess, Step
  <1>3. faults = 0 => crossed'
    <2>1. SUFFICES ASSUME faults = 0, ~crossed' PROVE FALSE
      BY Zenon
    <2>2. ~crossed /\ flow["ui"] = "idle" /\ refresh = tok["refresher"]
      BY <2>1, NotCrossed DEF ClearAccess
    <2> QED
      BY <1>1, <2>1, <2>2 DEF LiveInv
  <1>4. \A f \in Flow : faults = 0 /\ pc'[f] # "idle" => flow'[f] = "wait"
    BY <1>1, <1>2 DEF IInv, TypeOK, LiveInv, Flow, asked
  <1> QED
    BY <1>1, <1>3, <1>4 DEF LiveInv, asked

\* The token a refresh stores is the live one it was answered with.
LEMMA LiveRefresherWrites ==
    ASSUME IInv, StorageInv, LiveInv, WriteRefresh("refresher")
    PROVE  LiveInv'
  <1>1. UNCHANGED <<tokens, asked, faults>> /\ flow["refresher"] = "writeRefresh"
    BY DEF WriteRefresh
  <1>2. /\ flow' = [flow EXCEPT !["refresher"] = "idle"] /\ mode' = mode
        /\ refresh' = got["refresher"]
    BY DEF WriteRefresh, Step, Ended
  <1>3. flow'["refresher"] = "idle" /\ flow'["ui"] = flow["ui"]
    BY <1>1, <1>2 DEF IInv, TypeOK, Flow
  <1>4. \A f \in Flow : faults = 0 /\ pc'[f] # "idle" => flow'[f] = "wait"
    BY <1>1, <1>2 DEF IInv, TypeOK, LiveInv, Flow, asked
  <1>5. ASSUME faults = 0, ~crossed'
        PROVE  flow["ui"] = "idle" /\ IsLive(got["refresher"])
    <2>1. ~crossed /\ flow["ui"] = "idle" /\ refresh = tok["refresher"]
      BY <1>5, NotCrossed DEF WriteRefresh
    <2> QED
      BY <1>1, <1>5, <2>1 DEF LiveInv
  <1>6. faults = 0 /\ ~crossed' =>
          flow'["ui"] = "idle" /\ state'[refresh'] = "live" /\ refresh' # NoToken
    BY <1>1, <1>2, <1>3, <1>5 DEF IsLive, tokens
  <1> QED
    BY <1>1, <1>2, <1>3, <1>4, <1>6 DEF LiveInv, IsLive, asked

\* Every step without a fault keeps the stored token live.
LEMMA LiveStep ==
    ASSUME IInv, StorageInv, LiveInv, [Next]_vars
    PROVE  LiveInv'
  <1> USE SessionsAssumption
  <1> USE DEF IInv, TypeOK, AnswersIssued, AskedIssued, ClaimsExclusive, StorageInv
  <1> USE DEF RefresherOwn, UiOwn, Issued, Live, Ask, AskUnlessEmpty, Advance, Step, Ended
  <1> USE DEF Crossing, Booted, tokens, asked, disk, app, Party, Flow
  <1> USE DEF UiHalf, RefresherHalf, OneSession
  <1> USE DEF LiveInv, IsLive
  <1>1. ASSUME NEW p \in Party, ReadToken(p)
        PROVE  LiveInv'
    BY <1>1, SMTT(20) DEF ReadToken
  <1>2. ASSUME NEW p \in Party, RevokeAll(p)
        PROVE  LiveInv'
    BY <1>2, SMTT(20) DEF RevokeAll
  <1>3. ASSUME NEW p \in Party, Claim(p)
        PROVE  LiveInv'
    BY <1>3, SMTT(20) DEF Claim
  <1>4. ASSUME NEW p \in Party, Create(p)
        PROVE  LiveInv'
    BY <1>4, SMTT(20) DEF Create
  <1>5. ASSUME NEW p \in Party, Drop(p)
        PROVE  LiveInv'
    BY <1>5, SMTT(20) DEF Drop
  <1>6. ASSUME NEW t \in Token, UseCopy(t)
        PROVE  LiveInv'
    BY <1>6, SMTT(20) DEF UseCopy
  <1>7. ASSUME NEW f \in Flow, WriteAccess(f)
        PROVE  LiveInv'
    BY <1>7, SMTT(20) DEF WriteAccess
  <1>8. ASSUME NEW f \in Flow, WriteRefresh(f)
        PROVE  LiveInv'
    <2>1. CASE f = "refresher"
      BY <1>8, <2>1, LiveRefresherWrites
    <2>2. CASE f = "ui"
      BY <1>8, <2>2, SMTT(20) DEF WriteRefresh
    <2> QED
      BY <2>1, <2>2
  <1>9. ASSUME NEW f \in Flow, WriteOwner(f)
        PROVE  LiveInv'
    BY <1>9, SMTT(20) DEF WriteOwner
  <1>10. ASSUME NEW f \in Flow, ClearAccess(f)
        PROVE  LiveInv'
    <2>1. CASE f = "refresher"
      BY <1>10, <2>1, LiveRefresherClears
    <2>2. CASE f = "ui"
      BY <1>10, <2>2, SMTT(20) DEF ClearAccess
    <2> QED
      BY <2>1, <2>2
  <1>11. ASSUME NEW f \in Flow, ClearRefresh(f)
        PROVE  LiveInv'
    BY <1>11, SMTT(20) DEF ClearRefresh
  <1>12. ASSUME NEW f \in Flow, ClearOwner(f)
        PROVE  LiveInv'
    BY <1>12, SMTT(20) DEF ClearOwner
  <1>13. ASSUME NEW f \in Flow, Answered(f)
        PROVE  LiveInv'
    BY <1>13, SMTT(20) DEF Answered
  <1>14. ASSUME NEW f \in Flow, Lost(f)
        PROVE  LiveInv'
    BY <1>14, SMTT(20) DEF Lost
  <1>15. ASSUME NEW u \in User, Login(u)
        PROVE  LiveInv'
    BY <1>15, SMTT(20) DEF Login
  <1>16. ASSUME Logout
        PROVE  LiveInv'
    BY <1>16, SMTT(20) DEF Logout
  <1>17. ASSUME Boot
        PROVE  LiveInv'
    BY <1>17, SMTT(20) DEF Boot
  <1>18. ASSUME Refresh
        PROVE  LiveInv'
    BY <1>18, SMTT(20) DEF Refresh
  <1>19. ASSUME Kill
        PROVE  LiveInv'
    BY <1>19, SMTT(20) DEF Kill
  <1>20. CASE BeginReplay \/ ReplayToken \/ ReplayOwner \/ Retry \/ UNCHANGED vars
    BY <1>20, SMTT(20) DEF BeginReplay, ReplayToken, ReplayOwner, Retry, vars
  <1> QED
    BY <1>1, <1>2, <1>3, <1>4, <1>5, <1>6, <1>7, <1>8, <1>9, <1>10, <1>11, <1>12, <1>13,
       <1>14, <1>15, <1>16, <1>17, <1>18, <1>19, <1>20 DEF Next

-----------------------------------------------------------------------------

LEMMA StoredInitial == Init => StorageInv /\ LiveInv
  BY DEF Init, StorageInv, LiveInv, RefresherOwn, UiOwn, UiHalf, RefresherHalf, OneSession,
         Party, Flow

LEMMA StoredInductive == IInv /\ StorageInv /\ LiveInv /\ [Next]_vars => (StorageInv /\ LiveInv)'
  BY OwnStep, HalfStep, LiveStep DEF StorageInv

LEMMA StoredInvariance == Spec => [](StorageInv /\ LiveInv)
  BY StoredInitial, StoredInductive, Invariance, PTL DEF Spec

\* However login, logout and a refresh interleave between the three writes or deletes
\* (auth_repository.dart:94, auth_tenant_interceptor.dart:151), at rest the storage
\* holds one session or none, unless a refresh has ended over a changing session.
THEOREM StoredSession == Spec => []StoredSessionIsOne
  <1>1. StorageInv => StoredSessionIsOne
    BY DEF StorageInv, RefresherHalf, OneSession, StoredSessionIsOne, Quiet, Flow
  <1> QED
    BY <1>1, StoredInvariance, PTL

\* Without faults and crossings a user is never logged out by a rotated token
\* (auth.service.ts:64): at rest the stored refresh token is live.
THEOREM SessionLives == Spec => []SessionSurvives
  <1>1. LiveInv => SessionSurvives
    BY DEF LiveInv, IsLive, SessionSurvives, Quiet, Flow
  <1> QED
    BY <1>1, StoredInvariance, PTL
=============================================================================
