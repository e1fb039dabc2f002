--------------------------- MODULE RealtimeProofs ---------------------------
(* Safety theorems about Realtime, for any number of sockets, tenants,       *)
(* changes and faults.                                                       *)
EXTENDS Realtime, TLAPS

\* No more events are on their way than there were changes.
Counted == /\ \A t \in Tenant : version[t] <= changes
           /\ \A s \in Socket : inbox[s] <= changes

\* Unless connect() began while a choice was being written, no choice is being written
\* while its generation lasts: to choose a tenant the application gives it up first.  So
\* the tenant that it has read is still the selected one, or the session has been cleared.
ChoiceIsDone ==
    \A s \in Socket : s = current /\ s \notin early =>
        /\ choosing = {}
        /\ cli[s] \in {"read", "dialing", "up"} => room[s] = selected \/ selected = NoTenant

OnlyCurrent == \A s \in Socket : cli[s] \in {"dialing", "up"} => s = current

CurrentIsEnabled == current # NoSocket => enabled

\* The server knows only sockets that the application has opened.
ServerKnows == \A s \in Socket : srv[s] # "none" => cli[s] \in {"dialing", "up", "gone"}

\* Who has passed the check is a member, or is remembered as late.
AdmittedIsMember ==
    \A s \in Socket : srv[s] = "admitted" => active[room[s]] \/ s \in late

IInv == /\ TypeOK /\ Counted /\ ChoiceIsDone /\ OnlyCurrent /\ CurrentIsEnabled /\ ServerKnows
        /\ AdmittedIsMember /\ StatusIsOfCurrent /\ RoomIsOfMembers

LEMMA Initial == Init => IInv
  <1> SUFFICES ASSUME Init PROVE IInv
    OBVIOUS
  <1>1. 0 \in 0..MaxChanges /\ 0 \in 0..MaxFaults
    BY RealtimeAssumption
  <1>2. /\ cli \in [Socket -> {"none", "asked", "token", "read", "dialing", "up", "gone"}]
        /\ srv \in [Socket -> {"none", "checking", "admitted", "joined"}]
        /\ room \in [Socket -> Tenant \cup {NoTenant}]
        /\ carries \in [Socket -> Tokens]
        /\ active \in [Tenant -> BOOLEAN]
    BY DEF Init, Tokens
  <1>3. version \in [Tenant -> 0..MaxChanges] /\ inbox \in [Socket -> 0..MaxChanges]
    BY <1>1 DEF Init
  <1>4. /\ evicting \subseteq Tenant /\ late \subseteq Socket /\ early \subseteq Socket
        /\ answer \in Orders /\ shown \in Orders /\ token \in Tokens
    BY <1>1 DEF Init, Orders, Nothing, Tokens
  <1>5. TypeOK
    BY <1>1, <1>2, <1>3, <1>4 DEF Init, TypeOK
  <1>6. Counted /\ ChoiceIsDone /\ OnlyCurrent /\ CurrentIsEnabled /\ ServerKnows
    BY DEF Init, Counted, ChoiceIsDone, OnlyCurrent, CurrentIsEnabled, ServerKnows
  <1>7. AdmittedIsMember /\ StatusIsOfCurrent /\ RoomIsOfMembers
    BY DEF Init, AdmittedIsMember, StatusIsOfCurrent, RoomIsOfMembers
  <1> QED
    BY <1>5, <1>6, <1>7 DEF IInv

-----------------------------------------------------------------------------
(* What the application does to its sockets *)

LEMMA DisposedType ==
    ASSUME TypeOK
    PROVE  /\ Disposed \in [Socket -> {"none", "asked", "token", "read", "dialing", "up", "gone"}]
           /\ \A s \in Socket :
                 /\ Disposed[s] \notin {"dialing", "up"}
                 /\ cli[s] \in {"none", "asked", "token", "read", "gone"} => Disposed[s] = cli[s]
                 /\ cli[s] \in {"dialing", "up"} => Disposed[s] = "gone"
BY DEF TypeOK, Disposed

LEMMA ConnectStep ==
    ASSUME IInv, Connect, TypeOK', UNCHANGED <<session, server, changes>>
    PROVE  IInv'
  <1> USE RealtimeAssumption
  <1>1. TypeOK
    BY DEF IInv
  <1>2. PICK s \in Socket : /\ Free(s) /\ current' = s
                            /\ cli' = [Disposed EXCEPT ![s] = "asked"]
                            /\ early' = IF choosing = {} THEN early ELSE early \cup {s}
    BY DEF Connect
  <1>3. enabled' = TRUE /\ status' = "connecting" /\ room' = room
    BY DEF Connect
  <1>4. /\ cli'[s] = "asked"
        /\ \A q \in Socket \ {s} :
              /\ cli'[q] \notin {"dialing", "up"}
              /\ cli[q] \in {"none", "asked", "token", "read", "gone"} => cli'[q] = cli[q]
              /\ cli[q] \in {"dialing", "up"} => cli'[q] = "gone"
    BY <1>1, <1>2, DisposedType
  <1>5. Counted'
    BY DEF IInv, Counted, server
  <1>6. ChoiceIsDone' /\ OnlyCurrent' /\ CurrentIsEnabled' /\ StatusIsOfCurrent'
    BY <1>2, <1>3, <1>4 DEF ChoiceIsDone, OnlyCurrent, CurrentIsEnabled, StatusIsOfCurrent, session
  <1>7. ServerKnows'
    BY <1>1, <1>2, <1>4 DEF IInv, TypeOK, ServerKnows, Free, server
  <1>8. AdmittedIsMember' /\ RoomIsOfMembers'
    BY <1>3 DEF IInv, AdmittedIsMember, RoomIsOfMembers, server
  <1> QED
    BY <1>5, <1>6, <1>7, <1>8 DEF IInv

\* disconnect(), whatever becomes of the session.
LEMMA DisconnectStep ==
    ASSUME IInv, Disconnect, TypeOK', UNCHANGED <<server, changes>>
    PROVE  IInv'
  <1> USE RealtimeAssumption
  <1>1. TypeOK
    BY DEF IInv
  <1>2. /\ current' = NoSocket /\ cli' = Disposed /\ status' = "disconnected" /\ room' = room
    BY DEF Disconnect, Stop
  <1>3. /\ Counted' /\ ChoiceIsDone' /\ OnlyCurrent' /\ CurrentIsEnabled'
        /\ StatusIsOfCurrent'
    BY <1>1, <1>2, DisposedType DEF IInv, Counted, ChoiceIsDone, OnlyCurrent, CurrentIsEnabled,
       StatusIsOfCurrent, server
  <1>4. ServerKnows'
    BY <1>1, <1>2, DisposedType DEF IInv, TypeOK, ServerKnows, server
  <1>5. AdmittedIsMember' /\ RoomIsOfMembers'
    BY <1>2 DEF IInv, AdmittedIsMember, RoomIsOfMembers, server
  <1> QED
    BY <1>3, <1>4, <1>5 DEF IInv

LEMMA DialStep ==
    ASSUME IInv, NEW s \in Socket, Dial(s)
    PROVE  IInv'
  <1> USE RealtimeAssumption DEF IInv
  <1>1. TypeOK
    OBVIOUS
  <1>2. cli[s] = "read" /\ UNCHANGED <<session, display, active, evicting, version, inbox, late, bounds>>
    BY DEF Dial
  <1>3. CASE /\ s = current
             /\ cli' = [cli EXCEPT ![s] = "dialing"] /\ srv' = [srv EXCEPT ![s] = "checking"]
             /\ UNCHANGED <<enabled, current, room, carries, retry, status, early>>
    BY <1>2, <1>3 DEF TypeOK, Counted, ChoiceIsDone, OnlyCurrent, CurrentIsEnabled, ServerKnows,
       AdmittedIsMember, StatusIsOfCurrent, RoomIsOfMembers, session, display, bounds
  <1>4. CASE s # current /\ cli' = [cli EXCEPT ![s] = "gone"]
             /\ UNCHANGED <<srv, enabled, current, room, carries, retry, status, early>>
    BY <1>2, <1>4 DEF TypeOK, Counted, ChoiceIsDone, OnlyCurrent, CurrentIsEnabled, ServerKnows,
       AdmittedIsMember, StatusIsOfCurrent, RoomIsOfMembers, session, display, bounds
  <1>5. CASE Stop /\ cli' = [Disposed EXCEPT ![s] = "gone"] /\ UNCHANGED srv
    <2>1. /\ current' = NoSocket /\ enabled' = FALSE /\ retry' = FALSE /\ status' = "disconnected"
          /\ UNCHANGED <<room, carries, early, srv>>
      BY <1>5 DEF Stop
    <2>2. /\ cli' \in [Socket -> {"none", "asked", "token", "read", "dialing", "up", "gone"}]
          /\ \A q \in Socket : cli'[q] \notin {"dialing", "up"}
          /\ \A q \in Socket : cli[q] \in {"dialing", "up", "gone"} => cli'[q] = "gone"
      BY <1>1, <1>5, DisposedType
    <2>3. TypeOK'
      BY <1>1, <1>2, <2>1, <2>2 DEF TypeOK, session, display, bounds
    <2>4. Counted' /\ ChoiceIsDone' /\ OnlyCurrent' /\ CurrentIsEnabled' /\ StatusIsOfCurrent'
      BY <1>2, <2>1, <2>2 DEF Counted, ChoiceIsDone, OnlyCurrent, CurrentIsEnabled,
         StatusIsOfCurrent, bounds
    <2>5. ServerKnows' /\ AdmittedIsMember' /\ RoomIsOfMembers'
      BY <1>2, <2>1, <2>2 DEF ServerKnows, AdmittedIsMember, RoomIsOfMembers
    <2> QED
      BY <2>3, <2>4, <2>5
  <1> QED
    BY <1>3, <1>4, <1>5 DEF Dial

LEMMA SocketStepKeeps ==
    ASSUME IInv, NEW s \in Socket, SocketStep(s) \/ ReadFails(s)
    PROVE  IInv'
  <1> USE RealtimeAssumption
  <1>1. TypeOK
    BY DEF IInv
  <1>2. CASE ReadToken(s)
    BY <1>2 DEF IInv, TypeOK, Counted, ChoiceIsDone, OnlyCurrent, CurrentIsEnabled, ServerKnows,
       AdmittedIsMember, StatusIsOfCurrent, RoomIsOfMembers,
       ReadToken, session, display, server, bounds, Tokens
  <1>3. CASE ReadTenant(s)
    BY <1>3 DEF IInv, TypeOK, Counted, ChoiceIsDone, OnlyCurrent, CurrentIsEnabled, ServerKnows,
       AdmittedIsMember, StatusIsOfCurrent, RoomIsOfMembers,
       ReadTenant, session, display, server, bounds
  <1>4. CASE Dial(s)
    BY <1>4, DialStep
  <1>5. CASE OnConnect(s)
    <2>0. Nothing \in Orders
      BY DEF Orders, Nothing
    <2>1. /\ cli[s] = "dialing" /\ cli' = [cli EXCEPT ![s] = "up"]
          /\ retry' \in BOOLEAN /\ (status' = status \/ (s = current /\ status' = "connected"))
          /\ fetch' \in {"none", "asked", "answered"} /\ answer' \in Orders
          /\ UNCHANGED <<enabled, current, room, carries, early, session, screen, shown, server,
                         bounds>>
      BY <1>1, <1>5, <2>0 DEF OnConnect, Invalidate, TypeOK
    <2>2. TypeOK'
      BY <1>1, <2>1 DEF TypeOK, session, server, bounds
    <2> QED
      BY <1>1, <2>1, <2>2 DEF IInv, TypeOK, Counted, ChoiceIsDone, OnlyCurrent, CurrentIsEnabled,
         ServerKnows, AdmittedIsMember, StatusIsOfCurrent, RoomIsOfMembers, session, server, bounds
  <1>6. CASE OnEvent(s)
    <2>1. /\ inbox' = [inbox EXCEPT ![s] = @ - 1] /\ inbox[s] > 0
          /\ fetch' \in {"none", "asked", "answered"} /\ answer' \in Orders
          /\ UNCHANGED <<client, session, screen, shown, srv, active, evicting, version, late,
                         changes, faults>>
      BY <1>1, <1>6 DEF OnEvent, Invalidate, TypeOK, bounds, Orders, Nothing
    <2>2. /\ inbox' \in [Socket -> 0..MaxChanges]
          /\ \A q \in Socket : inbox'[q] <= inbox[q]
      BY <1>1, <2>1 DEF TypeOK
    <2>3. TypeOK'
      BY <1>1, <2>1, <2>2 DEF TypeOK, client, session
    <2>4. Counted'
      BY <1>1, <2>1, <2>2, <2>3 DEF IInv, TypeOK, Counted
    <2> QED
      BY <2>1, <2>3, <2>4 DEF IInv, ChoiceIsDone, OnlyCurrent, CurrentIsEnabled, ServerKnows,
         AdmittedIsMember, StatusIsOfCurrent, RoomIsOfMembers, client, session
  <1>7. CASE OnDisconnect(s)
    BY <1>7 DEF IInv, TypeOK, Counted, ChoiceIsDone, OnlyCurrent, CurrentIsEnabled, ServerKnows,
       AdmittedIsMember, StatusIsOfCurrent, RoomIsOfMembers,
       OnDisconnect, ScheduleRetry, session, display, server, bounds
  <1>8. CASE Forget(s)
    BY <1>8 DEF IInv, TypeOK, Counted, ChoiceIsDone, OnlyCurrent, CurrentIsEnabled, ServerKnows,
       AdmittedIsMember, StatusIsOfCurrent, RoomIsOfMembers,
       Forget, session, display, bounds, Tokens
  <1>9. CASE Check(s) \/ Join(s) \/ Leave(s)
    BY <1>9 DEF IInv, TypeOK, Counted, ChoiceIsDone, OnlyCurrent, CurrentIsEnabled, ServerKnows,
       AdmittedIsMember, StatusIsOfCurrent, RoomIsOfMembers,
       Check, Join, Leave, client, session, display, bounds
  <1>10. CASE ReadFails(s)
    BY <1>10 DEF IInv, TypeOK, Counted, ChoiceIsDone, OnlyCurrent, CurrentIsEnabled, ServerKnows,
       AdmittedIsMember, StatusIsOfCurrent, RoomIsOfMembers,
       ReadFails, Fault, ScheduleRetry, session, display, server
  <1> QED
    BY <1>2, <1>3, <1>4, <1>5, <1>6, <1>7, <1>8, <1>9, <1>10 DEF SocketStep

-----------------------------------------------------------------------------
(* The display, the session and the server *)

\* The tenant may be deleted at any time, but another is stored only while a choice
\* is being written.
LEMMA QuietStep ==
    ASSUME IInv, TypeOK', UNCHANGED <<enabled, current, cli, room, status, early, server, changes>>,
           choosing' \subseteq choosing,
           selected' = selected \/ selected' = NoTenant \/ choosing # {}
    PROVE  IInv'
BY DEF IInv, Counted, ChoiceIsDone, OnlyCurrent, CurrentIsEnabled, ServerKnows,
       AdmittedIsMember, StatusIsOfCurrent, RoomIsOfMembers, server

LEMMA DisplayKeeps ==
    ASSUME IInv, Poll \/ FetchFails \/ CloseDisplay \/ Answer \/ Show
    PROVE  IInv'
  <1> USE RealtimeAssumption
  <1>1. TypeOK
    BY DEF IInv
  <1>2. Nothing \in Orders
    BY DEF Orders, Nothing
  <1>3. \A t \in Tenant : [of |-> t, at |-> version[t]] \in Orders
    BY <1>1 DEF TypeOK, Orders
  <1>4. UNCHANGED <<client, session, server, changes>>
    BY DEF Poll, FetchFails, CloseDisplay, Answer, Show, Fault, bounds
  <1>5. CASE Poll \/ FetchFails \/ CloseDisplay
    <2>1. TypeOK'
      BY <1>1, <1>2, <1>4, <1>5 DEF Poll, FetchFails, CloseDisplay, Fault, Invalidate, Blank, TypeOK,
         client, session, server, bounds
    <2> QED
      BY <1>4, <2>1, QuietStep DEF client, session
  <1>6. CASE Answer
    <2>1. answer' \in Orders /\ fetch' \in {"none", "asked", "answered"}
      BY <1>1, <1>3, <1>6 DEF Answer, TypeOK
    <2>2. TypeOK'
      BY <1>1, <1>4, <1>6, <2>1 DEF Answer, TypeOK, client, session, server, bounds
    <2> QED
      BY <1>4, <2>2, QuietStep DEF client, session
  <1>7. CASE Show
    <2>1. TypeOK'
      BY <1>1, <1>2, <1>4, <1>7 DEF Show, TypeOK, client, session, server, bounds
    <2> QED
      BY <1>4, <2>1, QuietStep DEF client, session
  <1> QED
    BY <1>5, <1>6, <1>7

LEMMA SessionKeeps ==
    ASSUME IInv, \/ Expire \/ Refresh \/ RefreshFails \/ StorageStep \/ Login \/ Logout
                 \/ \E t \in Tenant : SwitchTenant(t)
    PROVE  IInv'
  <1> USE RealtimeAssumption
  <1>1. TypeOK
    BY DEF IInv
  <1>2. Nothing \in Orders
    BY DEF Orders, Nothing
  <1>3. CASE Expire
    <2>1. carries' \in [Socket -> Tokens]
      BY <1>1, <1>3 DEF Expire, TypeOK, Tokens
    <2>2. TypeOK'
      BY <1>1, <1>3, <2>1 DEF Expire, Fault, TypeOK, display, server, Tokens
    <2> QED
      BY <1>3, <2>2, QuietStep DEF Expire, Fault
  <1>4. CASE Refresh \/ RefreshFails \/ DeleteToken \/ Login
    <2>0. "fresh" \in Tokens /\ "none" \in Tokens
      BY DEF Tokens
    <2>1. TypeOK'
      <3>1. CASE Refresh
        BY <1>1, <2>0, <3>1 DEF Refresh, TypeOK, client, display, server, bounds
      <3>2. CASE RefreshFails
        BY <1>1, <2>0, <3>2 DEF RefreshFails, Fault, TypeOK, client, display, server
      <3>3. CASE DeleteToken
        BY <1>1, <2>0, <3>3 DEF DeleteToken, TypeOK, client, display, server, bounds
      <3>4. CASE Login
        BY <1>1, <2>0, <3>4 DEF Login, TypeOK, client, server, bounds
      <3> QED
        BY <1>4, <3>1, <3>2, <3>3, <3>4
    <2> QED
      BY <1>4, <2>1, QuietStep DEF Refresh, RefreshFails, DeleteToken, Login, Fault, client, bounds
  <1>5. CASE DeleteTenant
    <2>1. TypeOK'
      BY <1>1, <1>2, <1>5 DEF DeleteTenant, Blank, TypeOK, client, display, server, bounds
    <2> QED
      BY <1>5, <2>1, QuietStep DEF DeleteTenant, client, bounds
  <1>6. ASSUME NEW t \in Tenant, WriteTenant(t) PROVE IInv'
    <2>1. TypeOK'
      BY <1>1, <1>6 DEF WriteTenant, TypeOK, client, server, bounds
    <2> QED
      BY <1>6, <2>1, QuietStep DEF WriteTenant, client, bounds
  <1>7. CASE Logout \/ \E t \in Tenant : SwitchTenant(t)
    <2>1. Disconnect /\ UNCHANGED <<server, changes>>
      BY <1>7 DEF Logout, SwitchTenant, Fault
    <2>2. cli' \in [Socket -> {"none", "asked", "token", "read", "dialing", "up", "gone"}]
      BY <1>1, <2>1, DisposedType DEF Disconnect
    <2>3. /\ choosing' \subseteq Tenant /\ ending' \in {"none", "leaving", "left"}
          /\ faults' \in 0..MaxFaults
          /\ UNCHANGED <<token, selected, clearing, display>>
      BY <1>1, <1>7 DEF Logout, SwitchTenant, Fault, TypeOK
    <2>4. TypeOK'
      BY <1>1, <2>1, <2>2, <2>3 DEF Disconnect, Stop, TypeOK, display, server
    <2> QED
      BY <2>1, <2>4, DisconnectStep
  <1> QED
    BY <1>3, <1>4, <1>5, <1>6, <1>7 DEF StorageStep

LEMMA BreakStep ==
    ASSUME IInv, NEW s \in Socket, Break(s)
    PROVE  IInv'
BY RealtimeAssumption
   DEF IInv, TypeOK, Counted, ChoiceIsDone, CurrentIsEnabled, ServerKnows,
       AdmittedIsMember, OnlyCurrent, StatusIsOfCurrent, RoomIsOfMembers,
       Break, Fault, client, session, display

LEMMA ChangeStep ==
    ASSUME IInv, NEW t \in Tenant, Change(t)
    PROVE  IInv'
  <1> USE RealtimeAssumption
  <1>1. TypeOK /\ Counted
    BY DEF IInv
  <1>2. /\ changes' = changes + 1 /\ changes' \in 0..MaxChanges
        /\ version' = [version EXCEPT ![t] = @ + 1]
        /\ inbox' = [s \in Socket |-> IF srv[s] = "joined" /\ room[s] = t
                                      THEN inbox[s] + 1 ELSE inbox[s]]
        /\ UNCHANGED <<client, session, display, srv, active, evicting, late, faults>>
    BY <1>1 DEF Change, TypeOK
  <1>3. /\ version' \in [Tenant -> 0..MaxChanges] /\ inbox' \in [Socket -> 0..MaxChanges]
        /\ Counted'
    BY <1>1, <1>2 DEF TypeOK, Counted
  <1>4. TypeOK'
    BY <1>1, <1>2, <1>3 DEF TypeOK, client, session, display
  <1> QED
    BY <1>2, <1>3, <1>4 DEF IInv, ChoiceIsDone, CurrentIsEnabled, ServerKnows,
       AdmittedIsMember, OnlyCurrent, StatusIsOfCurrent, RoomIsOfMembers, client, session, display

LEMMA MembershipStep ==
    ASSUME IInv, NEW t \in Tenant, Deactivate(t) \/ Evict(t) \/ Reactivate(t)
    PROVE  IInv'
  <1> USE RealtimeAssumption
  <1>1. CASE Deactivate(t)
    BY <1>1 DEF IInv, TypeOK, Counted, ChoiceIsDone, CurrentIsEnabled, ServerKnows,
       AdmittedIsMember, OnlyCurrent, StatusIsOfCurrent, RoomIsOfMembers,
       Deactivate, Fault, client, session, display
  <1>2. CASE Evict(t)
    BY <1>2 DEF IInv, TypeOK, Counted, ChoiceIsDone, CurrentIsEnabled, ServerKnows,
       AdmittedIsMember, OnlyCurrent, StatusIsOfCurrent, RoomIsOfMembers,
       Evict, client, session, display, bounds
  <1>3. CASE Reactivate(t)
    BY <1>3 DEF IInv, TypeOK, Counted, ChoiceIsDone, CurrentIsEnabled, ServerKnows,
       AdmittedIsMember, OnlyCurrent, StatusIsOfCurrent, RoomIsOfMembers,
       Reactivate, Fault, client, session, display
  <1> QED
    BY <1>1, <1>2, <1>3

-----------------------------------------------------------------------------
(* The theorems *)

LEMMA NextStep ==
    ASSUME IInv, Next
    PROVE  IInv'
  <1> USE RealtimeAssumption
  <1>1. TypeOK
    BY DEF IInv
  <1>2. ASSUME NEW s \in Socket, SocketStep(s) \/ ReadFails(s) \/ Break(s) PROVE IInv'
    BY <1>2, SocketStepKeeps, BreakStep
  <1>3. CASE OpenDisplay \/ Retry \/ Resume
    <2>1. Connect /\ UNCHANGED <<session, server, changes>>
      BY <1>3 DEF OpenDisplay, Retry, Resume, Fault, bounds
    <2>2. /\ screen' \in {"dashboard", "display", "login", "choose"}
          /\ fetch' \in {"none", "asked", "answered"}
          /\ answer' \in Orders /\ shown' \in Orders /\ faults' \in 0..MaxFaults
      BY <1>1, <1>3 DEF OpenDisplay, Retry, Resume, Fault, Invalidate, display, bounds, TypeOK,
         Orders, Nothing
    <2>3. PICK s \in Socket : /\ current' = s /\ cli' = [Disposed EXCEPT ![s] = "asked"]
                              /\ early' = IF choosing = {} THEN early ELSE early \cup {s}
      BY <2>1 DEF Connect
    <2>4. /\ cli' \in [Socket -> {"none", "asked", "token", "read", "dialing", "up", "gone"}]
          /\ early' \subseteq Socket /\ current' \in Socket
      BY <1>1, <2>3, DisposedType DEF TypeOK
    <2>5. /\ enabled' = TRUE /\ retry' = FALSE /\ status' = "connecting"
          /\ UNCHANGED <<room, carries>>
      BY <2>1 DEF Connect
    <2>6. TypeOK'
      BY <1>1, <2>1, <2>2, <2>4, <2>5 DEF TypeOK, session, server
    <2> QED
      BY <2>1, <2>6, ConnectStep
  <1>4. CASE Poll \/ FetchFails \/ CloseDisplay \/ DisplayStep
    BY <1>4, DisplayKeeps, SessionKeeps DEF DisplayStep
  <1>5. CASE Expire \/ Refresh \/ RefreshFails \/ StorageStep \/ Login \/ Logout
    BY <1>5, SessionKeeps
  <1>6. ASSUME NEW t \in Tenant,
               SwitchTenant(t) \/ Change(t) \/ Deactivate(t) \/ Evict(t) \/ Reactivate(t)
        PROVE  IInv'
    BY <1>6, SessionKeeps, ChangeStep, MembershipStep
  <1> QED
    BY <1>2, <1>3, <1>4, <1>5, <1>6 DEF Next

LEMMA Invariant == Spec => []IInv
  <1>1. IInv /\ UNCHANGED vars => IInv'
    <2> SUFFICES ASSUME IInv, UNCHANGED vars PROVE IInv'
      OBVIOUS
    <2>1. TypeOK'
      BY DEF IInv, TypeOK, vars, client, session, display, server, bounds
    <2> QED
      BY <2>1, QuietStep DEF vars, client, session, server, bounds
  <1>2. IInv /\ [Next]_vars => IInv'
    BY <1>1, NextStep
  <1> QED
    BY <1>2, Initial, PTL DEF Spec

\* The variables of the socket, the session and the gateway keep their types.
THEOREM Types == Spec => []TypeOK
  <1>1. IInv => TypeOK
    BY DEF IInv
  <1> QED
    BY <1>1, Invariant, PTL

\* However calls of connect() overtake each other, one socket at most is open.  If
\* connect() did not begin in the middle of a choice of tenant, the socket is that of
\* the selected tenant until the selection is deleted.
THEOREM OneConnection == Spec => []OneSocketOfSelection
  <1>1. IInv => OneSocketOfSelection
    BY DEF IInv, OnlyCurrent, ChoiceIsDone, OneSocketOfSelection
  <1> QED
    BY <1>1, Invariant, PTL

\* "Connected" is said of the current socket only, once it has connected.
THEOREM StatusIsTrue == Spec => []StatusIsOfCurrent
  <1>1. IInv => StatusIsOfCurrent
    BY DEF IInv
  <1> QED
    BY <1>1, Invariant, PTL

\* A socket whose user is no member is about to be fetched from the room, or had
\* passed the check when the membership ended.
THEOREM RoomsAreOfMembers == Spec => []RoomIsOfMembers
  <1>1. IInv => RoomIsOfMembers
    BY DEF IInv
  <1> QED
    BY <1>1, Invariant, PTL

-----------------------------------------------------------------------------
(* No retry is forgotten *)

\* An application that wants the room runs the timer of the next attempt, or is in
\* the middle of an attempt (socket_service.dart): no order of callbacks of old and new
\* sockets leaves it disconnected with nothing to wake it.
NeverStranded ==
    enabled => retry \/ /\ current # NoSocket
                        /\ cli[current] \in {"asked", "token", "read", "dialing", "up"}

LEMMA ConnectTries ==
    ASSUME TypeOK, Connect
    PROVE  NeverStranded'
  <1>1. PICK s \in Socket : current' = s /\ cli' = [Disposed EXCEPT ![s] = "asked"]
    BY DEF Connect
  <1>2. cli'[s] = "asked" /\ s # NoSocket
    BY <1>1, DisposedType, RealtimeAssumption
  <1> QED
    BY <1>1, <1>2 DEF NeverStranded

LEMMA CallbackTries ==
    ASSUME TypeOK, NeverStranded, NEW s \in Socket, SocketStep(s) \/ ReadFails(s)
    PROVE  NeverStranded'
  <1>0. /\ cli \in [Socket -> {"none", "asked", "token", "read", "dialing", "up", "gone"}]
        /\ current \in Socket \cup {NoSocket} /\ enabled \in BOOLEAN /\ retry \in BOOLEAN
    BY DEF TypeOK
  <1> USE <1>0, RealtimeAssumption DEF NeverStranded
  <1>1. CASE ReadToken(s) \/ ReadTenant(s)
    BY <1>1 DEF ReadToken, ReadTenant
  <1>2. CASE Dial(s)
    BY <1>2 DEF Dial, Stop
  <1>3. CASE OnConnect(s)
    BY <1>3 DEF OnConnect
  <1>4. CASE OnEvent(s)
    BY <1>4 DEF OnEvent, client
  <1>5. CASE OnDisconnect(s)
    BY <1>5 DEF OnDisconnect, ScheduleRetry
  <1>6. CASE Forget(s)
    BY <1>6 DEF Forget
  <1>7. CASE Check(s) \/ Join(s) \/ Leave(s)
    BY <1>7 DEF Check, Join, Leave, client
  <1>8. CASE ReadFails(s)
    BY <1>8 DEF ReadFails, ScheduleRetry
  <1> QED
    BY <1>1, <1>2, <1>3, <1>4, <1>5, <1>6, <1>7, <1>8 DEF SocketStep

LEMMA TriesStep ==
    ASSUME TypeOK, NeverStranded, [Next]_vars
    PROVE  NeverStranded'
  <1>1. CASE UNCHANGED <<enabled, retry, current, cli>>
    BY <1>1 DEF NeverStranded
  <1>2. ASSUME NEW s \in Socket, SocketStep(s) \/ ReadFails(s) PROVE NeverStranded'
    BY <1>2, CallbackTries
  <1>3. CASE OpenDisplay \/ Retry \/ Resume
    BY <1>3, ConnectTries DEF OpenDisplay, Retry, Resume
  <1>4. CASE Logout \/ \E t \in Tenant : SwitchTenant(t)
    BY <1>4 DEF Logout, SwitchTenant, Disconnect, Stop, NeverStranded
  <1>5. CASE \/ \E s \in Socket : Break(s)
             \/ CloseDisplay \/ Poll \/ DisplayStep \/ FetchFails
             \/ Expire \/ Refresh \/ RefreshFails \/ StorageStep \/ Login
             \/ \E t \in Tenant : Change(t) \/ Deactivate(t) \/ Evict(t) \/ Reactivate(t)
    <2>1. UNCHANGED <<enabled, retry, current, cli>>
      BY <1>5 DEF Break, CloseDisplay, Poll, DisplayStep, Answer, Show, FetchFails, Change,
         Deactivate, Evict, Reactivate, Expire, Refresh, RefreshFails, StorageStep, DeleteToken,
         DeleteTenant, WriteTenant, Login, client
    <2> QED
      BY <1>1, <2>1
  <1> QED
    BY <1>1, <1>2, <1>3, <1>4, <1>5 DEF Next, vars, client

\* While the application is enabled, an attempt is under way, or the timer of the next runs.
THEOREM AttemptsGoOn == Spec => []NeverStranded
  <1>1. Init => NeverStranded
    BY DEF Init, NeverStranded
  <1>2. TypeOK /\ NeverStranded /\ [Next]_vars => NeverStranded'
    BY TriesStep
  <1> QED
    BY <1>1, <1>2, Types, PTL DEF Spec

-----------------------------------------------------------------------------
(* What the display shows is of the past, and goes forward *)

\* What is shown, and what is on its way to be shown, was true of its tenant; an answer
\* is never older than what it replaces.
Past ==
    /\ shown.of # NoTenant => shown.at <= version[shown.of]
    /\ answer.of # NoTenant => answer.at <= version[answer.of]
    /\ fetch = "answered" /\ shown.of = answer.of => shown.at <= answer.at
    /\ ~open => fetch = "none" /\ answer = Nothing /\ shown = Nothing

\* The orders of a tenant on the kitchen display never go back to an earlier state while
\* it stays open, whatever the order in which polls, events and answers reach it
\* (kds_screen.dart).
Forward == open /\ open' /\ shown.of = shown'.of => shown.at <= shown'.at
NeverGoesBack == [][Forward]_vars

LEMMA PastStep ==
    ASSUME TypeOK, Past, [Next]_vars
    PROVE  Past' /\ Forward
  <1> USE RealtimeAssumption
  <1>1. /\ version \in [Tenant -> Nat] /\ selected \in Tenant \cup {NoTenant}
        /\ answer.at \in Nat /\ shown.at \in Nat
        /\ answer.of \in Tenant \cup {NoTenant} /\ shown.of \in Tenant \cup {NoTenant}
        /\ Nothing.of = NoTenant /\ Nothing.at = 0
    BY DEF TypeOK, Orders, Nothing
  <1>2. CASE UNCHANGED <<screen, fetch, answer, shown, version>>
    BY <1>1, <1>2 DEF Past, Forward, open
  <1>3. CASE /\ UNCHANGED <<shown, version>> /\ open' /\ fetch' = "asked" /\ answer' = Nothing
    BY <1>1, <1>3 DEF Past, Forward
  <1>4. CASE ~open' /\ Blank /\ version' = version
    BY <1>1, <1>4 DEF Past, Forward, Blank
  <1>5. ASSUME NEW s \in Socket, SocketStep(s) \/ ReadFails(s) \/ Break(s)
        PROVE  Past' /\ Forward
    <2>1. CASE OnConnect(s) \/ OnEvent(s)
      BY <1>2, <1>3, <2>1 DEF OnConnect, OnEvent, Invalidate, server, open
    <2>2. CASE ~(OnConnect(s) \/ OnEvent(s))
      <3>1. UNCHANGED <<screen, fetch, answer, shown, version>>
        BY <1>5, <2>2 DEF SocketStep, ReadToken, ReadTenant, ReadFails, Dial, OnDisconnect, Forget,
           Check, Join, Leave, Break, display, server
      <3> QED
        BY <1>2, <3>1
    <2> QED
      BY <2>1, <2>2
  <1>6. CASE OpenDisplay \/ Poll
    BY <1>3, <1>6 DEF OpenDisplay, Poll, Invalidate, server, open
  <1>7. CASE CloseDisplay
    BY <1>4, <1>7 DEF CloseDisplay, server, open
  <1>8. CASE Answer
    <2>1. UNCHANGED <<screen, shown, version>> /\ fetch = "asked"
      BY <1>8 DEF Answer, server
    <2>2. CASE fetch' = "none" /\ answer' = answer
      BY <1>1, <2>1, <2>2 DEF Past, Forward, open
    <2>3. CASE /\ selected # NoTenant /\ fetch' = "answered"
               /\ answer' = [of |-> selected, at |-> version[selected]]
      <3>1. answer'.of = selected /\ answer'.at = version[selected] /\ open
        BY <2>1, <2>3 DEF Past
      <3> QED
        BY <1>1, <2>1, <2>3, <3>1 DEF Past, Forward, open
    <2> QED
      BY <1>8, <2>2, <2>3 DEF Answer
  <1>9. CASE Show
    <2>1. /\ fetch = "answered" /\ fetch' = "none" /\ shown' = answer /\ answer' = Nothing
          /\ UNCHANGED <<screen, version>>
      BY <1>9 DEF Show, server
    <2> QED
      BY <1>1, <2>1 DEF Past, Forward, open
  <1>10. CASE FetchFails
    <2>1. fetch' = "none" /\ UNCHANGED <<screen, answer, shown, version>>
      BY <1>10 DEF FetchFails, server
    <2> QED
      BY <1>1, <2>1 DEF Past, Forward, open
  <1>11. CASE \/ Retry \/ Resume \/ Expire \/ Refresh \/ RefreshFails \/ Logout \/ DeleteToken
              \/ \E t \in Tenant : SwitchTenant(t) \/ Deactivate(t) \/ Evict(t) \/ Reactivate(t)
    <2>1. UNCHANGED <<screen, fetch, answer, shown, version>>
      BY <1>11 DEF Retry, Resume, Expire, Refresh, RefreshFails, Logout, DeleteToken, SwitchTenant,
         Deactivate, Evict, Reactivate, display, server
    <2> QED
      BY <1>2, <2>1
  <1>12. CASE DeleteTenant
    BY <1>2, <1>4, <1>12 DEF DeleteTenant, display, server, open
  <1>13. CASE Login \/ \E t \in Tenant : WriteTenant(t)
    <2>1. UNCHANGED <<fetch, answer, shown, version>> /\ (open' <=> open)
      BY <1>13 DEF Login, WriteTenant, server, open
    <2> QED
      BY <1>1, <2>1 DEF Past, Forward
  <1>14. ASSUME NEW t \in Tenant, Change(t) PROVE Past' /\ Forward
    <2>1. /\ UNCHANGED <<screen, fetch, answer, shown>>
          /\ version' = [version EXCEPT ![t] = @ + 1]
      BY <1>14 DEF Change, display
    <2>2. \A u \in Tenant : version[u] <= version'[u] /\ version'[u] \in Nat
      BY <1>1, <2>1
    <2> QED
      BY <1>1, <2>1, <2>2 DEF Past, Forward, open
  <1> QED
    BY <1>2, <1>5, <1>6, <1>7, <1>8, <1>9, <1>10, <1>11, <1>12, <1>13, <1>14
       DEF Next, DisplayStep, StorageStep, vars, display, server

\* The display shows what the orders were, and never goes back to what it has replaced.
THEOREM ShownGoesForward == Spec => []Past /\ NeverGoesBack
  <1>1. Init => Past
    BY DEF Init, Past, Nothing
  <1>2. TypeOK /\ Past /\ [Next]_vars => Past'
    BY PastStep
  <1>3. TypeOK /\ Past /\ [Next]_vars => [Forward]_vars
    BY PastStep
  <1> QED
    BY <1>1, <1>2, <1>3, Types, PTL DEF Spec, NeverGoesBack
=============================================================================
