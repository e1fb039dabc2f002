------------------------------ MODULE Realtime ------------------------------
(***************************************************************************)
(* The kitchen display of one user and the room of its tenant: the socket  *)
(* of the application (socket_service.dart), the session it reads and the  *)
(* screens that change it (tenant_switch_screen.dart, dashboard_screen.dart, *)
(* auth_tenant_interceptor.dart), the gateway that admits the socket       *)
(* (orders.gateway.ts), the end of a membership (admin.controller.ts) and  *)
(* the list of orders the display shows (kds_screen.dart).                 *)
(*                                                                         *)
(* An attempt to connect is a socket s from the call of connect() until    *)
(* both ends have let go of it; "current" is the one of the latest         *)
(* generation.  The content of the orders of a tenant is the number of     *)
(* times it has changed.                                                   *)
(***************************************************************************)
EXTENDS Naturals, FiniteSets

CONSTANTS
    Socket, Tenant, NoSocket, NoTenant,
    MaxChanges,  \* bound on the changes of orders
    MaxFaults    \* bound on broken connections, failed requests and reads, on
                 \* what the user does besides opening the display, on expiries
                 \* of the token and on changes of the membership

ASSUME RealtimeAssumption ==
    /\ NoSocket \notin Socket /\ NoTenant \notin Tenant
    /\ MaxChanges \in Nat /\ MaxFaults \in Nat

VARIABLES
    \* the socket service
    enabled,   \* _enabled
    current,   \* the socket of _generation, NoSocket after disconnect()
    cli,       \* what the application knows of each socket
    room,      \* the tenant a socket was opened for, NoTenant before it is read
    carries,   \* the access token a socket was opened with
    retry,     \* the timer of 3 seconds is running
    status,    \* _currentState
    \* the session in storage, and who is changing it
    token,     \* the access token: "fresh", expired ("stale") or "none"
    selected,  \* the selected tenant, or NoTenant
    choosing,  \* tenants whose write by selectTenant() is awaited
    clearing,  \* _clearSession() has deleted the token, not yet the tenant
    ending,    \* logout(): "none", "leaving" until it clears the session, "left"
    \* the screens
    screen,    \* "choose" is the choice of a tenant after a login
    fetch,     \* GET orders: "none", "asked", "answered"
    answer,    \* the orders in the answer: of a tenant, at a version
    shown,     \* the orders the display shows
    \* the server
    srv,       \* what the server knows of each socket
    active,    \* UserTenant.active of the user
    evicting,  \* tenants whose sockets are to be fetched after a deactivation
    version,   \* changes of the orders of each tenant
    inbox,     \* events on their way to a socket
    \* history
    early,     \* sockets whose connect() began while a choice was being written
    late,      \* sockets that were admitted when the membership ended
    changes, faults

client  == <<enabled, current, cli, room, carries, retry, status, early>>
session == <<token, selected, choosing, clearing, ending>>
display == <<screen, fetch, answer, shown>>
server  == <<srv, active, evicting, version, inbox, late>>
bounds  == <<changes, faults>>
vars    == <<client, session, display, server, bounds>>

Nothing == [of |-> NoTenant, at |-> 0]

Init ==
    /\ enabled = FALSE /\ current = NoSocket
    /\ cli = [s \in Socket |-> "none"]
    /\ room = [s \in Socket |-> NoTenant]
    /\ carries = [s \in Socket |-> "none"]
    /\ retry = FALSE /\ status = "disconnected"
    /\ token = "fresh" /\ selected \in Tenant
    /\ choosing = {} /\ clearing = FALSE /\ ending = "none"
    /\ screen = "dashboard"
    /\ fetch = "none" /\ answer = Nothing /\ shown = Nothing
    /\ srv = [s \in Socket |-> "none"]
    /\ active = [t \in Tenant |-> TRUE]
    /\ evicting = {}
    /\ version = [t \in Tenant |-> 0]
    /\ inbox = [s \in Socket |-> 0]
    /\ early = {} /\ late = {}
    /\ changes = 0 /\ faults = 0

-----------------------------------------------------------------------------
(* Helpers *)

Fault == faults < MaxFaults /\ faults' = faults + 1 /\ UNCHANGED changes

open == screen = "display"

\* A socket neither end holds any more.
Free(s) == cli[s] = "none" /\ srv[s] = "none"

\* _socket?.dispose(); a connect() that is still reading runs on.
Disposed == [s \in Socket |-> IF cli[s] \in {"dialing", "up"} THEN "gone" ELSE cli[s]]

\* connect(): a new generation.
Connect ==
    /\ \E s \in Socket :
          /\ Free(s)
          /\ current' = s
          /\ cli' = [Disposed EXCEPT ![s] = "asked"]
          /\ early' = IF choosing = {} THEN early ELSE early \cup {s}
    /\ enabled' = TRUE
    /\ retry' = FALSE
    /\ status' = "connecting"
    /\ UNCHANGED <<room, carries>>

\* disconnect(), but for the sockets.
Stop ==
    /\ enabled' = FALSE
    /\ current' = NoSocket
    /\ retry' = FALSE
    /\ status' = "disconnected"
    /\ UNCHANGED <<room, carries, early>>

Disconnect == Stop /\ cli' = Disposed

\* _scheduleRetry()
ScheduleRetry ==
    /\ retry' = (enabled \/ retry)
    /\ status' = IF enabled THEN "disconnected" ELSE status

\* ref.invalidate: the orders are asked for again, an older answer is ignored.
Invalidate == fetch' = "asked" /\ answer' = Nothing

-----------------------------------------------------------------------------
(* The socket service *)

\* The display opens; it connects and its provider asks for the orders.
OpenDisplay ==
    /\ screen = "dashboard"
    /\ screen' = "display" /\ Invalidate
    /\ Connect
    /\ UNCHANGED <<session, shown, server, bounds>>

\* The next attempt of the timer, or the application is resumed.
Retry ==
    /\ retry
    /\ Connect
    /\ UNCHANGED <<session, display, server, bounds>>

Resume ==
    /\ enabled /\ Fault
    /\ Connect
    /\ UNCHANGED <<session, display, server>>

\* The token is read, and then the tenant.
ReadToken(s) ==
    /\ cli[s] = "asked"
    /\ cli' = [cli EXCEPT ![s] = "token"]
    /\ carries' = [carries EXCEPT ![s] = token]
    /\ UNCHANGED <<enabled, current, room, retry, status, early, session, display, server, bounds>>

ReadTenant(s) ==
    /\ cli[s] = "token"
    /\ cli' = [cli EXCEPT ![s] = "read"]
    /\ room' = [room EXCEPT ![s] = selected]
    /\ UNCHANGED <<enabled, current, carries, retry, status, early, session, display, server,
                   bounds>>

\* The storage throws.
ReadFails(s) ==
    /\ cli[s] \in {"asked", "token"} /\ Fault
    /\ cli' = [cli EXCEPT ![s] = "gone"]
    /\ IF s = current THEN ScheduleRetry ELSE UNCHANGED <<retry, status>>
    /\ UNCHANGED <<enabled, current, room, carries, early, session, display, server>>

DialUnchecked(s) ==  \* mutant: the generation is not compared after the reads
    /\ cli[s] = "read"
    /\ cli' = [cli EXCEPT ![s] = "dialing"]
    /\ srv' = [srv EXCEPT ![s] = "checking"]
    /\ UNCHANGED <<enabled, current, room, carries, retry, status, early, session, display, active,
                   evicting, version, inbox, late, bounds>>

\* Only the current generation goes on to open a socket; without a token or a
\* tenant it calls disconnect().
Dial(s) ==
    /\ cli[s] = "read"
    /\ \/ /\ s = current /\ carries[s] # "none" /\ room[s] # NoTenant
          /\ cli' = [cli EXCEPT ![s] = "dialing"]
          /\ srv' = [srv EXCEPT ![s] = "checking"]
          /\ UNCHANGED <<enabled, current, room, carries, retry, status, early>>
       \/ /\ s = current /\ (carries[s] = "none" \/ room[s] = NoTenant)
          /\ Stop /\ cli' = [Disposed EXCEPT ![s] = "gone"]
          /\ UNCHANGED srv
       \/ /\ s # current
          /\ cli' = [cli EXCEPT ![s] = "gone"]
          /\ UNCHANGED <<srv, enabled, current, room, carries, retry, status, early>>
    /\ UNCHANGED <<session, display, active, evicting, version, inbox, late, bounds>>

\* onConnect: the namespace has accepted the socket, the gateway may still be
\* checking it.  The display asks for the orders.
OnConnect(s) ==
    /\ cli[s] = "dialing"
    /\ cli' = [cli EXCEPT ![s] = "up"]
    /\ IF s = current THEN retry' = FALSE /\ status' = "connected"
       ELSE UNCHANGED <<retry, status>>
    /\ IF s = current /\ open THEN Invalidate ELSE UNCHANGED <<fetch, answer>>
    /\ UNCHANGED <<enabled, current, room, carries, early, session, screen, shown, server, bounds>>

\* order:created or order:updated
OnEvent(s) ==
    /\ cli[s] = "up" /\ inbox[s] > 0
    /\ inbox' = [inbox EXCEPT ![s] = @ - 1]
    /\ IF s = current /\ open THEN Invalidate ELSE UNCHANGED <<fetch, answer>>
    /\ UNCHANGED <<client, session, screen, shown, srv, active, evicting, version, late, bounds>>

OnDisconnectIgnored(s) ==  \* mutant: only onConnectError is registered
    /\ cli[s] \in {"dialing", "up"} /\ srv[s] = "none"
    /\ cli' = [cli EXCEPT ![s] = "gone"]
    /\ IF s = current /\ cli[s] = "dialing" THEN ScheduleRetry ELSE UNCHANGED <<retry, status>>
    /\ UNCHANGED <<enabled, current, room, carries, early, session, display, server, bounds>>

\* onDisconnect and onConnectError: the server has let go of the socket.
OnDisconnect(s) ==
    /\ cli[s] \in {"dialing", "up"} /\ srv[s] = "none"
    /\ cli' = [cli EXCEPT ![s] = "gone"]
    /\ IF s = current THEN ScheduleRetry ELSE UNCHANGED <<retry, status>>
    /\ UNCHANGED <<enabled, current, room, carries, early, session, display, server, bounds>>

\* A socket both ends have let go of may be used for another attempt.
Forget(s) ==
    /\ cli[s] = "gone" /\ srv[s] = "none"
    /\ cli' = [cli EXCEPT ![s] = "none"]
    /\ room' = [room EXCEPT ![s] = NoTenant]
    /\ carries' = [carries EXCEPT ![s] = "none"]
    /\ inbox' = [inbox EXCEPT ![s] = 0]
    /\ late' = late \ {s} /\ early' = early \ {s}
    /\ current' = IF current = s THEN NoSocket ELSE current
    /\ UNCHANGED <<enabled, retry, status, session, display, srv, active, evicting, version,
                   bounds>>

-----------------------------------------------------------------------------
(* The display *)

PollWhenDisconnected ==  \* mutant: no polling while the socket is connected
    /\ open /\ fetch = "none" /\ status # "connected"
    /\ Invalidate
    /\ UNCHANGED <<client, session, screen, shown, server, bounds>>

\* The timer of 30 seconds runs whether the socket is connected or not.
Poll ==
    /\ open /\ fetch = "none"
    /\ Invalidate
    /\ UNCHANGED <<client, session, screen, shown, server, bounds>>

\* The server answers a member with what the orders are now, and anyone else with
\* an error.  A request with an expired token waits for Refresh.  The session is
\* read when the request is answered.
Answer ==
    /\ fetch = "asked" /\ token # "stale"
    /\ IF token = "fresh" /\ selected # NoTenant /\ active[selected]
       THEN fetch' = "answered" /\ answer' = [of |-> selected, at |-> version[selected]]
       ELSE fetch' = "none" /\ UNCHANGED answer
    /\ UNCHANGED <<client, session, screen, shown, server, bounds>>

Show ==
    /\ fetch = "answered"
    /\ fetch' = "none" /\ shown' = answer /\ answer' = Nothing
    /\ UNCHANGED <<client, session, screen, server, bounds>>

\* A request fails; the display keeps what it shows.
FetchFails ==
    /\ fetch = "asked" /\ Fault
    /\ fetch' = "none"
    /\ UNCHANGED <<client, session, screen, answer, shown, server>>

Blank == fetch' = "none" /\ answer' = Nothing /\ shown' = Nothing

\* Back to the dashboard: the timer and the provider are disposed, the socket stays.
CloseDisplay ==
    /\ open /\ Fault
    /\ screen' = "dashboard" /\ Blank
    /\ UNCHANGED <<client, session, server>>

-----------------------------------------------------------------------------
(* The session *)

\* _selectAndContinue: disconnect(), and the write of the tenant is awaited.  From
\* the list of tenants the user may go back to the dashboard meanwhile.
SwitchTenant(t) ==
    /\ screen \in {"dashboard", "choose"} /\ Fault
    /\ Disconnect
    /\ choosing' = choosing \cup {t}
    /\ UNCHANGED <<token, selected, clearing, ending, display, server>>

\* The tenant is stored; the dashboard follows if the list is still there.
WriteTenant(t) ==
    /\ t \in choosing
    /\ selected' = t /\ choosing' = choosing \ {t}
    /\ screen' \in IF screen = "choose" THEN {"choose", "dashboard"} ELSE {screen}
    /\ UNCHANGED <<client, token, clearing, ending, fetch, answer, shown, server, bounds>>

\* The tokens that were issued so far expire.
Expire ==
    /\ token = "fresh" /\ Fault
    /\ token' = "stale"
    /\ carries' = [s \in Socket |-> IF carries[s] = "fresh" THEN "stale" ELSE carries[s]]
    /\ UNCHANGED <<enabled, current, cli, room, retry, status, early, selected, choosing, clearing,
                   ending, display, server>>

\* A request was answered with 401; the new token is stored, for later attempts.
Refresh ==
    /\ token = "stale"
    /\ token' = "fresh"
    /\ UNCHANGED <<client, selected, choosing, clearing, ending, display, server, bounds>>

\* _clearSession() after a refresh that fails: the token goes first.  Nobody tells
\* the socket.
RefreshFails ==
    /\ token = "stale" /\ Fault
    /\ token' = "none" /\ clearing' = TRUE
    /\ UNCHANGED <<client, selected, choosing, ending, display, server>>

\* _logout: disconnect(), then the server is told, which takes its time.
Logout ==
    /\ screen = "dashboard" /\ ending = "none" /\ Fault
    /\ Disconnect
    /\ ending' = "leaving"
    /\ UNCHANGED <<token, selected, choosing, clearing, display, server>>

DeleteToken ==
    /\ ending = "leaving" /\ ~clearing
    /\ token' = "none" /\ clearing' = TRUE /\ ending' = "left"
    /\ UNCHANGED <<client, selected, choosing, display, server, bounds>>

\* The tenant follows; after a logout the login replaces every screen.
DeleteTenant ==
    /\ clearing
    /\ selected' = NoTenant /\ clearing' = FALSE
    /\ IF ending = "left"
       THEN ending' = "none" /\ screen' = "login" /\ Blank
       ELSE UNCHANGED <<ending, display>>
    /\ UNCHANGED <<client, token, choosing, server, bounds>>

\* The user logs in again.
Login ==
    /\ screen = "login"
    /\ screen' = "choose" /\ token' = "fresh"
    /\ UNCHANGED <<client, selected, choosing, clearing, ending, fetch, answer, shown, server,
                   bounds>>

-----------------------------------------------------------------------------
(* The server *)

\* handleConnection verifies the token and reads the membership ...
Check(s) ==
    /\ srv[s] = "checking"
    /\ srv' = [srv EXCEPT ![s] = IF carries[s] = "fresh" /\ active[room[s]]
                                 THEN "admitted" ELSE "none"]
    /\ UNCHANGED <<client, session, display, active, evicting, version, inbox, late, bounds>>

\* ... and joins the room.
Join(s) ==
    /\ srv[s] = "admitted"
    /\ srv' = [srv EXCEPT ![s] = "joined"]
    /\ UNCHANGED <<client, session, display, active, evicting, version, inbox, late, bounds>>

\* The application has closed the socket, or the connection breaks.
Leave(s) ==
    /\ cli[s] = "gone" /\ srv[s] # "none"
    /\ srv' = [srv EXCEPT ![s] = "none"]
    /\ UNCHANGED <<client, session, display, active, evicting, version, inbox, late, bounds>>

Break(s) ==
    /\ srv[s] # "none" /\ Fault
    /\ srv' = [srv EXCEPT ![s] = "none"]
    /\ UNCHANGED <<client, session, display, active, evicting, version, inbox, late>>

\* A change of an order is emitted to the room of its tenant.
Change(t) ==
    /\ changes < MaxChanges /\ changes' = changes + 1
    /\ version' = [version EXCEPT ![t] = @ + 1]
    /\ inbox' = [s \in Socket |-> IF srv[s] = "joined" /\ room[s] = t
                                  THEN inbox[s] + 1 ELSE inbox[s]]
    /\ UNCHANGED <<client, session, display, srv, active, evicting, late, faults>>

\* deactivate (and update with active: false) stores the end of the membership,
\* then disconnects the sockets of the user that are in the room.
Deactivate(t) ==
    /\ Fault
    /\ active' = [active EXCEPT ![t] = FALSE]
    /\ evicting' = evicting \cup {t}
    /\ late' = late \cup {s \in Socket : srv[s] = "admitted" /\ room[s] = t}
    /\ UNCHANGED <<client, session, display, srv, version, inbox>>

EvictNobody(t) ==  \* mutant: userId is compared with the wrong id
    /\ t \in evicting
    /\ evicting' = evicting \ {t}
    /\ UNCHANGED <<client, session, display, srv, active, version, inbox, late, bounds>>

Evict(t) ==
    /\ t \in evicting
    /\ evicting' = evicting \ {t}
    /\ srv' = [s \in Socket |-> IF srv[s] = "joined" /\ room[s] = t THEN "none" ELSE srv[s]]
    /\ UNCHANGED <<client, session, display, active, version, inbox, late, bounds>>

\* update with active: true
Reactivate(t) ==
    /\ ~active[t] /\ Fault
    /\ active' = [active EXCEPT ![t] = TRUE]
    /\ UNCHANGED <<client, session, display, srv, evicting, version, inbox, late>>

-----------------------------------------------------------------------------

SocketStep(s) == \/ ReadToken(s) \/ ReadTenant(s) \/ Dial(s) \/ OnConnect(s) \/ OnEvent(s)
                 \/ OnDisconnect(s) \/ Forget(s) \/ Check(s) \/ Join(s) \/ Leave(s)

\* A request of the display that was answered with 401 refreshes the token.
DisplayStep == Answer \/ Show \/ (fetch = "asked" /\ Refresh)

\* What goes on without anybody asking for it.
StorageStep == DeleteToken \/ DeleteTenant \/ \E t \in Tenant : WriteTenant(t)

Next ==
    \/ \E s \in Socket : SocketStep(s) \/ ReadFails(s) \/ Break(s)
    \/ OpenDisplay \/ CloseDisplay \/ Retry \/ Resume \/ Poll \/ DisplayStep \/ FetchFails
    \/ Expire \/ Refresh \/ RefreshFails \/ Logout \/ StorageStep \/ Login
    \/ \E t \in Tenant : \/ SwitchTenant(t) \/ Change(t)
                         \/ Deactivate(t) \/ Evict(t) \/ Reactivate(t)

\* Timers expire, storage and network answer; there are finitely many faults.  What
\* the user does, and a refresh nobody asks for, need not happen.
Fairness == /\ \A s \in Socket : WF_vars(SocketStep(s))
            /\ WF_vars(Retry) /\ WF_vars(Poll) /\ WF_vars(DisplayStep) /\ WF_vars(StorageStep)
            /\ \A t \in Tenant : WF_vars(Evict(t))

Spec == Init /\ [][Next]_vars
FairSpec == Spec /\ Fairness

-----------------------------------------------------------------------------
(* Properties *)

Tokens == {"fresh", "stale", "none"}
Orders == [of : Tenant \cup {NoTenant}, at : 0..MaxChanges]

TypeOK ==
    /\ enabled \in BOOLEAN /\ retry \in BOOLEAN /\ clearing \in BOOLEAN
    /\ current \in Socket \cup {NoSocket}
    /\ cli \in [Socket -> {"none", "asked", "token", "read", "dialing", "up", "gone"}]
    /\ srv \in [Socket -> {"none", "checking", "admitted", "joined"}]
    /\ room \in [Socket -> Tenant \cup {NoTenant}]
    /\ carries \in [Socket -> Tokens] /\ token \in Tokens
    /\ status \in {"disconnected", "connecting", "connected"}
    /\ selected \in Tenant \cup {NoTenant} /\ choosing \subseteq Tenant
    /\ ending \in {"none", "leaving", "left"}
    /\ screen \in {"dashboard", "display", "login", "choose"}
    /\ fetch \in {"none", "asked", "answered"}
    /\ answer \in Orders /\ shown \in Orders
    /\ active \in [Tenant -> BOOLEAN]
    /\ evicting \subseteq Tenant /\ late \subseteq Socket /\ early \subseteq Socket
    /\ version \in [Tenant -> 0..MaxChanges]
    /\ inbox \in [Socket -> 0..MaxChanges]
    /\ changes \in 0..MaxChanges /\ faults \in 0..MaxFaults

\* The application holds one socket at most, though connect() reads the session before
\* it opens one and may be overtaken.  While a tenant is selected it is a socket of that
\* tenant, unless connect() began while the choice of the tenant was still being
\* written; it outlives the selection when the session is cleared.
OneSocketOfSelection ==
    \A s \in Socket : cli[s] \in {"dialing", "up"} =>
        /\ s = current
        /\ room[s] = selected \/ selected = NoTenant \/ s \in early

\* "CONECTADO" is shown of a socket that has connected and is not known to be closed.
StatusIsOfCurrent == status = "connected" => current # NoSocket /\ cli[current] = "up"

\* A room holds sockets of members, but for those that are about to be fetched
\* and those that had passed the check when the membership ended.
RoomIsOfMembers ==
    \A s \in Socket : srv[s] = "joined" =>
        active[room[s]] \/ room[s] \in evicting \/ s \in late

\* The display stays open and its requests are those of a member.
Steady == open /\ token # "none" /\ selected # NoTenant /\ active[selected]

\* Such a display shows what the orders are at last, also a change that was
\* emitted before its socket had joined the room.
ShowsLatest ==
    []<>(~Steady \/ shown = [of |-> selected, at |-> version[selected]])

\* And it gets into its room again, as its polling refreshes the token that the next
\* attempt of the socket reads.
Rejoins == []<>(~Steady \/ (current # NoSocket /\ srv[current] = "joined"))
=============================================================================
