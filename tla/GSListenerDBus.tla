--------------------------- MODULE GSListenerDBus ---------------------------
(***************************************************************************)
(* The daemon's face on D-Bus (gs-listener-dbus.c) and the callbacks of    *)
(* gs-monitor.c that join it to the manager.  Clients ask for themes to be *)
(* throttled or for idleness to be ignored, by a cookie each, until they   *)
(* cancel the request or exit; for each inhibit request the daemon holds   *)
(* an inhibitor of logind, a file descriptor, and it holds another one     *)
(* against the system falling asleep before the screen is locked.          *)
(*                                                                         *)
(* The bus delivers in order: what a client sent before it exited is read  *)
(* before the bus tells that its name has lost its owner.                  *)
(***************************************************************************)
EXTENDS Integers, Sequences, FiniteSets, Functions

CONSTANTS
  Connections,      \* unique names of clients; the bus never reuses one
  Cookies,          \* what generate_cookie may return
  MaxFd,            \* bound on the file descriptors of the daemon
  MaxInbox,         \* bound on the messages that wait
  NameOwners,       \* the clients that own a well-known name beside
  BusMayDie,        \* may the session bus go away?
  MaxRefusals,      \* bound on the inhibitors that logind refuses
  SaverMayRefuse,   \* may gs_manager_activate return FALSE?
  MaxCalls          \* bound on calls nested in one another

ASSUME NameOwnersAssumption == NameOwners \subseteq Connections
ASSUME FdAssumption == MaxFd \in Nat \ {0}
ASSUME InboxAssumption == MaxInbox \in Nat \ {0}
ASSUME CookiesAssumption == Cookies \cap {"free", "other", "sleep"} = {}
ASSUME CallsAssumption == MaxCalls \in Nat
ASSUME RefusalsAssumption == MaxRefusals \in Nat
ASSUME DBusSwitchAssumption ==
  {BusMayDie, SaverMayRefuse} \subseteq BOOLEAN

VARIABLES
  active,           \* listener->priv->active
  throttled,        \* listener->priv->throttled
  inhibitors,       \* listener->priv->inhibitors: cookie |-> connection and fd
  throttlers,       \* listener->priv->throttlers: cookie |-> connection
  sleep_inhibitor,  \* listener->priv->sleep_inhibitor
  manager,          \* the manager's active and throttled
  calls,            \* calls under way in the daemon, innermost first
  fds,              \* the daemon's descriptors: number |-> what it stands for
  connected,        \* listener->priv->connection # NULL
  registered,       \* are the name owned, the filter and matches installed?
  inbox,            \* messages of the session bus not dispatched yet
  alive,            \* the clients connected to the session bus
  held,             \* history: <<client, kind, cookie>> for the requests that
                    \* were granted and that nothing is to end
  asleep,           \* has logind announced sleep and not yet waking up?
  refusals          \* history: how many inhibitors has logind refused?

tables  == <<inhibitors, throttlers>>
copies  == <<active, manager>>
saver   == <<copies, calls>>
bus     == <<connected, registered>>
clients == <<inbox, alive, held>>
vars == <<active, throttled, inhibitors, throttlers, sleep_inhibitor, manager,
          calls, fds, connected, registered, inbox, alive, held, asleep, refusals>>
logind  == <<asleep, refusals>>

Fd      == 0..MaxFd
Owner   == {"free", "other", "sleep"} \cup Cookies
Entry   == [connection : Connections, fd : Fd]
Kind    == {"inhibit", "throttle"}
Held    == Connections \X Kind \X Cookies

\* A call that has not returned: who hears the answer, what the manager's
\* active is to become, and how far the manager has come.
Frame == [by : {"listener", "manager", "sleep"}, value : BOOLEAN,
          at : {"asked", "changed", "signalled"}]
Message ==
  [member : Kind, from : Connections]
    \cup [member : {"uninhibit", "unthrottle"}, cookie : Cookies]
    \cup [member : {"NameOwnerChanged"}, owner : Connections]

TypeOK ==
  /\ active \in BOOLEAN
  /\ throttled \in BOOLEAN
  /\ DOMAIN inhibitors \subseteq Cookies
  /\ inhibitors \in [DOMAIN inhibitors -> Entry]
  /\ DOMAIN throttlers \subseteq Cookies
  /\ throttlers \in [DOMAIN throttlers -> Connections]
  /\ sleep_inhibitor \in Fd
  /\ manager \in [active : BOOLEAN, throttled : BOOLEAN]
  /\ calls \in Seq(Frame)
  /\ fds \in [Fd -> Owner]
  /\ connected \in BOOLEAN
  /\ registered \in BOOLEAN
  /\ inbox \in Seq(Message)
  /\ alive \subseteq Connections
  /\ held \subseteq Held
  /\ asleep \in BOOLEAN
  /\ refusals \in Nat

\* Descriptor 0 is taken when the daemon starts; the sleep inhibitor is the
\* first thing it opens, unless logind refuses.
Init ==
  /\ active = FALSE
  /\ throttled = FALSE
  /\ inhibitors = [c \in {} |-> 0]
  /\ throttlers = [c \in {} |-> 0]
  /\ \/ sleep_inhibitor = 1 /\ refusals = 0
     \/ MaxRefusals > 0 /\ sleep_inhibitor = 0 /\ refusals = 1
  /\ manager = [active |-> FALSE, throttled |-> FALSE]
  /\ calls = <<>>
  /\ fds = [f \in Fd |-> IF f = 0 THEN "other"
                        ELSE IF f = sleep_inhibitor THEN "sleep" ELSE "free"]
  /\ connected = TRUE
  /\ registered = TRUE
  /\ inbox = <<>>
  /\ alive = Connections
  /\ held = {}
  /\ asleep = FALSE

-----------------------------------------------------------------------------
(***************************************************************************)
(* Activation.  The listener asks the manager, and takes over what it      *)
(* wanted when the manager says yes.  Before it says so, the manager waits *)
(* in roundtrips, in which the idle listener may ask again, and emits      *)
(* "activated" and "deactivated", whose handlers call the listener too.    *)
(***************************************************************************)
AtRest == calls = <<>>

Asked(by, value) == [by |-> by, value |-> value, at |-> "asked"]

\* SLIP: the answer is taken for granted.
ActivateSaverEarly(value, under) ==
  IF active = value \/ manager.active = value
  THEN active' = value /\ calls' = under
  ELSE active' = value /\ calls' = <<Asked("listener", value)>> \o under

\* gs_listener_dbus_activate_saver, called with `under' to go on with, as far
\* as the manager.  One that is what it is asked to be says yes at once.
ActivateSaver(value, under) ==
  IF active = value \/ manager.active = value
  THEN active' = value /\ calls' = under
  ELSE UNCHANGED active /\ calls' = <<Asked("listener", value)>> \o under

\* Lock, logind's Lock, SetActive(TRUE): inhibitors are not asked.
RequestActive ==
  /\ AtRest
  /\ ActivateSaver(TRUE, <<>>)
  /\ UNCHANGED <<manager, throttled, tables, sleep_inhibitor, fds, bus, clients, logind>>

\* SetActive(FALSE), Quit, logind's Unlock.
RequestInactive ==
  /\ AtRest
  /\ ActivateSaver(FALSE, <<>>)
  /\ UNCHANGED <<manager, throttled, tables, sleep_inhibitor, fds, bus, clients, logind>>

\* The manager waits for the compositor: for the lock, for a window that is
\* shown, or for the lock to be gone.
InRoundtrip ==
  /\ calls # <<>> /\ calls[1].by # "sleep"
  /\ calls[1].at = "asked" \/ (calls[1].at = "changed" /\ calls[1].value)

\* The session is idle: "activate" or "lock" of the idle listener.
IdleActivate ==
  /\ AtRest \/ (InRoundtrip /\ Len(calls) < MaxCalls)
  /\ DOMAIN inhibitors = {}
  /\ ActivateSaver(TRUE, calls)
  /\ UNCHANGED <<manager, throttled, tables, sleep_inhibitor, fds, bus, clients, logind>>

\* The manager deactivates for one of its windows; nobody hears the answer.
ManagerDeactivates ==
  /\ AtRest
  /\ manager.active
  /\ calls' = <<Asked("manager", FALSE)>>
  /\ UNCHANGED <<copies, throttled, tables, sleep_inhibitor, fds, bus, clients, logind>>

\* No grab, or no lock: gs_manager_activate returns FALSE.
ManagerRefuses ==
  /\ SaverMayRefuse
  /\ calls # <<>> /\ calls[1] = Asked("listener", TRUE)
  /\ calls' = Tail(calls)
  /\ UNCHANGED <<copies, throttled, tables, sleep_inhibitor, fds, bus, clients, logind>>

\* The innermost call comes to the next place.
Reaches(at) == <<[calls[1] EXCEPT !.at = at]>> \o Tail(calls)

\* gs_manager_activate and gs_manager_deactivate set active.
ManagerChanges ==
  /\ calls # <<>> /\ calls[1].at = "asked" /\ calls[1].by # "sleep"
  /\ manager' = [manager EXCEPT !.active = calls[1].value]
  /\ calls' = Reaches("changed")
  /\ UNCHANGED <<active, throttled, tables, sleep_inhibitor, fds, bus, clients, logind>>

\* "activated": the idle listener may emit "lock".
ManagerActivated ==
  /\ calls # <<>> /\ calls[1].at = "changed" /\ calls[1].value
  /\ \/ DOMAIN inhibitors = {} /\ ActivateSaver(TRUE, Reaches("signalled"))
     \/ UNCHANGED active /\ calls' = Reaches("signalled")
  /\ UNCHANGED <<manager, throttled, tables, sleep_inhibitor, fds, bus, clients, logind>>

\* "deactivated": manager_deactivated_cb.
ManagerDeactivated ==
  /\ calls # <<>> /\ calls[1].at = "changed" /\ ~calls[1].value
  /\ ActivateSaver(FALSE, Reaches("signalled"))
  /\ UNCHANGED <<manager, throttled, tables, sleep_inhibitor, fds, bus, clients, logind>>

\* The manager has said yes: the rest of gs_listener_dbus_activate_saver.
ManagerReturns ==
  /\ calls # <<>> /\ calls[1].at = "signalled"
  /\ active' = IF calls[1].by = "listener" THEN calls[1].value ELSE active
  /\ calls' = Tail(calls)
  /\ UNCHANGED <<manager, throttled, tables, sleep_inhibitor, fds, bus, clients, logind>>

-----------------------------------------------------------------------------
(***************************************************************************)
(* Requests and their descriptors.                                         *)
(***************************************************************************)
CheckThrottle ==
  /\ throttled' = (DOMAIN throttlers' # {})
  /\ manager' = [manager EXCEPT !.throttled = throttled']

Lowest(f) == f \in Fd /\ fds[f] = "free" /\ \A g \in Fd : g < f => fds[g] # "free"

\* close, of descriptors that may or may not be open.
Closed(F) == [f \in Fd |-> IF f \in F THEN "free" ELSE fds[f]]

Waiting(member) == {i \in DOMAIN inbox : inbox[i].member = member}

CancelOf(kind) == IF kind = "inhibit" THEN "uninhibit" ELSE "unthrottle"

\* A message waits that will end a request.
Doomed(n, kind, c) ==
  \/ \E i \in Waiting(CancelOf(kind)) : inbox[i].cookie = c
  \/ \E i \in Waiting("NameOwnerChanged") : inbox[i].owner = n

\* The client that is still there receives the cookie.
Reply(n, kind, c) ==
  held' = IF n \in alive /\ ~Doomed(n, kind, c)
          THEN held \cup {<<n, kind, c>>} ELSE held

\* logind answers with an error.
Refuse == refusals < MaxRefusals /\ refusals' = refusals + 1

\* A cookie is random and not in the table.
UniqueKey(table) == Cookies \ DOMAIN table

Extended(table, c, value) ==
  [d \in DOMAIN table \cup {c} |-> IF d = c THEN value ELSE table[d]]

\* SLIP: a cookie is not looked up before it is given out.
AddInhibitAnyCookie(n) ==
  /\ \E c \in Cookies, f \in Fd :
       /\ Lowest(f)
       /\ fds' = [fds EXCEPT ![f] = c]
       /\ inhibitors' = Extended(inhibitors, c, [connection |-> n, fd |-> f])
       /\ Reply(n, "inhibit", c)
  /\ UNCHANGED <<throttled, throttlers, manager, refusals>>

\* The entry's fd stays 0 when logind does not answer with a descriptor.
\* (listener_check_activation does nothing: session_idle is never set.)
AddInhibit(n) ==
  /\ \E c \in UniqueKey(inhibitors), f \in Fd :
       /\ \/ Lowest(f) /\ fds' = [fds EXCEPT ![f] = c] /\ UNCHANGED refusals
          \/ Refuse /\ f = 0 /\ UNCHANGED fds
       /\ inhibitors' = Extended(inhibitors, c, [connection |-> n, fd |-> f])
       /\ Reply(n, "inhibit", c)
  /\ UNCHANGED <<throttled, throttlers, manager>>

AddThrottle(n) ==
  /\ \E c \in UniqueKey(throttlers) :
       /\ throttlers' = Extended(throttlers, c, n)
       /\ Reply(n, "throttle", c)
  /\ CheckThrottle
  /\ UNCHANGED <<inhibitors, fds, refusals>>

\* UnInhibit and UnThrottle: an unknown cookie is confirmed all the same.
RemoveInhibit(C) ==
  /\ fds' = Closed({inhibitors[c].fd : c \in C \cap DOMAIN inhibitors})
  /\ inhibitors' = Restrict(inhibitors, DOMAIN inhibitors \ C)

RemoveThrottle(C) ==
  /\ throttlers' = Restrict(throttlers, DOMAIN throttlers \ C)
  /\ CheckThrottle

\* SLIP: the inhibitors' descriptors are left open, the throttle unchecked.
ServiceDeletedTablesOnly(n) ==
  /\ inhibitors' = Restrict(inhibitors, {c \in DOMAIN inhibitors : inhibitors[c].connection # n})
  /\ throttlers' = Restrict(throttlers, {c \in DOMAIN throttlers : throttlers[c] # n})
  /\ UNCHANGED <<throttled, manager, fds, held, refusals>>

\* SLIP: only throttlers end with their client.
ServiceDeletedThrottlersOnly(n) ==
  /\ RemoveThrottle({c \in DOMAIN throttlers : throttlers[c] = n})
  /\ UNCHANGED <<inhibitors, fds, held, refusals>>

\* NameOwnerChanged: the old owner's requests end.
ServiceDeleted(n) ==
  /\ RemoveInhibit({c \in DOMAIN inhibitors : inhibitors[c].connection = n})
  /\ RemoveThrottle({c \in DOMAIN throttlers : throttlers[c] = n})
  /\ UNCHANGED <<held, refusals>>

Handle(m) ==
  \/ m.member = "inhibit" /\ AddInhibit(m.from)
  \/ m.member = "throttle" /\ AddThrottle(m.from)
  \/ /\ m.member = "uninhibit"
     /\ RemoveInhibit({m.cookie})
     /\ UNCHANGED <<throttled, throttlers, manager, held, refusals>>
  \/ /\ m.member = "unthrottle"
     /\ RemoveThrottle({m.cookie})
     /\ UNCHANGED <<inhibitors, fds, held, refusals>>
  \/ m.member = "NameOwnerChanged" /\ ServiceDeleted(m.owner)

Dispatch ==
  /\ AtRest
  /\ inbox # <<>>
  /\ inbox' = Tail(inbox)
  /\ Handle(Head(inbox))
  /\ UNCHANGED <<active, calls, sleep_inhibitor, bus, alive, asleep>>

-----------------------------------------------------------------------------
(***************************************************************************)
(* Sleep.  (The password prompt after waking up is the manager's business.)*)
(***************************************************************************)
\* PrepareForSleep(TRUE): lock, if the settings say so,
PrepareForSleep ==
  /\ AtRest
  /\ ~asleep
  /\ LET goes_on == <<Asked("sleep", TRUE)>>
     IN  ActivateSaver(TRUE, goes_on) \/ (UNCHANGED active /\ calls' = goes_on)
  /\ UNCHANGED <<manager, throttled, tables, sleep_inhibitor, fds, bus, clients, logind>>

\* then let the system sleep, whatever came of it.
ReleaseSleep ==
  /\ calls # <<>> /\ calls[1].by = "sleep"
  /\ calls' = Tail(calls)
  /\ asleep' = TRUE
  /\ fds' = Closed({sleep_inhibitor})
  /\ UNCHANGED <<copies, throttled, tables, sleep_inhibitor, bus, clients, refusals>>

\* SLIP: the new inhibitor's descriptor is forgotten.
WakeUpForgetful ==
  /\ AtRest /\ asleep
  /\ asleep' = FALSE
  /\ \E f \in Fd : Lowest(f) /\ fds' = [fds EXCEPT ![f] = "sleep"]
  /\ UNCHANGED <<saver, throttled, tables, sleep_inhibitor, bus, clients, refusals>>

WakeUp ==
  /\ AtRest /\ asleep
  /\ asleep' = FALSE
  /\ \/ \E f \in Fd : /\ Lowest(f)
                      /\ fds' = [fds EXCEPT ![f] = "sleep"]
                      /\ sleep_inhibitor' = f
                      /\ UNCHANGED refusals
     \/ Refuse /\ UNCHANGED <<fds, sleep_inhibitor>>
  /\ UNCHANGED <<saver, throttled, tables, bus, clients>>

-----------------------------------------------------------------------------
(***************************************************************************)
(* Clients and the session bus.                                            *)
(***************************************************************************)
Send(m) == Len(inbox) < MaxInbox /\ inbox' = Append(inbox, m)

\* A request; there are cookies, and descriptors, for all of them.
Request(n, kind) ==
  /\ n \in alive
  /\ LET table == IF kind = "inhibit" THEN inhibitors ELSE throttlers
     IN  Cardinality(Waiting(kind)) < Cardinality(UniqueKey(table))
  /\ Send([member |-> kind, from |-> n])
  /\ UNCHANGED <<saver, throttled, tables, sleep_inhibitor, fds, bus, alive, held, logind>>

\* UnInhibit or UnThrottle, by the client that holds the request or by any
\* other: the sender is not looked at.
Cancel(n, kind, c) ==
  /\ n \in alive
  /\ held' = {h \in held : ~(h[2] = kind /\ h[3] = c)}
  /\ Send([member |-> CancelOf(kind), cookie |-> c])
  /\ UNCHANGED <<saver, throttled, tables, sleep_inhibitor, fds, bus, alive, logind>>

Exit(n) ==
  /\ n \in alive
  /\ alive' = alive \ {n}
  /\ held' = {h \in held : h[1] # n}
  /\ Send([member |-> "NameOwnerChanged", owner |-> n])
  /\ UNCHANGED <<saver, throttled, tables, sleep_inhibitor, fds, bus, logind>>

\* The signal for a well-known name tells its old owner as well.
ReleaseName(n) ==
  /\ n \in alive \cap NameOwners
  /\ held' = {h \in held : h[1] # n}
  /\ Send([member |-> "NameOwnerChanged", owner |-> n])
  /\ UNCHANGED <<saver, throttled, tables, sleep_inhibitor, fds, bus, alive, logind>>

\* "Disconnected": nothing more is read from that bus.
BusDies ==
  /\ BusMayDie
  /\ AtRest /\ connected
  /\ connected' = FALSE
  /\ registered' = FALSE
  /\ inbox' = <<>>
  /\ alive' = {}
  /\ held' = {}
  /\ UNCHANGED <<saver, throttled, tables, sleep_inhibitor, fds, logind>>

\* reinit_dbus: there is a connection again, but the name is not requested
\* and neither filter nor matches are installed.
Reinit ==
  /\ AtRest /\ ~connected
  /\ connected' = TRUE
  /\ UNCHANGED <<saver, throttled, tables, sleep_inhibitor, fds, registered, clients, logind>>

-----------------------------------------------------------------------------
Client ==
  \E n \in Connections :
    \/ \E kind \in Kind : Request(n, kind)
    \/ \E kind \in Kind, c \in Cookies : Cancel(n, kind, c)
    \/ Exit(n)
    \/ ReleaseName(n)

Next ==
  \/ RequestActive
  \/ RequestInactive
  \/ IdleActivate
  \/ ManagerDeactivates
  \/ ManagerRefuses
  \/ ManagerChanges
  \/ ManagerActivated
  \/ ManagerDeactivated
  \/ ManagerReturns
  \/ Dispatch
  \/ PrepareForSleep
  \/ ReleaseSleep
  \/ WakeUp
  \/ Client
  \/ BusDies
  \/ Reinit

Spec == Init /\ [][Next]_vars

-----------------------------------------------------------------------------
(***************************************************************************)
(* What has to hold after every dispatch.                                  *)
(***************************************************************************)
\* The listener answers GetActive and drops SetActive by its own copy of the
\* manager's state.  Whoever asked for the last change, inside of whichever
\* other call, and whether it was granted: when no call is under way, the
\* copies agree.
ActiveAgrees == AtRest => manager.active = active

\* Themes are throttled exactly while there is a request for it, and the
\* manager knows, whether the last request was cancelled or its client died.
ThrottleFollows ==
  /\ throttled = (DOMAIN throttlers # {})
  /\ manager.throttled = throttled

\* A request is in force, for the client that holds it.
InForce(n, kind, c) ==
  IF kind = "inhibit" THEN c \in DOMAIN inhibitors /\ inhibitors[c].connection = n
                      ELSE c \in DOMAIN throttlers /\ throttlers[c] = n

\* Three things end a request: a cancel that names its cookie, whoever sent it,
\* its client's giving up a name, and its client's exit.  Nothing else does,
\* however the requests, cancels and exits of all clients fall between.
RequestsHold ==
  \A n \in Connections, kind \in Kind, c \in Cookies :
    <<n, kind, c>> \in held => InForce(n, kind, c)

\* As long as the bus lives, a request ends with its client, at the latest
\* when the daemon reads that it is gone.
Ending == {inbox[i].owner : i \in Waiting("NameOwnerChanged")}

Followed ==
  /\ \A c \in DOMAIN inhibitors : inhibitors[c].connection \in alive \cup Ending
  /\ \A c \in DOMAIN throttlers : throttlers[c] \in alive \cup Ending

NoOrphans == registered => Followed

\* While logind grants what it is asked for: a request will close the
\* descriptor it opened and no other, none is left open by a request that
\* ended, sleep is held off exactly while the system has not been told to go
\* on, and descriptor 0 is none of this.
ClosesItsOwn == \A c \in DOMAIN inhibitors : fds[inhibitors[c].fd] = c

DescriptorsAgree ==
  refusals = 0 =>
    /\ ClosesItsOwn
    /\ \A f \in Fd : fds[f] \in Cookies =>
         fds[f] \in DOMAIN inhibitors /\ inhibitors[fds[f]].fd = f
    /\ \A f \in Fd : fds[f] = "sleep" <=> ~asleep /\ f = sleep_inhibitor
    /\ fds[0] = "other"

=============================================================================
