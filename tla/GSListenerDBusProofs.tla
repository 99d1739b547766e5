------------------------ MODULE GSListenerDBusProofs ------------------------
(***************************************************************************)
(* Theorems about GSListenerDBus for every set of clients and cookies and  *)
(* every bound.                                                            *)
(***************************************************************************)
EXTENDS GSListenerDBus, SequenceTheorems, TLAPS

(***************************************************************************)
(* What the helpers do.                                                    *)
(***************************************************************************)
\* Closing descriptors leaves a table of descriptors.
LEMMA ClosedType ==
  ASSUME NEW F, fds \in [Fd -> Owner] PROVE Closed(F) \in [Fd -> Owner]
  BY DEF Closed, Owner

\* A call of PrepareForSleep is under all others.
SleepLast(s) == \A i \in DOMAIN s : s[i].by = "sleep" => i = Len(s)

\* A call alone.
LEMMA Alone ==
  ASSUME NEW f \in Frame
  PROVE  /\ <<f>> \in Seq(Frame) /\ <<f>> # <<>> /\ Tail(<<f>>) = <<>> /\ <<f>> \o <<>> = <<f>>
         /\ <<f>>[1] = f /\ DOMAIN <<f>> = {1} /\ Len(<<f>>) = 1 /\ Range(<<f>>) = {f}
<1>1. /\ <<f>> \in Seq(Frame) /\ Len(<<f>>) = 1 /\ <<f>>[1] = f /\ <<f>> # <<>>
  OBVIOUS
<1>2. DOMAIN <<f>> = 1..1 /\ 1..1 = {1}
  OBVIOUS
<1>3. Tail(<<f>>) = <<>>
  OBVIOUS
<1>4. <<f>> \o <<>> = <<f>>
  OBVIOUS
<1>5. Range(<<f>>) = {f}
  BY <1>1, <1>2 DEF Range
<1>. QED
  BY <1>1, <1>2, <1>3, <1>4, <1>5

\* A call on top of those under way.
LEMMA Push ==
  ASSUME NEW s \in Seq(Frame), NEW f \in Frame
  PROVE  /\ <<f>> \o s \in Seq(Frame) /\ <<f>> \o s # <<>>
         /\ (<<f>> \o s)[1] = f
         /\ \A g : g \in Range(<<f>> \o s) <=> g = f \/ g \in Range(s)
         /\ SleepLast(s) /\ (f.by = "sleep" => s = <<>>) => SleepLast(<<f>> \o s)
<1>. DEFINE t == <<f>> \o s
<1>1. /\ t \in Seq(Frame) /\ Len(t) = Len(s) + 1 /\ Len(s) \in Nat
      /\ t[1] = f /\ \A i \in 1..Len(s) : t[i + 1] = s[i]
  OBVIOUS
<1>. HIDE DEF t
<1>2. DOMAIN t = 1..(Len(s) + 1) /\ DOMAIN s = 1..Len(s)
  BY <1>1
<1>3. 1 \in DOMAIN t /\ \A i \in DOMAIN s : i + 1 \in DOMAIN t /\ t[i + 1] = s[i]
  BY <1>1, <1>2
<1>4. \A i \in DOMAIN t : i = 1 \/ (i - 1 \in DOMAIN s /\ t[i] = s[i - 1])
  BY <1>1, <1>2
<1>5. ASSUME NEW g PROVE g \in Range(t) <=> g = f \/ g \in Range(s)
  <2>1. ASSUME g \in Range(t) PROVE g = f \/ g \in Range(s)
    <3>1. PICK i \in DOMAIN t : g = t[i]
      BY <2>1 DEF Range
    <3>2. i # 1 => i - 1 \in DOMAIN s /\ g = s[i - 1]
      BY <1>4, <3>1
    <3>. QED
      BY <1>1, <3>1, <3>2 DEF Range
  <2>2. ASSUME g \in Range(s) PROVE g \in Range(t)
    <3>1. PICK i \in DOMAIN s : g = s[i]
      BY <2>2 DEF Range
    <3>2. i + 1 \in DOMAIN t /\ g = t[i + 1]
      BY <1>3, <3>1
    <3>. QED
      BY <3>2 DEF Range
  <2>3. f \in Range(t)
    BY <1>1, <1>3 DEF Range
  <2>. QED
    BY <2>1, <2>2, <2>3
<1>6. ASSUME SleepLast(s), f.by = "sleep" => s = <<>> PROVE SleepLast(t)
  <2>. SUFFICES ASSUME NEW i \in DOMAIN t, t[i].by = "sleep" PROVE i = Len(t)
    BY DEF SleepLast
  <2>1. CASE i = 1
    <3>1. s = <<>>
      BY <1>1, <1>6, <2>1
    <3>2. Len(s) = 0
      BY <3>1
    <3>. QED
      BY <1>1, <2>1, <3>2
  <2>2. CASE i # 1
    <3>1. i - 1 \in DOMAIN s /\ t[i] = s[i - 1]
      BY <1>4, <2>2
    <3>2. i - 1 = Len(s)
      BY <1>6, <3>1 DEF SleepLast
    <3>. QED
      BY <1>1, <1>2, <3>2
  <2>. QED
    BY <2>1, <2>2
<1>7. t # <<>>
  BY <1>1
<1>. QED
  BY <1>1, <1>5, <1>6, <1>7 DEF t

\* The innermost call returns.
LEMMA Pop ==
  ASSUME NEW s \in Seq(Frame), s # <<>>
  PROVE  /\ Tail(s) \in Seq(Frame) /\ s[1] \in Frame
         /\ \A g : g \in Range(s) <=> g = s[1] \/ g \in Range(Tail(s))
         /\ SleepLast(s) => SleepLast(Tail(s)) /\ (s[1].by = "sleep" => Tail(s) = <<>>)
<1>. DEFINE t == Tail(s)
<1>0. /\ t \in Seq(Frame) /\ Len(t) = Len(s) - 1 /\ Len(s) \in Nat /\ Len(s) >= 1
      /\ s[1] \in Frame /\ \A i \in 1..Len(t) : t[i] = s[i + 1]
  OBVIOUS
<1>1. /\ t \in Seq(Frame) /\ Len(t) = Len(s) - 1 /\ Len(s) \in Nat /\ Len(s) >= 1
      /\ s[1] \in Frame /\ \A i \in 1..Len(t) : t[i] = s[i + 1]
      /\ Len(t) = 0 => t = <<>>
  BY <1>0, EmptySeq
<1>. HIDE DEF t
<1>2. DOMAIN t = 1..Len(t) /\ DOMAIN s = 1..Len(s)
  BY <1>1
<1>3. 1 \in DOMAIN s /\ \A i \in DOMAIN t : i + 1 \in DOMAIN s /\ t[i] = s[i + 1]
  BY <1>1, <1>2
<1>4. \A i \in DOMAIN s : i = 1 \/ (i - 1 \in DOMAIN t /\ s[i] = t[i - 1])
  BY <1>1, <1>2
<1>5. ASSUME NEW g PROVE g \in Range(s) <=> g = s[1] \/ g \in Range(t)
  <2>1. ASSUME g \in Range(s) PROVE g = s[1] \/ g \in Range(t)
    <3>1. PICK i \in DOMAIN s : g = s[i]
      BY <2>1 DEF Range
    <3>2. i # 1 => i - 1 \in DOMAIN t /\ g = t[i - 1]
      BY <1>4, <3>1
    <3>. QED
      BY <3>1, <3>2 DEF Range
  <2>2. ASSUME g \in Range(t) PROVE g \in Range(s)
    <3>1. PICK i \in DOMAIN t : g = t[i]
      BY <2>2 DEF Range
    <3>2. i + 1 \in DOMAIN s /\ g = s[i + 1]
      BY <1>3, <3>1
    <3>. QED
      BY <3>2 DEF Range
  <2>3. s[1] \in Range(s)
    BY <1>3 DEF Range
  <2>. QED
    BY <2>1, <2>2, <2>3
<1>6. ASSUME SleepLast(s) PROVE SleepLast(t)
  BY <1>1, <1>2, <1>3, <1>6 DEF SleepLast
<1>7. ASSUME SleepLast(s), s[1].by = "sleep" PROVE t = <<>>
  <2>1. Len(s) = 1
    BY <1>3, <1>7 DEF SleepLast
  <2>. QED
    BY <1>1, <2>1
<1>. QED
  BY <1>1, <1>5, <1>6, <1>7 DEF t

-----------------------------------------------------------------------------
(***************************************************************************)
(* Types.                                                                  *)
(***************************************************************************)
LEMMA TypeInit == Init => TypeOK
<1>. SUFFICES ASSUME Init PROVE TypeOK
  OBVIOUS
<1>. USE DEF Init
<1>1. sleep_inhibitor \in Fd /\ refusals \in Nat
  <2>1. 0 \in Fd /\ 1 \in Fd
    BY FdAssumption DEF Fd
  <2>. QED
    BY <2>1
<1>2. fds \in [Fd -> Owner]
  BY DEF Owner
<1>3. inhibitors \in [DOMAIN inhibitors -> Entry] /\ DOMAIN inhibitors = {}
  OBVIOUS
<1>4. throttlers \in [DOMAIN throttlers -> Connections] /\ DOMAIN throttlers = {}
  OBVIOUS
<1>5. inbox \in Seq(Message) /\ calls \in Seq(Frame)
  OBVIOUS
<1>. QED
  BY <1>1, <1>2, <1>3, <1>4, <1>5 DEF TypeOK

LEMMA AskedTypes ==
  ASSUME NEW by \in {"listener", "manager", "sleep"}, NEW value \in BOOLEAN
  PROVE  Asked(by, value) \in Frame /\ <<Asked(by, value)>> \in Seq(Frame)
         /\ Asked(by, value).by = by /\ Asked(by, value).value = value
         /\ Asked(by, value).at = "asked"
  BY DEF Asked, Frame

\* What a call for the suspend asks, with nothing under it.
LEMMA SleepAsked ==
  LET a == Asked("sleep", TRUE)
  IN  /\ a \in Frame /\ a.by = "sleep" /\ a.value = TRUE /\ a.at = "asked"
      /\ <<a>> \in Seq(Frame) /\ <<a>> # <<>> /\ Tail(<<a>>) = <<>>
      /\ <<a>>[1] = a /\ DOMAIN <<a>> = {1} /\ Len(<<a>>) = 1 /\ Range(<<a>>) = {a}
<1>. DEFINE a == Asked("sleep", TRUE)
<1>1. a \in Frame /\ a.by = "sleep" /\ a.value = TRUE /\ a.at = "asked"
  BY DEF Asked, Frame
<1>. HIDE DEF a
<1>2. /\ <<a>> \in Seq(Frame) /\ <<a>> # <<>> /\ Tail(<<a>>) = <<>>
      /\ <<a>>[1] = a /\ DOMAIN <<a>> = {1} /\ Len(<<a>>) = 1 /\ Range(<<a>>) = {a}
  BY <1>1, Alone
<1>. QED
  BY <1>1, <1>2 DEF a

LEMMA SaverTypes ==
  ASSUME TypeOK, NEW value \in BOOLEAN, NEW under \in Seq(Frame), ActivateSaver(value, under)
  PROVE  active' \in BOOLEAN /\ calls' \in Seq(Frame)
<1>1. Asked("listener", value) \in Frame
  BY AskedTypes
<1>2. <<Asked("listener", value)>> \o under \in Seq(Frame)
  BY <1>1, Push
<1>. QED
  BY <1>2 DEF TypeOK, ActivateSaver

LEMMA ReachesTypes ==
  ASSUME TypeOK, calls # <<>>, NEW at \in {"asked", "changed", "signalled"}
  PROVE  /\ [calls[1] EXCEPT !.at = at] \in Frame
         /\ Reaches(at) \in Seq(Frame)
<1>1. calls[1] \in Frame /\ Tail(calls) \in Seq(Frame)
  BY Pop DEF TypeOK
<1>2. [calls[1] EXCEPT !.at = at] \in Frame
  BY <1>1 DEF Frame
<1>. QED
  BY <1>1, <1>2, Push DEF Reaches

\* The steps of calls and of what they change.
Calling ==
  \/ RequestActive \/ RequestInactive \/ IdleActivate \/ ManagerDeactivates
  \/ ManagerRefuses \/ ManagerChanges \/ ManagerActivated \/ ManagerDeactivated
  \/ ManagerReturns

LEMMA CallingTypes ==
  ASSUME TypeOK, Calling
  PROVE  /\ active' \in BOOLEAN /\ calls' \in Seq(Frame)
         /\ manager' \in [active : BOOLEAN, throttled : BOOLEAN]
         /\ manager'.throttled = manager.throttled
<1>1. active \in BOOLEAN /\ manager \in [active : BOOLEAN, throttled : BOOLEAN]
      /\ calls \in Seq(Frame) /\ <<>> \in Seq(Frame)
  BY DEF TypeOK
<1>2. CASE RequestActive \/ RequestInactive \/ IdleActivate
  BY <1>1, <1>2, SaverTypes DEF RequestActive, RequestInactive, IdleActivate
<1>3. CASE ManagerDeactivates
  <2>1. <<Asked("manager", FALSE)>> \in Seq(Frame)
    BY AskedTypes
  <2>. QED
    BY <1>1, <1>3, <2>1 DEF ManagerDeactivates, copies
<1>4. CASE ManagerRefuses
  BY <1>1, <1>4, Pop DEF ManagerRefuses, copies
<1>5. CASE ManagerChanges
  <2>1. calls[1].value \in BOOLEAN /\ Reaches("changed") \in Seq(Frame)
    BY <1>1, <1>5, Pop, ReachesTypes DEF ManagerChanges, Frame
  <2>. QED
    BY <1>1, <1>5, <2>1 DEF ManagerChanges
<1>6. CASE ManagerActivated
  <2>1. Reaches("signalled") \in Seq(Frame)
    BY <1>6, ReachesTypes DEF ManagerActivated
  <2>. QED
    BY <1>1, <1>6, <2>1, SaverTypes DEF ManagerActivated
<1>7. CASE ManagerDeactivated
  <2>1. Reaches("signalled") \in Seq(Frame)
    BY <1>7, ReachesTypes DEF ManagerDeactivated
  <2>. QED
    BY <1>1, <1>7, <2>1, SaverTypes DEF ManagerDeactivated
<1>8. CASE ManagerReturns
  <2>1. calls[1].value \in BOOLEAN
    BY <1>1, <1>8, Pop DEF ManagerReturns, Frame
  <2>. QED
    BY <1>1, <1>8, <2>1, Pop DEF ManagerReturns
<1>. QED
  BY <1>2, <1>3, <1>4, <1>5, <1>6, <1>7, <1>8 DEF Calling

\* They touch nothing else.
LEMMA CallingOnly ==
  ASSUME Calling
  PROVE  UNCHANGED <<throttled, inhibitors, throttlers, sleep_inhibitor, fds, connected,
                     registered, inbox, alive, held, asleep, refusals>>
  BY DEF Calling, RequestActive, RequestInactive, IdleActivate, ManagerDeactivates,
         ManagerRefuses, ManagerChanges, ManagerActivated, ManagerDeactivated, ManagerReturns,
         tables, bus, clients, logind

LEMMA SendTypes ==
  ASSUME TypeOK, NEW m \in Message, Send(m) PROVE inbox' \in Seq(Message)
  BY DEF TypeOK, Send

LEMMA ReplyTypes ==
  ASSUME TypeOK, NEW n \in Connections, NEW kind \in Kind, NEW c \in Cookies, Reply(n, kind, c)
  PROVE  held' \subseteq Held
  BY DEF TypeOK, Reply, Held

LEMMA CheckTypes ==
  ASSUME TypeOK, CheckThrottle
  PROVE  throttled' \in BOOLEAN /\ manager' \in [active : BOOLEAN, throttled : BOOLEAN]
  BY DEF TypeOK, CheckThrottle

LEMMA RemoveInhibitTypes ==
  ASSUME TypeOK, NEW C, RemoveInhibit(C)
  PROVE  /\ DOMAIN inhibitors' = DOMAIN inhibitors \ C
         /\ inhibitors' \in [DOMAIN inhibitors' -> Entry]
         /\ \A c \in DOMAIN inhibitors' : inhibitors'[c] = inhibitors[c]
         /\ fds' \in [Fd -> Owner]
<1>1. DOMAIN inhibitors \ C \subseteq DOMAIN inhibitors
  OBVIOUS
<1>2. inhibitors \in [DOMAIN inhibitors -> Entry] /\ fds \in [Fd -> Owner]
  BY DEF TypeOK
<1>3. /\ fds' = Closed({inhibitors[c].fd : c \in C \cap DOMAIN inhibitors})
      /\ inhibitors' = Restrict(inhibitors, DOMAIN inhibitors \ C)
  BY DEF RemoveInhibit
<1>4. fds' \in [Fd -> Owner]
  BY <1>2, <1>3, ClosedType
<1>. QED
  BY <1>1, <1>2, <1>3, <1>4 DEF Restrict

LEMMA RemoveThrottleTypes ==
  ASSUME TypeOK, NEW C, RemoveThrottle(C)
  PROVE  /\ DOMAIN throttlers' = DOMAIN throttlers \ C
         /\ throttlers' \in [DOMAIN throttlers' -> Connections]
         /\ \A c \in DOMAIN throttlers' : throttlers'[c] = throttlers[c]
         /\ throttled' \in BOOLEAN
         /\ manager' \in [active : BOOLEAN, throttled : BOOLEAN]
<1>1. DOMAIN throttlers \ C \subseteq DOMAIN throttlers
  OBVIOUS
<1>2. throttlers \in [DOMAIN throttlers -> Connections]
  BY DEF TypeOK
<1>3. throttlers' = Restrict(throttlers, DOMAIN throttlers \ C) /\ CheckThrottle
  BY DEF RemoveThrottle
<1>4. throttled' \in BOOLEAN /\ manager' \in [active : BOOLEAN, throttled : BOOLEAN]
  BY <1>3, CheckTypes
<1>. QED
  BY <1>1, <1>2, <1>3, <1>4 DEF Restrict

\* What an Inhibit call adds.
LEMMA AddInhibitEffect ==
  ASSUME TypeOK, NEW n \in Connections, AddInhibit(n)
  PROVE  \E c \in UniqueKey(inhibitors), f \in Fd :
           /\ DOMAIN inhibitors' = DOMAIN inhibitors \cup {c}
           /\ inhibitors' \in [DOMAIN inhibitors' -> Entry]
           /\ inhibitors'[c] = [connection |-> n, fd |-> f]
           /\ \A d \in DOMAIN inhibitors : inhibitors'[d] = inhibitors[d]
           /\ \/ Lowest(f) /\ fds' = [fds EXCEPT ![f] = c] /\ refusals' = refusals
              \/ fds' = fds /\ refusals' = refusals + 1
           /\ Reply(n, "inhibit", c)
<1>1. PICK c \in UniqueKey(inhibitors), f \in Fd :
        /\ \/ Lowest(f) /\ fds' = [fds EXCEPT ![f] = c] /\ UNCHANGED refusals
           \/ Refuse /\ f = 0 /\ UNCHANGED fds
        /\ inhibitors' = Extended(inhibitors, c, [connection |-> n, fd |-> f])
        /\ Reply(n, "inhibit", c)
  BY DEF AddInhibit
<1>2. [connection |-> n, fd |-> f] \in Entry
  BY DEF Entry
<1>3. c \notin DOMAIN inhibitors
  BY DEF UniqueKey
<1>4. /\ DOMAIN inhibitors' = DOMAIN inhibitors \cup {c}
      /\ inhibitors' \in [DOMAIN inhibitors' -> Entry]
      /\ inhibitors'[c] = [connection |-> n, fd |-> f]
      /\ \A d \in DOMAIN inhibitors : inhibitors'[d] = inhibitors[d]
  <2>1. inhibitors \in [DOMAIN inhibitors -> Entry]
    BY DEF TypeOK
  <2>. QED
    BY <1>1, <1>2, <1>3, <2>1 DEF Extended
<1>. QED
  BY <1>1, <1>4 DEF Refuse

\* What a Throttle call adds.
LEMMA AddThrottleEffect ==
  ASSUME TypeOK, NEW n \in Connections, AddThrottle(n)
  PROVE  \E c \in UniqueKey(throttlers) :
           /\ DOMAIN throttlers' = DOMAIN throttlers \cup {c}
           /\ throttlers' \in [DOMAIN throttlers' -> Connections]
           /\ throttlers'[c] = n
           /\ \A d \in DOMAIN throttlers : throttlers'[d] = throttlers[d]
           /\ Reply(n, "throttle", c)
<1>1. PICK c \in UniqueKey(throttlers) :
        throttlers' = Extended(throttlers, c, n) /\ Reply(n, "throttle", c)
  BY DEF AddThrottle
<1>2. c \notin DOMAIN throttlers
  BY DEF UniqueKey
<1>3. throttlers \in [DOMAIN throttlers -> Connections]
  BY DEF TypeOK
<1>4. /\ DOMAIN throttlers' = DOMAIN throttlers \cup {c}
      /\ throttlers' \in [DOMAIN throttlers' -> Connections]
      /\ throttlers'[c] = n
      /\ \A d \in DOMAIN throttlers : throttlers'[d] = throttlers[d]
  BY <1>1, <1>2, <1>3 DEF Extended
<1>. QED
  BY <1>1, <1>4

\* The messages that wait have senders, cookies and owners.
LEMMA HeadTypes ==
  ASSUME TypeOK, inbox # <<>>
  PROVE  Head(inbox) \in Message /\ Tail(inbox) \in Seq(Message)
  BY DEF TypeOK

LEMMA MessageTypes ==
  ASSUME NEW m \in Message
  PROVE  /\ m.member \in Kind => m.from \in Connections
         /\ m.member \in {"uninhibit", "unthrottle"} => m.cookie \in Cookies
         /\ m.member = "NameOwnerChanged" => m.owner \in Connections
  BY DEF Message, Kind

LEMMA HandleTypes ==
  ASSUME TypeOK, NEW m \in Message, Handle(m)
  PROVE  /\ throttled' \in BOOLEAN
         /\ DOMAIN inhibitors' \subseteq Cookies
         /\ inhibitors' \in [DOMAIN inhibitors' -> Entry]
         /\ DOMAIN throttlers' \subseteq Cookies
         /\ throttlers' \in [DOMAIN throttlers' -> Connections]
         /\ manager' \in [active : BOOLEAN, throttled : BOOLEAN]
         /\ fds' \in [Fd -> Owner]
         /\ held' \subseteq Held
         /\ refusals' \in Nat
<1>1. CASE m.member = "inhibit" /\ AddInhibit(m.from)
  <2>1. m.from \in Connections
    BY <1>1, MessageTypes DEF Kind
  <2>2. PICK c \in UniqueKey(inhibitors), f \in Fd :
          /\ DOMAIN inhibitors' = DOMAIN inhibitors \cup {c}
          /\ inhibitors' \in [DOMAIN inhibitors' -> Entry]
          /\ \/ Lowest(f) /\ fds' = [fds EXCEPT ![f] = c] /\ refusals' = refusals
             \/ fds' = fds /\ refusals' = refusals + 1
          /\ Reply(m.from, "inhibit", c)
    BY <1>1, <2>1, AddInhibitEffect
  <2>3. c \in Cookies
    BY DEF UniqueKey
  <2>4. fds' \in [Fd -> Owner]
    BY <2>2, <2>3 DEF TypeOK, Owner
  <2>5. held' \subseteq Held
    BY <2>1, <2>2, <2>3, ReplyTypes DEF Kind
  <2>. QED
    BY <1>1, <2>2, <2>3, <2>4, <2>5 DEF TypeOK, AddInhibit
<1>2. CASE m.member = "throttle" /\ AddThrottle(m.from)
  <2>1. m.from \in Connections
    BY <1>2, MessageTypes DEF Kind
  <2>2. PICK c \in UniqueKey(throttlers) :
          /\ DOMAIN throttlers' = DOMAIN throttlers \cup {c}
          /\ throttlers' \in [DOMAIN throttlers' -> Connections]
          /\ Reply(m.from, "throttle", c)
    BY <1>2, <2>1, AddThrottleEffect
  <2>3. c \in Cookies
    BY DEF UniqueKey
  <2>4. throttled' \in BOOLEAN /\ manager' \in [active : BOOLEAN, throttled : BOOLEAN]
    BY <1>2, CheckTypes DEF AddThrottle
  <2>5. held' \subseteq Held
    BY <2>1, <2>2, <2>3, ReplyTypes DEF Kind
  <2>. QED
    BY <1>2, <2>2, <2>3, <2>4, <2>5 DEF TypeOK, AddThrottle
<1>3. CASE m.member = "uninhibit" /\ RemoveInhibit({m.cookie})
           /\ UNCHANGED <<throttled, throttlers, manager, held, refusals>>
  BY <1>3, RemoveInhibitTypes DEF TypeOK
<1>4. CASE m.member = "unthrottle" /\ RemoveThrottle({m.cookie})
           /\ UNCHANGED <<inhibitors, fds, held, refusals>>
  BY <1>4, RemoveThrottleTypes DEF TypeOK
<1>5. CASE m.member = "NameOwnerChanged" /\ ServiceDeleted(m.owner)
  <2>. DEFINE I == {c \in DOMAIN inhibitors : inhibitors[c].connection = m.owner}
              T == {c \in DOMAIN throttlers : throttlers[c] = m.owner}
  <2>1. RemoveInhibit(I) /\ RemoveThrottle(T) /\ UNCHANGED <<held, refusals>>
    BY <1>5 DEF ServiceDeleted
  <2>. HIDE DEF I, T
  <2>2. /\ DOMAIN inhibitors' \subseteq DOMAIN inhibitors
        /\ inhibitors' \in [DOMAIN inhibitors' -> Entry]
        /\ fds' \in [Fd -> Owner]
    BY <2>1, RemoveInhibitTypes
  <2>3. /\ DOMAIN throttlers' \subseteq DOMAIN throttlers
        /\ throttlers' \in [DOMAIN throttlers' -> Connections]
        /\ throttled' \in BOOLEAN
        /\ manager' \in [active : BOOLEAN, throttled : BOOLEAN]
    BY <2>1, RemoveThrottleTypes
  <2>. QED
    BY <2>1, <2>2, <2>3 DEF TypeOK
<1>. QED
  BY <1>1, <1>2, <1>3, <1>4, <1>5 DEF Handle

LEMMA TypeStep == TypeOK /\ [Next]_vars => TypeOK'
<1>. SUFFICES ASSUME TypeOK, [Next]_vars PROVE TypeOK'
  OBVIOUS
<1>. USE DEF saver, copies, tables, bus, clients, logind
<1>1. CASE Calling
  BY <1>1, CallingTypes, CallingOnly DEF TypeOK
<1>4. CASE Dispatch
  <2>1. Head(inbox) \in Message /\ inbox' \in Seq(Message) /\ Handle(Head(inbox))
    BY <1>4, HeadTypes DEF Dispatch
  <2>. QED
    BY <1>4, <2>1, HandleTypes DEF Dispatch, TypeOK
<1>5. CASE PrepareForSleep
  <2>1. <<Asked("sleep", TRUE)>> \in Seq(Frame)
    BY AskedTypes
  <2>2. active' \in BOOLEAN /\ calls' \in Seq(Frame)
    BY <1>5, <2>1, SaverTypes DEF PrepareForSleep, TypeOK
  <2>. QED
    BY <1>5, <2>2 DEF PrepareForSleep, TypeOK
<1>2. CASE ReleaseSleep
  <2>1. calls' \in Seq(Frame)
    BY <1>2, Pop DEF ReleaseSleep, TypeOK
  <2>. QED
    BY <1>2, <2>1, ClosedType DEF ReleaseSleep, TypeOK
<1>6. CASE WakeUp
  <2>1. fds' \in [Fd -> Owner] /\ sleep_inhibitor' \in Fd
    BY <1>6 DEF WakeUp, TypeOK, Owner
  <2>2. refusals' \in Nat
    BY <1>6 DEF WakeUp, Refuse, TypeOK
  <2>. QED
    BY <1>6, <2>1, <2>2 DEF WakeUp, TypeOK
<1>7. ASSUME NEW n \in Connections, NEW kind \in Kind, Request(n, kind) PROVE TypeOK'
  <2>1. [member |-> kind, from |-> n] \in Message
    BY DEF Message
  <2>. QED
    BY <1>7, <2>1, SendTypes DEF Request, TypeOK
<1>8. ASSUME NEW n \in Connections, NEW kind \in Kind, NEW c \in Cookies, Cancel(n, kind, c)
      PROVE  TypeOK'
  <2>1. [member |-> CancelOf(kind), cookie |-> c] \in Message
    BY DEF Message, CancelOf
  <2>. QED
    BY <1>8, <2>1, SendTypes DEF Cancel, TypeOK
<1>9. ASSUME NEW n \in Connections, Exit(n) \/ ReleaseName(n) PROVE TypeOK'
  <2>1. [member |-> "NameOwnerChanged", owner |-> n] \in Message
    BY DEF Message
  <2>. QED
    BY <1>9, <2>1, SendTypes DEF Exit, ReleaseName, TypeOK
<1>10. CASE BusDies
  <2>1. <<>> \in Seq(Message)
    OBVIOUS
  <2>. QED
    BY <1>10, <2>1 DEF BusDies, TypeOK
<1>11. CASE Reinit
  BY <1>11 DEF Reinit, TypeOK
<1>12. CASE UNCHANGED vars
  BY <1>12 DEF vars, TypeOK
<1>. QED
  BY <1>1, <1>2, <1>4, <1>5, <1>6, <1>7, <1>8, <1>9, <1>10, <1>11, <1>12
  DEF Next, Client, Calling

\* TypeOK, for every set of clients and cookies.
THEOREM ListenerTypeCorrect == Spec => []TypeOK
<1>. QED
  BY TypeInit, TypeStep, PTL DEF Spec

-----------------------------------------------------------------------------
(***************************************************************************)
(* The listener's copies of the manager's state.                           *)
(***************************************************************************)
\* After CheckThrottle the three places where it is told whether themes are
\* throttled say the same, and the manager is as active as before.
LEMMA CheckAgrees ==
  ASSUME TypeOK, CheckThrottle
  PROVE  ThrottleFollows' /\ manager'.active = manager.active
<1>1. throttled' = (DOMAIN throttlers' # {}) /\ manager' = [manager EXCEPT !.throttled = throttled']
  BY DEF CheckThrottle
<1>2. manager'.throttled = throttled' /\ manager'.active = manager.active
  BY <1>1 DEF TypeOK
<1>. QED
  BY <1>1, <1>2 DEF ThrottleFollows

LEMMA HandleAgrees ==
  ASSUME TypeOK, ThrottleFollows, NEW m, Handle(m)
  PROVE  ThrottleFollows' /\ manager'.active = manager.active
<1>1. CASE UNCHANGED <<throttled, throttlers, manager>>
  BY <1>1 DEF ThrottleFollows
<1>2. CASE CheckThrottle
  BY <1>2, CheckAgrees
<1>. QED
  BY <1>1, <1>2 DEF Handle, AddInhibit, AddThrottle, RemoveThrottle, ServiceDeleted

LEMMA ThrottleInit == Init => ThrottleFollows
<1>. SUFFICES ASSUME Init PROVE ThrottleFollows
  OBVIOUS
<1>1. DOMAIN throttlers = {}
  BY DEF Init
<1>2. throttled = FALSE /\ manager.throttled = FALSE
  BY DEF Init
<1>. QED
  BY <1>1, <1>2 DEF ThrottleFollows

LEMMA ThrottleStep == TypeOK /\ ThrottleFollows /\ [Next]_vars => ThrottleFollows'
<1>. SUFFICES ASSUME TypeOK, ThrottleFollows, [Next]_vars PROVE ThrottleFollows'
  OBVIOUS
<1>. USE DEF saver, copies, tables, bus, clients, logind
<1>1. CASE Calling
  BY <1>1, CallingTypes, CallingOnly DEF ThrottleFollows
<1>2. CASE Dispatch
  BY <1>2, HandleAgrees DEF Dispatch
<1>3. CASE UNCHANGED <<manager, throttled, throttlers>>
  BY <1>3 DEF ThrottleFollows
<1>4. CASE UNCHANGED vars
  BY <1>4, <1>3 DEF vars
<1>5. CASE PrepareForSleep \/ ReleaseSleep \/ WakeUp \/ BusDies \/ Reinit
  BY <1>5, <1>3 DEF PrepareForSleep, ReleaseSleep, WakeUp, BusDies, Reinit
<1>6. CASE Client
  BY <1>6, <1>3 DEF Client, Request, Cancel, Exit, ReleaseName
<1>. QED
  BY <1>1, <1>2, <1>4, <1>5, <1>6 DEF Next, Calling

\* Themes are throttled exactly while somebody asks for it.
THEOREM ManagerFollowsThrottlers == Spec => []ThrottleFollows
<1>. QED
  BY TypeInit, TypeStep, ThrottleInit, ThrottleStep, PTL DEF Spec

-----------------------------------------------------------------------------
(***************************************************************************)
(* The two copies of active, over calls within calls.                      *)
(***************************************************************************)
\* While activations are under way, or nothing is: no manager that is active
\* goes unnoticed, because the call that made it so is there to say it, and
\* none that the listener knows of has gone.
Activating ==
  /\ \A f \in Range(calls) :
       /\ f.value /\ f.by # "manager"
       /\ f.by = "sleep" => f.at = "asked"
       /\ f.at # "asked" => manager.active
  /\ active => manager.active
  /\ manager.active => active \/ \E f \in Range(calls) : f.at # "asked"

\* A deactivation is alone: while it waits nobody who asks for an activation
\* comes further than the listener, and the call of manager_deactivated_cb
\* that it leads to returns at once.
Deactivating ==
  /\ calls # <<>> /\ Tail(calls) = <<>>
  /\ ~calls[1].value /\ calls[1].by # "sleep"
  /\ manager.active = (calls[1].at = "asked")
  /\ active = (calls[1].at # "signalled")

CallsInv == Activating \/ Deactivating

LEMMA NoCalls == Range(<<>>) = {}
  BY DEF Range

LEMMA CallsInit == Init => CallsInv
<1>. SUFFICES ASSUME Init PROVE Activating
  BY DEF CallsInv
<1>1. calls = <<>> /\ active = FALSE /\ manager.active = FALSE
  BY DEF Init
<1>. QED
  BY <1>1, NoCalls DEF Activating

LEMMA AtRestAgrees == TypeOK /\ CallsInv /\ AtRest => manager.active = active /\ Activating
<1>. SUFFICES ASSUME TypeOK, CallsInv, AtRest PROVE manager.active = active /\ Activating
  OBVIOUS
<1>1. calls = <<>> /\ Activating
  BY DEF AtRest, CallsInv, Deactivating
<1>2. \A f : f \notin Range(calls)
  BY <1>1, NoCalls
<1>3. manager.active <=> active
  BY <1>1, <1>2 DEF Activating
<1>. QED
  BY <1>1, <1>3 DEF TypeOK

\* A request to activate, on top of `under': what is to go on is an activation
\* that has come as far as one under way.
LEMMA AskToActivate ==
  ASSUME TypeOK, Activating, NEW under \in Seq(Frame), ActivateSaver(TRUE, under),
         \A f \in Range(under) :
           /\ f.value /\ f.by # "manager"
           /\ f.by = "sleep" => f.at = "asked"
           /\ f.at # "asked" => manager.active,
         (\E f \in Range(calls) : f.at # "asked") => (\E f \in Range(under) : f.at # "asked"),
         manager' = manager
  PROVE  Activating'
<1>1. CASE active = TRUE \/ manager.active = TRUE
  <2>1. active' = TRUE /\ calls' = under
    BY <1>1 DEF ActivateSaver
  <2>2. manager.active = TRUE
    BY <1>1 DEF Activating
  <2>. QED
    BY <2>1, <2>2 DEF Activating
<1>2. CASE active # TRUE /\ manager.active # TRUE
  <2>1. active' = active /\ calls' = <<Asked("listener", TRUE)>> \o under
    BY <1>2 DEF ActivateSaver
  <2>2. /\ Asked("listener", TRUE) \in Frame
        /\ Asked("listener", TRUE).by = "listener" /\ Asked("listener", TRUE).value = TRUE
        /\ Asked("listener", TRUE).at = "asked"
    BY AskedTypes
  <2>3. \A g : g \in Range(calls') <=> g = Asked("listener", TRUE) \/ g \in Range(under)
    BY <2>1, <2>2, Push
  <2>4. ~manager.active /\ ~active
    BY <1>2 DEF TypeOK
  <2>. QED
    BY <2>1, <2>2, <2>3, <2>4 DEF Activating
<1>. QED
  BY <1>1, <1>2

LEMMA CallsStep == TypeOK /\ CallsInv /\ [Next]_vars => CallsInv'
<1>. SUFFICES ASSUME TypeOK, CallsInv, [Next]_vars PROVE CallsInv'
  OBVIOUS
<1>. USE DEF saver, copies, tables, bus, clients, logind
<1>0. /\ calls \in Seq(Frame) /\ <<>> \in Seq(Frame)
      /\ active \in BOOLEAN /\ manager.active \in BOOLEAN
      /\ manager \in [active : BOOLEAN, throttled : BOOLEAN]
  BY DEF TypeOK
<1>1. CASE active' = active /\ manager'.active = manager.active /\ calls' = calls
  BY <1>1 DEF CallsInv, Activating, Deactivating
<1>2. CASE RequestActive
  <2>1. Activating /\ calls = <<>>
    BY <1>2, AtRestAgrees DEF RequestActive, AtRest
  <2>. QED
    BY <1>0, <1>2, <2>1, NoCalls, AskToActivate DEF RequestActive, CallsInv
<1>3. CASE RequestInactive
  <2>1. calls = <<>> /\ manager.active = active /\ Activating /\ manager' = manager
        /\ ActivateSaver(FALSE, <<>>)
    BY <1>3, AtRestAgrees DEF RequestInactive, AtRest
  <2>2. CASE active = FALSE
    BY <2>1, <2>2, <1>1 DEF ActivateSaver
  <2>3. CASE active = TRUE
    <3>1. active' = active /\ calls' = <<Asked("listener", FALSE)>> \o <<>>
      BY <2>1, <2>3 DEF ActivateSaver
    <3>2. <<Asked("listener", FALSE)>> \o <<>> = <<Asked("listener", FALSE)>>
      BY AskedTypes
    <3>3. calls' # <<>> /\ Tail(calls') = <<>> /\ calls'[1] = Asked("listener", FALSE)
      BY <3>1, <3>2
    <3>. QED
      BY <2>1, <2>3, <3>1, <3>3, AskedTypes DEF Deactivating, CallsInv
  <2>. QED
    BY <1>0, <2>2, <2>3
<1>4. CASE IdleActivate
  <2>1. manager' = manager /\ ActivateSaver(TRUE, calls)
    BY <1>4 DEF IdleActivate
  <2>2. CASE Activating
    <3>1. \A f \in Range(calls) :
            /\ f.value /\ f.by # "manager"
            /\ f.by = "sleep" => f.at = "asked"
            /\ f.at # "asked" => manager.active
      BY <2>2 DEF Activating
    <3>. QED
      BY <1>0, <2>1, <2>2, <3>1, AskToActivate DEF CallsInv
  <2>3. CASE Deactivating
    <3>1. calls # <<>> /\ calls[1].at = "asked"
      BY <1>4, <2>3 DEF IdleActivate, AtRest, InRoundtrip, Deactivating
    <3>2. active = TRUE
      BY <1>0, <2>3, <3>1 DEF Deactivating
    <3>. QED
      BY <1>1, <2>1, <3>2 DEF ActivateSaver
  <2>. QED
    BY <2>2, <2>3 DEF CallsInv
<1>5. CASE ManagerDeactivates
  <2>1. manager.active = active /\ manager.active /\ UNCHANGED <<active, manager>>
        /\ calls' = <<Asked("manager", FALSE)>>
    BY <1>5, AtRestAgrees DEF ManagerDeactivates
  <2>2. calls' # <<>> /\ Tail(calls') = <<>> /\ calls'[1] = Asked("manager", FALSE)
    BY <2>1, AskedTypes
  <2>. QED
    BY <2>1, <2>2, AskedTypes DEF Deactivating, CallsInv
<1>6. CASE ManagerRefuses
  <2>1. calls # <<>> /\ calls' = Tail(calls) /\ UNCHANGED <<active, manager>>
        /\ calls[1].value = TRUE /\ calls[1].at = "asked"
    BY <1>6, AskedTypes DEF ManagerRefuses
  <2>2. Activating
    BY <2>1 DEF CallsInv, Deactivating
  <2>3. \A g : g \in Range(calls) <=> g = calls[1] \/ g \in Range(calls')
    BY <1>0, <2>1, Pop
  <2>. QED
    BY <2>1, <2>2, <2>3 DEF Activating, CallsInv
<1>7. CASE ManagerChanges
  <2>1. /\ calls # <<>> /\ calls' = Reaches("changed") /\ active' = active
        /\ calls[1].at = "asked" /\ calls[1].by # "sleep"
        /\ manager'.active = calls[1].value
    BY <1>0, <1>7 DEF ManagerChanges
  <2>. DEFINE f == [calls[1] EXCEPT !.at = "changed"]
  <2>2. /\ Tail(calls) \in Seq(Frame) /\ calls[1] \in Frame
        /\ \A g : g \in Range(calls) <=> g = calls[1] \/ g \in Range(Tail(calls))
    BY <1>0, <2>1, Pop
  <2>3. f \in Frame /\ f.at = "changed" /\ f.value = calls[1].value /\ f.by = calls[1].by
    BY <2>2 DEF Frame
  <2>. HIDE DEF f
  <2>4. calls' = <<f>> \o Tail(calls)
    BY <2>1 DEF Reaches, f
  <2>5. /\ calls'[1] = f /\ calls' # <<>>
        /\ \A g : g \in Range(calls') <=> g = f \/ g \in Range(Tail(calls))
    BY <2>2, <2>3, <2>4, Push
  <2>6. CASE Activating
    <3>1. calls[1].value = TRUE /\ calls[1].by # "manager"
      BY <2>2, <2>6 DEF Activating, Frame
    <3>. QED
      BY <2>1, <2>2, <2>3, <2>5, <2>6, <3>1 DEF Activating, CallsInv
  <2>7. CASE Deactivating
    <3>1. Tail(calls) = <<>> /\ ~calls[1].value /\ active
      BY <2>1, <2>7, <1>0 DEF Deactivating
    <3>2. calls' = <<f>> /\ Tail(calls') = <<>>
      BY <2>3, <2>4, <3>1, Alone
    <3>. QED
      BY <2>1, <2>3, <2>5, <3>1, <3>2, <1>0 DEF Deactivating, CallsInv, Frame
  <2>. QED
    BY <2>6, <2>7 DEF CallsInv
<1>8. CASE ManagerActivated \/ ManagerDeactivated
  <2>1. calls # <<>> /\ calls[1].at = "changed" /\ manager' = manager
    BY <1>8 DEF ManagerActivated, ManagerDeactivated
  <2>. DEFINE f == [calls[1] EXCEPT !.at = "signalled"]
  <2>2. /\ Tail(calls) \in Seq(Frame) /\ calls[1] \in Frame
        /\ \A g : g \in Range(calls) <=> g = calls[1] \/ g \in Range(Tail(calls))
    BY <1>0, <2>1, Pop
  <2>3. f \in Frame /\ f.at = "signalled" /\ f.value = calls[1].value /\ f.by = calls[1].by
    BY <2>2 DEF Frame
  <2>. HIDE DEF f
  <2>4. Reaches("signalled") = <<f>> \o Tail(calls) /\ Reaches("signalled") \in Seq(Frame)
    BY <2>1, ReachesTypes DEF Reaches, f
  <2>5. /\ Reaches("signalled")[1] = f /\ Reaches("signalled") # <<>>
        /\ \A g : g \in Range(Reaches("signalled")) <=> g = f \/ g \in Range(Tail(calls))
    BY <2>2, <2>3, <2>4, Push
  <2>6. CASE Activating
    <3>1. calls[1].value = TRUE /\ calls[1].by \notin {"manager", "sleep"} /\ manager.active
      BY <2>1, <2>2, <2>6 DEF Activating, Frame
    <3>2. ManagerActivated
      BY <1>8, <3>1 DEF ManagerDeactivated
    <3>3. \A g \in Range(Reaches("signalled")) :
            /\ g.value /\ g.by # "manager"
            /\ g.by = "sleep" => g.at = "asked"
            /\ g.at # "asked" => manager.active
      BY <2>2, <2>3, <2>5, <2>6, <3>1 DEF Activating
    <3>4. \E g \in Range(Reaches("signalled")) : g.at # "asked"
      BY <2>3, <2>5
    <3>5. CASE ActivateSaver(TRUE, Reaches("signalled"))
      BY <2>1, <2>4, <2>6, <3>3, <3>4, <3>5, AskToActivate DEF CallsInv
    <3>6. CASE active' = active /\ calls' = Reaches("signalled")
      BY <2>1, <2>6, <3>1, <3>3, <3>4, <3>6 DEF Activating, CallsInv
    <3>. QED
      BY <3>2, <3>5, <3>6 DEF ManagerActivated
  <2>7. CASE Deactivating
    <3>1. Tail(calls) = <<>> /\ ~calls[1].value /\ active = TRUE /\ manager.active = FALSE
          /\ calls[1].by # "sleep"
      BY <2>1, <2>7, <1>0 DEF Deactivating
    <3>2. ManagerDeactivated
      BY <1>8, <3>1 DEF ManagerActivated
    <3>3. active' = FALSE /\ calls' = Reaches("signalled")
      BY <3>1, <3>2 DEF ManagerDeactivated, ActivateSaver
    <3>4. Tail(calls') = <<>>
      BY <2>3, <2>4, <3>1, <3>3, Alone
    <3>. QED
      BY <2>1, <2>3, <2>5, <3>1, <3>3, <3>4 DEF Deactivating, CallsInv
  <2>. QED
    BY <2>6, <2>7 DEF CallsInv
<1>9. CASE ManagerReturns
  <2>1. calls # <<>> /\ calls' = Tail(calls) /\ manager' = manager /\ calls[1].at = "signalled"
        /\ active' = IF calls[1].by = "listener" THEN calls[1].value ELSE active
    BY <1>9 DEF ManagerReturns
  <2>2. /\ calls[1] \in Frame
        /\ \A g : g \in Range(calls) <=> g = calls[1] \/ g \in Range(calls')
    BY <1>0, <2>1, Pop
  <2>3. CASE Activating
    <3>1. calls[1].value /\ calls[1].by = "listener" /\ manager.active
      BY <2>1, <2>2, <2>3 DEF Activating, Frame
    <3>. QED
      BY <2>1, <2>2, <2>3, <3>1 DEF Activating, CallsInv
  <2>4. CASE Deactivating
    <3>1. calls' = <<>> /\ ~manager.active /\ ~active /\ ~calls[1].value
      BY <1>0, <2>1, <2>4 DEF Deactivating
    <3>2. ~active'
      BY <2>1, <3>1
    <3>. QED
      BY <2>1, <3>1, <3>2, NoCalls DEF Activating, CallsInv
  <2>. QED
    BY <2>3, <2>4 DEF CallsInv
<1>10. CASE PrepareForSleep
  <2>. DEFINE under == <<Asked("sleep", TRUE)>>
  <2>1. Activating /\ calls = <<>> /\ manager' = manager
        /\ (ActivateSaver(TRUE, under) \/ (active' = active /\ calls' = under))
    BY <1>10, AtRestAgrees DEF PrepareForSleep, AtRest
  <2>2. /\ under \in Seq(Frame) /\ Asked("sleep", TRUE).by = "sleep"
        /\ Asked("sleep", TRUE).value = TRUE /\ Asked("sleep", TRUE).at = "asked"
    BY SleepAsked
  <2>3. \A g \in Range(under) : g = Asked("sleep", TRUE)
    BY SleepAsked
  <2>. HIDE DEF under
  <2>4. ~(\E f \in Range(calls) : f.at # "asked")
    BY <2>1, NoCalls
  <2>5. CASE ActivateSaver(TRUE, under)
    BY <2>1, <2>2, <2>3, <2>4, <2>5, AskToActivate DEF CallsInv
  <2>6. CASE active' = active /\ calls' = under
    BY <2>1, <2>2, <2>3, <2>4, <2>6 DEF Activating, CallsInv
  <2>. QED
    BY <2>1, <2>5, <2>6
<1>11. CASE ReleaseSleep
  <2>1. calls # <<>> /\ calls' = Tail(calls) /\ UNCHANGED <<active, manager>>
        /\ calls[1].by = "sleep"
    BY <1>11 DEF ReleaseSleep
  <2>2. Activating
    BY <2>1 DEF CallsInv, Deactivating
  <2>3. \A g : g \in Range(calls) <=> g = calls[1] \/ g \in Range(calls')
    BY <1>0, <2>1, Pop
  <2>4. calls[1].at = "asked"
    BY <2>1, <2>2, <2>3 DEF Activating
  <2>. QED
    BY <2>1, <2>2, <2>3, <2>4 DEF Activating, CallsInv
<1>12. CASE Dispatch
  <2>1. manager'.active = manager.active
    <3>1. ASSUME CheckThrottle PROVE manager'.active = manager.active
      BY <3>1, CheckAgrees
    <3>. QED
      BY <1>12, <3>1 DEF Dispatch, Handle, AddInhibit, AddThrottle, RemoveThrottle, ServiceDeleted
  <2>. QED
    BY <1>1, <1>12, <2>1 DEF Dispatch
<1>13. CASE WakeUp \/ BusDies \/ Reinit \/ UNCHANGED vars
  BY <1>1, <1>13 DEF WakeUp, BusDies, Reinit, vars
<1>14. CASE Client
  BY <1>1, <1>14 DEF Client, Request, Cancel, Exit, ReleaseName
<1>. QED
  BY <1>2, <1>3, <1>4, <1>5, <1>6, <1>7, <1>8, <1>9, <1>10, <1>11, <1>12, <1>13, <1>14 DEF Next

\* When no call is under way, the listener's idea of whether the saver is
\* active is the manager's: over requests granted and refused, over those made
\* inside of others, and over deactivations that come back as requests.
THEOREM ListenerKnowsManager == Spec => []ActiveAgrees
<1>1. TypeOK /\ CallsInv => ActiveAgrees
  BY AtRestAgrees DEF ActiveAgrees
<1>. QED
  BY <1>1, TypeInit, TypeStep, CallsInit, CallsStep, PTL DEF Spec

-----------------------------------------------------------------------------
(***************************************************************************)
(* Descriptors.                                                            *)
(***************************************************************************)
\* What is known while logind has granted everything.
LEMMA OwnersDiffer ==
  /\ \A c \in Cookies : c \notin {"free", "other", "sleep"}
  /\ 0 \in Fd
  BY CookiesAssumption, FdAssumption DEF Fd

LEMMA DescriptorsInit == Init => DescriptorsAgree
<1>. SUFFICES ASSUME Init, refusals = 0 PROVE DescriptorsAgree
  BY DEF DescriptorsAgree
<1>1. sleep_inhibitor = 1 /\ asleep = FALSE /\ DOMAIN inhibitors = {}
  BY DEF Init
<1>2. \A f \in Fd : fds[f] = IF f = 0 THEN "other" ELSE IF f = 1 THEN "sleep" ELSE "free"
  BY <1>1 DEF Init
<1>. QED
  BY <1>1, <1>2, OwnersDiffer DEF DescriptorsAgree, ClosesItsOwn

\* A new request gets a descriptor of its own.
LEMMA AddKeepsDescriptors ==
  ASSUME TypeOK, DescriptorsAgree, NEW n \in Connections, AddInhibit(n),
         UNCHANGED <<asleep, sleep_inhibitor>>
  PROVE  DescriptorsAgree'
<1>. SUFFICES ASSUME refusals' = 0 PROVE DescriptorsAgree'
  BY DEF DescriptorsAgree
<1>1. PICK c \in UniqueKey(inhibitors), f \in Fd :
        /\ DOMAIN inhibitors' = DOMAIN inhibitors \cup {c}
        /\ inhibitors'[c] = [connection |-> n, fd |-> f]
        /\ \A d \in DOMAIN inhibitors : inhibitors'[d] = inhibitors[d]
        /\ Lowest(f) /\ fds' = [fds EXCEPT ![f] = c] /\ refusals' = refusals
  <2>1. refusals' # refusals + 1
    BY DEF TypeOK
  <2>. QED
    BY <2>1, AddInhibitEffect
<1>2. c \in Cookies /\ c \notin DOMAIN inhibitors /\ fds[f] = "free"
  BY <1>1 DEF UniqueKey, Lowest
<1>3. fds'[f] = c /\ \A g \in Fd : g # f => fds'[g] = fds[g]
  BY <1>1 DEF TypeOK
<1>4. /\ \A d \in DOMAIN inhibitors : fds[inhibitors[d].fd] = d
      /\ \A g \in Fd : fds[g] \in Cookies =>
           fds[g] \in DOMAIN inhibitors /\ inhibitors[fds[g]].fd = g
      /\ \A g \in Fd : fds[g] = "sleep" <=> ~asleep /\ g = sleep_inhibitor
      /\ fds[0] = "other"
  BY <1>1 DEF DescriptorsAgree, ClosesItsOwn
<1>5. DOMAIN inhibitors \subseteq Cookies /\ \A d \in DOMAIN inhibitors : inhibitors[d].fd \in Fd
  BY DEF TypeOK, Entry
<1>6. inhibitors'[c].fd = f
  BY <1>1
<1>7. ASSUME NEW d \in DOMAIN inhibitors' PROVE fds'[inhibitors'[d].fd] = d
  BY <1>1, <1>2, <1>3, <1>4, <1>5, <1>6, <1>7, OwnersDiffer
<1>8. ASSUME NEW g \in Fd, fds'[g] \in Cookies
      PROVE  fds'[g] \in DOMAIN inhibitors' /\ inhibitors'[fds'[g]].fd = g
  BY <1>1, <1>2, <1>3, <1>4, <1>6, <1>8
<1>9. ASSUME NEW g \in Fd PROVE fds'[g] = "sleep" <=> ~asleep' /\ g = sleep_inhibitor'
  BY <1>2, <1>3, <1>4, OwnersDiffer
<1>10. fds'[0] = "other"
  BY <1>2, <1>3, <1>4, OwnersDiffer
<1>. QED
  BY <1>7, <1>8, <1>9, <1>10 DEF DescriptorsAgree, ClosesItsOwn

\* Requests that end close their own descriptors and no other.
LEMMA RemoveKeepsDescriptors ==
  ASSUME TypeOK, DescriptorsAgree, NEW C, RemoveInhibit(C),
         UNCHANGED <<asleep, sleep_inhibitor, refusals>>
  PROVE  DescriptorsAgree'
<1>. SUFFICES ASSUME refusals = 0 PROVE DescriptorsAgree'
  BY DEF DescriptorsAgree
<1>. DEFINE closed == {inhibitors[c].fd : c \in C \cap DOMAIN inhibitors}
<1>1. /\ DOMAIN inhibitors' = DOMAIN inhibitors \ C
      /\ \A c \in DOMAIN inhibitors' : inhibitors'[c] = inhibitors[c]
  BY RemoveInhibitTypes
<1>2. \A g \in Fd : fds'[g] = IF g \in closed THEN "free" ELSE fds[g]
  BY DEF RemoveInhibit, Closed
<1>3. /\ \A d \in DOMAIN inhibitors : fds[inhibitors[d].fd] = d
      /\ \A g \in Fd : fds[g] \in Cookies =>
           fds[g] \in DOMAIN inhibitors /\ inhibitors[fds[g]].fd = g
      /\ \A g \in Fd : fds[g] = "sleep" <=> ~asleep /\ g = sleep_inhibitor
      /\ fds[0] = "other"
  BY DEF DescriptorsAgree, ClosesItsOwn
<1>4. DOMAIN inhibitors \subseteq Cookies /\ \A d \in DOMAIN inhibitors : inhibitors[d].fd \in Fd
  BY DEF TypeOK, Entry
<1>5. \A g \in closed : \E c \in C \cap DOMAIN inhibitors : fds[g] = c
  BY <1>3
<1>6. \A d \in DOMAIN inhibitors' : inhibitors[d].fd \notin closed
  BY <1>1, <1>3
<1>7. \A g \in Fd : fds[g] \in C \cap DOMAIN inhibitors => g \in closed
  BY <1>3, <1>4
<1>. HIDE DEF closed
<1>8. ASSUME NEW d \in DOMAIN inhibitors' PROVE fds'[inhibitors'[d].fd] = d
  BY <1>1, <1>2, <1>3, <1>4, <1>6
<1>9. ASSUME NEW g \in Fd, fds'[g] \in Cookies
      PROVE  fds'[g] \in DOMAIN inhibitors' /\ inhibitors'[fds'[g]].fd = g
  <2>1. g \notin closed /\ fds'[g] = fds[g]
    BY <1>2, <1>9, OwnersDiffer
  <2>2. fds[g] \in DOMAIN inhibitors /\ inhibitors[fds[g]].fd = g
    BY <1>3, <1>9, <2>1
  <2>3. fds[g] \notin C
    BY <1>7, <2>1, <2>2
  <2>. QED
    BY <1>1, <2>1, <2>2, <2>3
<1>10. ASSUME NEW g \in Fd PROVE fds'[g] = "sleep" <=> ~asleep' /\ g = sleep_inhibitor'
  BY <1>2, <1>3, <1>4, <1>5, OwnersDiffer
<1>11. fds'[0] = "other"
  BY <1>2, <1>3, <1>4, <1>5, OwnersDiffer
<1>. QED
  BY <1>8, <1>9, <1>10, <1>11 DEF DescriptorsAgree, ClosesItsOwn

LEMMA HandleKeepsDescriptors ==
  ASSUME TypeOK, DescriptorsAgree, NEW m \in Message, Handle(m),
         UNCHANGED <<asleep, sleep_inhibitor>>
  PROVE  DescriptorsAgree'
<1>1. CASE m.member = "inhibit" /\ AddInhibit(m.from)
  <2>1. m.from \in Connections
    BY <1>1, MessageTypes DEF Kind
  <2>. QED
    BY <1>1, <2>1, AddKeepsDescriptors
<1>2. CASE UNCHANGED <<inhibitors, fds, refusals>>
  BY <1>2 DEF DescriptorsAgree, ClosesItsOwn
<1>3. ASSUME NEW C, RemoveInhibit(C), refusals' = refusals PROVE DescriptorsAgree'
  BY <1>3, RemoveKeepsDescriptors
<1>. QED
  BY <1>1, <1>2, <1>3 DEF Handle, AddThrottle, ServiceDeleted

\* The call that lets the system sleep is the outermost one, and the system
\* has not been let to sleep before.
SleepInv == SleepLast(calls) /\ (asleep => \A f \in Range(calls) : f.by # "sleep")

LEMMA SleepInit == Init => SleepInv
<1>. SUFFICES ASSUME Init PROVE SleepInv
  OBVIOUS
<1>1. calls = <<>> /\ asleep = FALSE
  BY DEF Init
<1>2. DOMAIN <<>> = {}
  OBVIOUS
<1>. QED
  BY <1>1, <1>2 DEF SleepInv, SleepLast

\* The listener's own calls are on top.
LEMMA AskInSleep ==
  ASSUME NEW value \in BOOLEAN, NEW under \in Seq(Frame), ActivateSaver(value, under),
         SleepLast(under), asleep => \A f \in Range(under) : f.by # "sleep", asleep' = asleep
  PROVE  SleepInv'
<1>1. CASE calls' = under
  BY <1>1 DEF SleepInv
<1>2. CASE calls' = <<Asked("listener", value)>> \o under
  <2>1. Asked("listener", value) \in Frame /\ Asked("listener", value).by = "listener"
    BY AskedTypes
  <2>2. /\ SleepLast(calls')
        /\ \A g : g \in Range(calls') <=> g = Asked("listener", value) \/ g \in Range(under)
    BY <1>2, <2>1, Push
  <2>. QED
    BY <2>1, <2>2 DEF SleepInv
<1>. QED
  BY <1>1, <1>2 DEF ActivateSaver

LEMMA SleepReaches ==
  ASSUME TypeOK, SleepInv, calls # <<>>, NEW at \in {"asked", "changed", "signalled"},
         calls[1].by # "sleep"
  PROVE  /\ SleepLast(Reaches(at))
         /\ asleep => \A f \in Range(Reaches(at)) : f.by # "sleep"
<1>. DEFINE f == [calls[1] EXCEPT !.at = at]
<1>1. /\ Tail(calls) \in Seq(Frame) /\ calls[1] \in Frame /\ SleepLast(Tail(calls))
      /\ \A g : g \in Range(calls) <=> g = calls[1] \/ g \in Range(Tail(calls))
  BY Pop DEF TypeOK, SleepInv
<1>2. f \in Frame /\ f.by # "sleep"
  BY <1>1 DEF Frame
<1>. HIDE DEF f
<1>3. Reaches(at) = <<f>> \o Tail(calls)
  BY DEF Reaches, f
<1>4. /\ SleepLast(Reaches(at))
      /\ \A g : g \in Range(Reaches(at)) <=> g = f \/ g \in Range(Tail(calls))
  BY <1>1, <1>2, <1>3, Push
<1>. QED
  BY <1>1, <1>2, <1>4 DEF SleepInv

LEMMA SleepStep == TypeOK /\ CallsInv /\ SleepInv /\ [Next]_vars => SleepInv'
<1>. SUFFICES ASSUME TypeOK, CallsInv, SleepInv, [Next]_vars PROVE SleepInv'
  OBVIOUS
<1>. USE DEF saver, copies, tables, bus, clients, logind
<1>0. calls \in Seq(Frame) /\ <<>> \in Seq(Frame)
  BY DEF TypeOK
<1>1. CASE calls' = calls /\ asleep' = asleep
  BY <1>1 DEF SleepInv
<1>2. SleepLast(<<>>) /\ Range(<<>>) = {}
  BY DEF SleepLast, Range
<1>3. CASE RequestActive \/ RequestInactive
  <2>. QED
    BY <1>0, <1>2, <1>3, AskInSleep DEF RequestActive, RequestInactive
<1>4. CASE IdleActivate
  BY <1>0, <1>4, AskInSleep DEF IdleActivate, SleepInv
<1>5. CASE ManagerDeactivates
  <2>1. calls' = <<Asked("manager", FALSE)>> /\ asleep' = asleep
    BY <1>5 DEF ManagerDeactivates
  <2>2. Asked("manager", FALSE) \in Frame /\ Asked("manager", FALSE).by = "manager"
    BY DEF Asked, Frame
  <2>3. \A i \in DOMAIN calls' : calls'[i].by = "manager"
    <3>1. DOMAIN calls' = {1} /\ calls'[1] = Asked("manager", FALSE)
      BY <2>1, <2>2, Alone
    <3>. QED
      BY <2>2, <3>1
  <2>. QED
    BY <2>1, <2>3 DEF SleepInv, SleepLast, Range
<1>6. CASE ManagerRefuses \/ ManagerReturns
  <2>1. calls # <<>> /\ calls' = Tail(calls) /\ asleep' = asleep
    BY <1>6 DEF ManagerRefuses, ManagerReturns
  <2>2. /\ SleepLast(calls')
        /\ \A g : g \in Range(calls) <=> g = calls[1] \/ g \in Range(calls')
    BY <1>0, <2>1, Pop DEF SleepInv
  <2>. QED
    BY <2>1, <2>2 DEF SleepInv
<1>7. CASE ManagerChanges
  BY <1>7, SleepReaches DEF ManagerChanges, SleepInv
<1>8. CASE ManagerActivated \/ ManagerDeactivated
  <2>1. calls # <<>> /\ calls[1].at = "changed" /\ asleep' = asleep
    BY <1>8 DEF ManagerActivated, ManagerDeactivated
  <2>2. calls[1] \in Range(calls)
    BY <1>0, <2>1, Pop
  <2>3. calls[1].by # "sleep"
    BY <2>1, <2>2 DEF CallsInv, Activating, Deactivating
  <2>4. /\ SleepLast(Reaches("signalled")) /\ Reaches("signalled") \in Seq(Frame)
        /\ asleep => \A f \in Range(Reaches("signalled")) : f.by # "sleep"
    BY <2>1, <2>3, SleepReaches, ReachesTypes
  <2>5. CASE calls' = Reaches("signalled")
    BY <2>1, <2>4, <2>5 DEF SleepInv
  <2>. QED
    BY <1>8, <2>1, <2>4, <2>5, AskInSleep DEF ManagerActivated, ManagerDeactivated
<1>9. CASE PrepareForSleep
  <2>. DEFINE under == <<Asked("sleep", TRUE)>>
  <2>1. ~asleep /\ asleep' = asleep
        /\ (ActivateSaver(TRUE, under) \/ calls' = under)
    BY <1>9 DEF PrepareForSleep
  <2>2. under \in Seq(Frame) /\ Len(under) = 1 /\ DOMAIN under = {1}
    BY SleepAsked
  <2>. HIDE DEF under
  <2>3. SleepLast(under)
    BY <2>2 DEF SleepLast
  <2>. QED
    BY <2>1, <2>2, <2>3, AskInSleep DEF SleepInv
<1>10. CASE ReleaseSleep
  <2>1. calls' = <<>>
    BY <1>0, <1>10, Pop DEF ReleaseSleep, SleepInv
  <2>. QED
    BY <1>2, <2>1 DEF SleepInv
<1>11. CASE Dispatch
  BY <1>1, <1>11 DEF Dispatch
<1>12. CASE WakeUp
  BY <1>12 DEF WakeUp, SleepInv
<1>13. CASE BusDies \/ Reinit \/ UNCHANGED vars
  BY <1>1, <1>13 DEF BusDies, Reinit, vars
<1>14. CASE Client
  BY <1>1, <1>14 DEF Client, Request, Cancel, Exit, ReleaseName
<1>. QED
  BY <1>3, <1>4, <1>5, <1>6, <1>7, <1>8, <1>9, <1>10, <1>11, <1>12, <1>13, <1>14 DEF Next

LEMMA DescriptorsStep ==
  TypeOK /\ SleepInv /\ DescriptorsAgree /\ [Next]_vars => DescriptorsAgree'
<1>. SUFFICES ASSUME TypeOK, SleepInv, DescriptorsAgree, [Next]_vars PROVE DescriptorsAgree'
  OBVIOUS
<1>. USE DEF saver, copies, tables, bus, clients, logind
<1>1. CASE UNCHANGED <<inhibitors, fds, sleep_inhibitor, asleep, refusals>>
  BY <1>1 DEF DescriptorsAgree, ClosesItsOwn
<1>2. CASE Dispatch
  BY <1>2, HeadTypes, HandleKeepsDescriptors DEF Dispatch
<1>3. CASE ReleaseSleep
  <2>. SUFFICES ASSUME refusals = 0 PROVE DescriptorsAgree'
    BY <1>3 DEF ReleaseSleep, DescriptorsAgree
  <2>0. ~asleep
    <3>1. calls[1] \in Range(calls)
      BY <1>3, Pop DEF ReleaseSleep, TypeOK
    <3>. QED
      BY <1>3, <3>1 DEF ReleaseSleep, SleepInv
  <2>1. /\ ~asleep /\ asleep'
        /\ \A g \in Fd : fds'[g] = IF g = sleep_inhibitor THEN "free" ELSE fds[g]
        /\ UNCHANGED <<inhibitors, sleep_inhibitor, refusals>>
    BY <1>3, <2>0 DEF ReleaseSleep, Closed, TypeOK
  <2>2. fds[sleep_inhibitor] = "sleep"
    BY <2>1 DEF DescriptorsAgree, TypeOK
  <2>3. DOMAIN inhibitors \subseteq Cookies /\ \A d \in DOMAIN inhibitors : inhibitors[d].fd \in Fd
    BY DEF TypeOK, Entry
  <2>. QED
    BY <2>1, <2>2, <2>3, OwnersDiffer DEF DescriptorsAgree, ClosesItsOwn
<1>4. CASE WakeUp
  <2>. SUFFICES ASSUME refusals' = 0 PROVE DescriptorsAgree'
    BY DEF DescriptorsAgree
  <2>1. PICK f \in Fd : /\ Lowest(f) /\ fds' = [fds EXCEPT ![f] = "sleep"]
                        /\ sleep_inhibitor' = f /\ refusals' = refusals
    BY <1>4 DEF WakeUp, Refuse, TypeOK
  <2>2. asleep /\ ~asleep' /\ inhibitors' = inhibitors /\ fds[f] = "free"
    BY <1>4, <2>1 DEF WakeUp, Lowest
  <2>3. fds'[f] = "sleep" /\ \A g \in Fd : g # f => fds'[g] = fds[g]
    BY <2>1 DEF TypeOK
  <2>4. DOMAIN inhibitors \subseteq Cookies /\ \A d \in DOMAIN inhibitors : inhibitors[d].fd \in Fd
    BY DEF TypeOK, Entry
  <2>. QED
    BY <2>1, <2>2, <2>3, <2>4, OwnersDiffer DEF DescriptorsAgree, ClosesItsOwn
<1>5. CASE UNCHANGED vars
  BY <1>5, <1>1 DEF vars
<1>6. CASE Calling
  BY <1>6, <1>1, CallingOnly
<1>7. CASE PrepareForSleep \/ Client \/ BusDies \/ Reinit
  BY <1>7, <1>1 DEF PrepareForSleep, Client, Request, Cancel, Exit, ReleaseName, BusDies, Reinit
<1>. QED
  BY <1>2, <1>3, <1>4, <1>5, <1>6, <1>7 DEF Next, Calling

\* Unless logind refuses an inhibitor, no descriptor is lost and none is
\* closed by whom it does not belong to.
THEOREM DescriptorsKept == Spec => []DescriptorsAgree
<1>. QED
  BY TypeInit, TypeStep, CallsInit, CallsStep, SleepInit, SleepStep, DescriptorsInit,
     DescriptorsStep, PTL DEF Spec

-----------------------------------------------------------------------------
(***************************************************************************)
(* Requests stay in force until something that ends them is sent.          *)
(***************************************************************************)
\* No message that waits ends a request that is held.
NoneDoomed ==
  \A n \in Connections, k \in Kind, c \in Cookies, m \in Range(inbox) :
    <<n, k, c>> \in held =>
      /\ ~(m.member = CancelOf(k) /\ m.cookie = c)
      /\ ~(m.member = "NameOwnerChanged" /\ m.owner = n)

RequestsInv == NoneDoomed /\ RequestsHold

\* The messages that wait, after another one and after the first is read.
LEMMA SendShape ==
  ASSUME TypeOK, NEW m, Send(m)
  PROVE  /\ DOMAIN inbox = 1..Len(inbox) /\ DOMAIN inbox' = 1..(Len(inbox) + 1)
         /\ Len(inbox) \in Nat
         /\ \A i \in 1..Len(inbox) : inbox'[i] = inbox[i]
         /\ inbox'[Len(inbox) + 1] = m
<1>1. inbox \in Seq(Message) /\ inbox' = Append(inbox, m)
  BY DEF TypeOK, Send
<1>. QED
  BY <1>1

LEMMA TailShape ==
  ASSUME TypeOK, inbox # <<>>, inbox' = Tail(inbox)
  PROVE  /\ DOMAIN inbox = 1..Len(inbox) /\ DOMAIN inbox' = 1..(Len(inbox) - 1)
         /\ Len(inbox) \in Nat /\ 1 \in 1..Len(inbox)
         /\ \A i \in 1..(Len(inbox) - 1) : inbox'[i] = inbox[i + 1]
         /\ Head(inbox) = inbox[1]
<1>1. inbox \in Seq(Message)
  BY DEF TypeOK
<1>. QED
  BY <1>1

LEMMA SendEffect ==
  ASSUME TypeOK, NEW m, Send(m)
  PROVE  Range(inbox') = Range(inbox) \cup {m}
<1>1. \A x \in Range(inbox') : x \in Range(inbox) \cup {m}
  BY SendShape DEF Range
<1>2. \A x \in Range(inbox) \cup {m} : x \in Range(inbox')
  BY SendShape DEF Range
<1>. QED
  BY <1>1, <1>2

LEMMA TailEffect ==
  ASSUME TypeOK, inbox # <<>>, inbox' = Tail(inbox)
  PROVE  /\ Head(inbox) \in Range(inbox)
         /\ Range(inbox') \subseteq Range(inbox)
<1>1. Head(inbox) \in Range(inbox)
  BY TailShape DEF Range
<1>2. \A x \in Range(inbox') : x \in Range(inbox)
  BY TailShape DEF Range
<1>. QED
  BY <1>1, <1>2

LEMMA RequestsInit == Init => RequestsInv
<1>. SUFFICES ASSUME Init PROVE RequestsInv
  OBVIOUS
<1>1. held = {}
  BY DEF Init
<1>. QED
  BY <1>1 DEF RequestsInv, NoneDoomed, RequestsHold

\* The client that asked is the only new holder, and of a request that nothing
\* ends.
LEMMA ReplyHolds ==
  ASSUME TypeOK, NoneDoomed, NEW n \in Connections, NEW kind \in Kind, NEW c \in Cookies,
         Reply(n, kind, c), Range(inbox') \subseteq Range(inbox)
  PROVE  /\ NoneDoomed'
         /\ \A a, k, d : <<a, k, d>> \in held' =>
              <<a, k, d>> \in held \/ (a = n /\ k = kind /\ d = c)
<1>1. \A a, k, d : <<a, k, d>> \in held' =>
        <<a, k, d>> \in held \/ (a = n /\ k = kind /\ d = c /\ ~Doomed(n, kind, c))
  BY DEF Reply
<1>2. ASSUME NEW m \in Range(inbox), ~Doomed(n, kind, c)
      PROVE  /\ ~(m.member = CancelOf(kind) /\ m.cookie = c)
             /\ ~(m.member = "NameOwnerChanged" /\ m.owner = n)
  <2>1. PICK i \in DOMAIN inbox : inbox[i] = m
    BY DEF Range
  <2>. QED
    BY <1>2, <2>1 DEF Doomed, Waiting
<1>3. NoneDoomed'
  BY <1>1, <1>2 DEF NoneDoomed
<1>. QED
  BY <1>1, <1>3

LEMMA HandleHolds ==
  ASSUME TypeOK, RequestsInv, NEW m \in Range(inbox), Handle(m),
         Range(inbox') \subseteq Range(inbox)
  PROVE  RequestsInv'
<1>. USE DEF RequestsInv
<1>2. m \in Message
  BY DEF Range, TypeOK
<1>3. CASE m.member = "inhibit" /\ AddInhibit(m.from)
  <2>1. m.from \in Connections /\ "inhibit" \in Kind
    BY <1>2, <1>3, MessageTypes DEF Kind
  <2>2. PICK c \in UniqueKey(inhibitors), f \in Fd :
          /\ DOMAIN inhibitors' = DOMAIN inhibitors \cup {c}
          /\ inhibitors'[c] = [connection |-> m.from, fd |-> f]
          /\ \A d \in DOMAIN inhibitors : inhibitors'[d] = inhibitors[d]
          /\ Reply(m.from, "inhibit", c)
    BY <1>3, <2>1, AddInhibitEffect
  <2>3. c \in Cookies /\ c \notin DOMAIN inhibitors
    BY DEF UniqueKey
  <2>4. /\ NoneDoomed'
        /\ \A a, k, d : <<a, k, d>> \in held' =>
             <<a, k, d>> \in held \/ (a = m.from /\ k = "inhibit" /\ d = c)
    BY <2>1, <2>2, <2>3, ReplyHolds
  <2>5. throttlers' = throttlers /\ inhibitors'[c].connection = m.from
    BY <1>3, <2>2 DEF AddInhibit
  <2>6. ASSUME NEW n \in Connections, NEW k \in Kind, NEW d \in Cookies, <<n, k, d>> \in held'
        PROVE  InForce(n, k, d)'
    <3>1. CASE n = m.from /\ k = "inhibit" /\ d = c
      BY <2>2, <2>5, <3>1 DEF InForce
    <3>2. CASE <<n, k, d>> \in held
      <4>1. InForce(n, k, d)
        BY <3>2 DEF RequestsHold
      <4>. QED
        BY <2>2, <2>3, <2>5, <4>1 DEF InForce
    <3>. QED
      BY <2>4, <2>6, <3>1, <3>2
  <2>. QED
    BY <2>4, <2>6 DEF RequestsHold
<1>4. CASE m.member = "throttle" /\ AddThrottle(m.from)
  <2>1. m.from \in Connections /\ "throttle" \in Kind
    BY <1>2, <1>4, MessageTypes DEF Kind
  <2>2. PICK c \in UniqueKey(throttlers) :
          /\ DOMAIN throttlers' = DOMAIN throttlers \cup {c}
          /\ throttlers'[c] = m.from
          /\ \A d \in DOMAIN throttlers : throttlers'[d] = throttlers[d]
          /\ Reply(m.from, "throttle", c)
    BY <1>4, <2>1, AddThrottleEffect
  <2>3. c \in Cookies /\ c \notin DOMAIN throttlers
    BY DEF UniqueKey
  <2>4. /\ NoneDoomed'
        /\ \A a, k, d : <<a, k, d>> \in held' =>
             <<a, k, d>> \in held \/ (a = m.from /\ k = "throttle" /\ d = c)
    BY <2>1, <2>2, <2>3, ReplyHolds
  <2>5. inhibitors' = inhibitors
    BY <1>4 DEF AddThrottle
  <2>6. ASSUME NEW n \in Connections, NEW k \in Kind, NEW d \in Cookies, <<n, k, d>> \in held'
        PROVE  InForce(n, k, d)'
    <3>1. CASE n = m.from /\ k = "throttle" /\ d = c
      BY <2>2, <3>1 DEF InForce
    <3>2. CASE <<n, k, d>> \in held
      <4>1. InForce(n, k, d)
        BY <3>2 DEF RequestsHold
      <4>. QED
        BY <2>2, <2>3, <2>5, <4>1 DEF InForce
    <3>. QED
      BY <2>4, <2>6, <3>1, <3>2
  <2>. QED
    BY <2>4, <2>6 DEF RequestsHold
<1>5. ASSUME held' = held PROVE NoneDoomed'
  BY <1>5 DEF NoneDoomed
<1>6. CASE m.member = "uninhibit" /\ RemoveInhibit({m.cookie})
           /\ UNCHANGED <<throttled, throttlers, manager, held, refusals>>
  <2>1. /\ DOMAIN inhibitors' = DOMAIN inhibitors \ {m.cookie}
        /\ \A c \in DOMAIN inhibitors' : inhibitors'[c] = inhibitors[c]
    BY <1>6, RemoveInhibitTypes
  <2>2. ASSUME NEW n \in Connections, NEW k \in Kind, NEW c \in Cookies, <<n, k, c>> \in held
        PROVE  InForce(n, k, c)'
    <3>1. InForce(n, k, c) /\ (k = "inhibit" => c # m.cookie)
      BY <1>6, <2>2 DEF RequestsHold, NoneDoomed, CancelOf
    <3>. QED
      BY <1>6, <2>1, <3>1 DEF InForce
  <2>. QED
    BY <1>5, <1>6, <2>2 DEF RequestsHold
<1>7. CASE m.member = "unthrottle" /\ RemoveThrottle({m.cookie})
           /\ UNCHANGED <<inhibitors, fds, held, refusals>>
  <2>1. /\ DOMAIN throttlers' = DOMAIN throttlers \ {m.cookie}
        /\ \A c \in DOMAIN throttlers' : throttlers'[c] = throttlers[c]
    BY <1>7, RemoveThrottleTypes
  <2>2. ASSUME NEW n \in Connections, NEW k \in Kind, NEW c \in Cookies, <<n, k, c>> \in held
        PROVE  InForce(n, k, c)'
    <3>1. InForce(n, k, c) /\ (k = "throttle" => c # m.cookie)
      BY <1>7, <2>2 DEF RequestsHold, NoneDoomed, CancelOf
    <3>. QED
      BY <1>7, <2>1, <2>2, <3>1 DEF InForce, Kind
  <2>. QED
    BY <1>5, <1>7, <2>2 DEF RequestsHold
<1>8. CASE m.member = "NameOwnerChanged" /\ ServiceDeleted(m.owner)
  <2>. DEFINE I == {c \in DOMAIN inhibitors : inhibitors[c].connection = m.owner}
              T == {c \in DOMAIN throttlers : throttlers[c] = m.owner}
  <2>1. RemoveInhibit(I) /\ RemoveThrottle(T) /\ held' = held
    BY <1>8 DEF ServiceDeleted
  <2>2. /\ DOMAIN inhibitors' = DOMAIN inhibitors \ I
        /\ \A c \in DOMAIN inhibitors' : inhibitors'[c] = inhibitors[c]
    BY <2>1, RemoveInhibitTypes
  <2>3. /\ DOMAIN throttlers' = DOMAIN throttlers \ T
        /\ \A c \in DOMAIN throttlers' : throttlers'[c] = throttlers[c]
    BY <2>1, RemoveThrottleTypes
  <2>4. ASSUME NEW n \in Connections, NEW k \in Kind, NEW c \in Cookies, <<n, k, c>> \in held
        PROVE  InForce(n, k, c)'
    <3>1. InForce(n, k, c) /\ n # m.owner
      BY <1>8, <2>4 DEF RequestsHold, NoneDoomed
    <3>. QED
      BY <2>2, <2>3, <3>1 DEF InForce
  <2>. QED
    BY <1>5, <2>1, <2>4 DEF RequestsHold
<1>. QED
  BY <1>3, <1>4, <1>6, <1>7, <1>8 DEF Handle

\* A message that is sent ends no request that is still held.
LEMMA SendHolds ==
  ASSUME TypeOK, RequestsInv, NEW m, Send(m), held' \subseteq held,
         UNCHANGED <<inhibitors, throttlers>>,
         \A n \in Connections, k \in Kind, c \in Cookies :
           <<n, k, c>> \in held' =>
             /\ ~(m.member = CancelOf(k) /\ m.cookie = c)
             /\ ~(m.member = "NameOwnerChanged" /\ m.owner = n)
  PROVE  RequestsInv'
<1>1. Range(inbox') = Range(inbox) \cup {m}
  BY SendEffect
<1>2. NoneDoomed'
  BY <1>1 DEF RequestsInv, NoneDoomed
<1>3. \A n \in Connections, k \in Kind, c \in Cookies : InForce(n, k, c)' = InForce(n, k, c)
  BY DEF InForce
<1>4. RequestsHold'
  BY <1>3 DEF RequestsInv, RequestsHold
<1>. QED
  BY <1>2, <1>4 DEF RequestsInv

LEMMA RequestsStep == TypeOK /\ RequestsInv /\ [Next]_vars => RequestsInv'
<1>. SUFFICES ASSUME TypeOK, RequestsInv, [Next]_vars PROVE RequestsInv'
  OBVIOUS
<1>. USE DEF saver, copies, tables, bus, clients, logind
<1>1. CASE UNCHANGED <<inhibitors, throttlers, inbox, held>>
  BY <1>1 DEF RequestsInv, NoneDoomed, RequestsHold, InForce
<1>2. CASE Dispatch
  <2>1. Head(inbox) \in Range(inbox) /\ Range(inbox') \subseteq Range(inbox)
    BY <1>2, TailEffect DEF Dispatch
  <2>. QED
    BY <1>2, <2>1, HandleHolds DEF Dispatch
<1>3. ASSUME NEW n \in Connections, NEW kind \in Kind, Request(n, kind) PROVE RequestsInv'
  <2>. DEFINE m == [member |-> kind, from |-> n]
  <2>1. Send(m) /\ UNCHANGED <<inhibitors, throttlers, held>>
    BY <1>3 DEF Request
  <2>2. m.member # "NameOwnerChanged" /\ \A k \in Kind : m.member # CancelOf(k)
    BY DEF Kind, CancelOf
  <2>. HIDE DEF m
  <2>. QED
    BY <2>1, <2>2, SendHolds
<1>4. ASSUME NEW n \in Connections, NEW kind \in Kind, NEW c \in Cookies, Cancel(n, kind, c)
      PROVE  RequestsInv'
  <2>. DEFINE m == [member |-> CancelOf(kind), cookie |-> c]
  <2>1. Send(m) /\ UNCHANGED <<inhibitors, throttlers>>
        /\ held' = {h \in held : ~(h[2] = kind /\ h[3] = c)}
    BY <1>4 DEF Cancel
  <2>2. m.member = CancelOf(kind) /\ m.cookie = c /\ m.member # "NameOwnerChanged"
    BY DEF CancelOf
  <2>3. \A k \in Kind : CancelOf(k) = CancelOf(kind) => k = kind
    BY DEF CancelOf, Kind
  <2>4. \A a \in Connections : <<a, kind, c>> \notin held'
    BY <2>1
  <2>. HIDE DEF m
  <2>5. ASSUME NEW a \in Connections, NEW k \in Kind, NEW d \in Cookies, <<a, k, d>> \in held'
        PROVE  ~(m.member = CancelOf(k) /\ m.cookie = d)
    BY <2>2, <2>3, <2>4, <2>5
  <2>6. held' \subseteq held
    BY <2>1
  <2>. QED
    BY <2>1, <2>2, <2>5, <2>6, SendHolds
<1>5. ASSUME NEW n \in Connections, Exit(n) \/ ReleaseName(n) PROVE RequestsInv'
  <2>. DEFINE m == [member |-> "NameOwnerChanged", owner |-> n]
  <2>1. Send(m) /\ UNCHANGED <<inhibitors, throttlers>> /\ held' = {h \in held : h[1] # n}
    BY <1>5 DEF Exit, ReleaseName
  <2>2. m.owner = n /\ \A k \in Kind : m.member # CancelOf(k)
    BY DEF Kind, CancelOf
  <2>3. \A k, c : <<n, k, c>> \notin held'
    BY <2>1
  <2>. HIDE DEF m
  <2>4. held' \subseteq held
    BY <2>1
  <2>. QED
    BY <2>1, <2>2, <2>3, <2>4, SendHolds
<1>6. CASE BusDies
  <2>1. held' = {}
    BY <1>6 DEF BusDies
  <2>. QED
    BY <2>1 DEF RequestsInv, NoneDoomed, RequestsHold
<1>7. CASE UNCHANGED vars
  BY <1>7, <1>1 DEF vars
<1>8. CASE Calling
  BY <1>8, <1>1, CallingOnly
<1>9. CASE PrepareForSleep \/ ReleaseSleep \/ WakeUp \/ Reinit
  BY <1>9, <1>1 DEF PrepareForSleep, ReleaseSleep, WakeUp, Reinit
<1>. QED
  BY <1>2, <1>3, <1>4, <1>5, <1>6, <1>7, <1>8, <1>9 DEF Next, Client, Calling

\* Whatever all clients do, a request stays in force until somebody cancels its
\* cookie, its client gives up a name, or its client exits.
THEOREM RequestsKept == Spec => []RequestsHold
<1>1. RequestsInv => RequestsHold
  BY DEF RequestsInv
<1>. QED
  BY <1>1, TypeInit, TypeStep, RequestsInit, RequestsStep, PTL DEF Spec

-----------------------------------------------------------------------------
(***************************************************************************)
(* Requests end with their clients.                                        *)
(***************************************************************************)
\* A request that waits is from a client that is there, or the end of that
\* client waits behind it.
Attended ==
  \A i \in DOMAIN inbox : inbox[i].member \in Kind =>
    \/ inbox[i].from \in alive
    \/ \E j \in DOMAIN inbox :
         j > i /\ inbox[j].member = "NameOwnerChanged" /\ inbox[j].owner = inbox[i].from

FollowedInv == registered => Followed /\ Attended

LEMMA FollowedInit == Init => FollowedInv
<1>. SUFFICES ASSUME Init PROVE Followed /\ Attended
  BY DEF FollowedInv
<1>1. DOMAIN inhibitors = {} /\ DOMAIN throttlers = {} /\ DOMAIN inbox = {}
  BY DEF Init
<1>. QED
  BY <1>1 DEF Followed, Attended

\* What a new message leaves in place.
LEMMA SendFollows ==
  ASSUME TypeOK, Followed, Attended, NEW m, Send(m), NEW n,
         alive' = alive \/ (alive' = alive \ {n} /\ m.member = "NameOwnerChanged" /\ m.owner = n),
         m.member \in Kind => m.from \in alive',
         UNCHANGED <<inhibitors, throttlers>>
  PROVE  Followed' /\ Attended'
<1>1. /\ DOMAIN inbox = 1..Len(inbox) /\ DOMAIN inbox' = 1..(Len(inbox) + 1)
      /\ Len(inbox) \in Nat
      /\ \A i \in 1..Len(inbox) : inbox'[i] = inbox[i]
      /\ inbox'[Len(inbox) + 1] = m
  BY SendShape
<1>2. Ending \subseteq Ending'
  BY <1>1 DEF Ending, Waiting
<1>3. m.member = "NameOwnerChanged" => m.owner \in Ending'
  BY <1>1 DEF Ending, Waiting
<1>4. alive \cup Ending \subseteq alive' \cup Ending'
  BY <1>2, <1>3
<1>5. Followed'
  BY <1>4 DEF Followed
<1>6. ASSUME NEW i \in DOMAIN inbox', inbox'[i].member \in Kind
      PROVE  \/ inbox'[i].from \in alive'
             \/ \E j \in DOMAIN inbox' :
                  j > i /\ inbox'[j].member = "NameOwnerChanged" /\ inbox'[j].owner = inbox'[i].from
  <2>1. CASE i = Len(inbox) + 1
    BY <1>1, <1>6, <2>1
  <2>2. CASE i \in 1..Len(inbox)
    <3>1. inbox'[i] = inbox[i]
      BY <1>1, <2>2
    <3>2. \/ inbox[i].from \in alive
          \/ \E j \in DOMAIN inbox :
               j > i /\ inbox[j].member = "NameOwnerChanged" /\ inbox[j].owner = inbox[i].from
      BY <1>1, <1>6, <2>2, <3>1 DEF Attended
    <3>3. CASE inbox[i].from \in alive
      <4>1. inbox[i].from \in alive' \/ (m.member = "NameOwnerChanged" /\ m.owner = inbox[i].from)
        BY <3>3
      <4>2. Len(inbox) + 1 \in DOMAIN inbox' /\ Len(inbox) + 1 > i
        BY <1>1, <2>2
      <4>. QED
        BY <1>1, <3>1, <4>1, <4>2
    <3>4. CASE \E j \in DOMAIN inbox :
                 j > i /\ inbox[j].member = "NameOwnerChanged" /\ inbox[j].owner = inbox[i].from
      BY <1>1, <3>1, <3>4
    <3>. QED
      BY <3>2, <3>3, <3>4
  <2>. QED
    BY <1>1, <1>6, <2>1, <2>2
<1>. QED
  BY <1>5, <1>6 DEF Attended

LEMMA DispatchFollows ==
  ASSUME TypeOK, Followed, Attended, Dispatch
  PROVE  Followed' /\ Attended'
<1>. DEFINE m == Head(inbox)
<1>1. /\ DOMAIN inbox = 1..Len(inbox) /\ DOMAIN inbox' = 1..(Len(inbox) - 1)
      /\ Len(inbox) \in Nat /\ 1 \in 1..Len(inbox)
      /\ \A i \in 1..(Len(inbox) - 1) : inbox'[i] = inbox[i + 1]
      /\ m = inbox[1]
  BY TailShape DEF Dispatch
<1>2. m \in Message /\ Handle(m) /\ alive' = alive
  BY HeadTypes DEF Dispatch
<1>. HIDE DEF m
<1>3. ASSUME NEW j \in DOMAIN inbox, j > 1 PROVE j - 1 \in DOMAIN inbox' /\ inbox'[j - 1] = inbox[j]
  BY <1>1, <1>3
<1>4. ASSUME NEW e \in Ending, ~(m.member = "NameOwnerChanged" /\ m.owner = e) PROVE e \in Ending'
  <2>1. PICK j \in DOMAIN inbox : inbox[j].member = "NameOwnerChanged" /\ inbox[j].owner = e
    BY DEF Ending, Waiting
  <2>2. j > 1
    BY <1>1, <1>4, <2>1
  <2>3. j - 1 \in DOMAIN inbox' /\ inbox'[j - 1] = inbox[j]
    BY <1>3, <2>2
  <2>. QED
    BY <2>1, <2>3 DEF Ending, Waiting
<1>5. Attended'
  <2>. SUFFICES ASSUME NEW i \in DOMAIN inbox', inbox'[i].member \in Kind, inbox'[i].from \notin alive
                PROVE  \E j \in DOMAIN inbox' :
                         j > i /\ inbox'[j].member = "NameOwnerChanged" /\ inbox'[j].owner = inbox'[i].from
    BY <1>2 DEF Attended
  <2>1. i + 1 \in DOMAIN inbox /\ inbox'[i] = inbox[i + 1] /\ i \in Nat
    BY <1>1
  <2>2. PICK j \in DOMAIN inbox :
          j > i + 1 /\ inbox[j].member = "NameOwnerChanged" /\ inbox[j].owner = inbox[i + 1].from
    BY <2>1 DEF Attended
  <2>3. j \in Int /\ j > 1 /\ j - 1 > i
    BY <1>1, <2>1, <2>2
  <2>4. j - 1 \in DOMAIN inbox' /\ inbox'[j - 1] = inbox[j]
    BY <1>3, <2>3
  <2>. QED
    BY <2>1, <2>2, <2>3, <2>4
<1>6. m.member \in Kind => m.from \in alive \cup Ending'
  <2>. SUFFICES ASSUME m.member \in Kind, m.from \notin alive PROVE m.from \in Ending'
    OBVIOUS
  <2>1. PICK j \in DOMAIN inbox :
          j > 1 /\ inbox[j].member = "NameOwnerChanged" /\ inbox[j].owner = m.from
    BY <1>1 DEF Attended
  <2>2. j - 1 \in DOMAIN inbox' /\ inbox'[j - 1] = inbox[j]
    BY <1>3, <2>1
  <2>. QED
    BY <2>1, <2>2 DEF Ending, Waiting
<1>7. CASE m.member = "inhibit" /\ AddInhibit(m.from)
  <2>1. m.from \in Connections /\ m.from \in alive \cup Ending' /\ Ending \subseteq Ending'
    BY <1>2, <1>4, <1>6, <1>7, MessageTypes DEF Kind
  <2>2. PICK c \in UniqueKey(inhibitors), f \in Fd :
          /\ DOMAIN inhibitors' = DOMAIN inhibitors \cup {c}
          /\ inhibitors'[c] = [connection |-> m.from, fd |-> f]
          /\ \A d \in DOMAIN inhibitors : inhibitors'[d] = inhibitors[d]
    BY <1>7, <2>1, AddInhibitEffect
  <2>3. inhibitors'[c].connection = m.from /\ throttlers' = throttlers
    BY <1>7, <2>2 DEF AddInhibit
  <2>. QED
    BY <1>2, <1>5, <2>1, <2>2, <2>3 DEF Followed
<1>8. CASE m.member = "throttle" /\ AddThrottle(m.from)
  <2>1. m.from \in Connections /\ m.from \in alive \cup Ending' /\ Ending \subseteq Ending'
    BY <1>2, <1>4, <1>6, <1>8, MessageTypes DEF Kind
  <2>2. PICK c \in UniqueKey(throttlers) :
          /\ DOMAIN throttlers' = DOMAIN throttlers \cup {c}
          /\ throttlers'[c] = m.from
          /\ \A d \in DOMAIN throttlers : throttlers'[d] = throttlers[d]
    BY <1>8, <2>1, AddThrottleEffect
  <2>3. inhibitors' = inhibitors
    BY <1>8 DEF AddThrottle
  <2>. QED
    BY <1>2, <1>5, <2>1, <2>2, <2>3 DEF Followed
<1>9. CASE \/ m.member = "uninhibit" /\ RemoveInhibit({m.cookie}) /\ throttlers' = throttlers
           \/ m.member = "unthrottle" /\ RemoveThrottle({m.cookie}) /\ inhibitors' = inhibitors
  <2>1. /\ DOMAIN inhibitors' \subseteq DOMAIN inhibitors
        /\ \A c \in DOMAIN inhibitors' : inhibitors'[c] = inhibitors[c]
    BY <1>9, RemoveInhibitTypes
  <2>2. /\ DOMAIN throttlers' \subseteq DOMAIN throttlers
        /\ \A c \in DOMAIN throttlers' : throttlers'[c] = throttlers[c]
    BY <1>9, RemoveThrottleTypes
  <2>3. Ending \subseteq Ending'
    BY <1>4, <1>9
  <2>. QED
    BY <1>2, <1>5, <2>1, <2>2, <2>3 DEF Followed
<1>10. CASE m.member = "NameOwnerChanged" /\ ServiceDeleted(m.owner)
  <2>. DEFINE I == {c \in DOMAIN inhibitors : inhibitors[c].connection = m.owner}
              T == {c \in DOMAIN throttlers : throttlers[c] = m.owner}
  <2>1. RemoveInhibit(I) /\ RemoveThrottle(T)
    BY <1>10 DEF ServiceDeleted
  <2>2. /\ DOMAIN inhibitors' = DOMAIN inhibitors \ I
        /\ \A c \in DOMAIN inhibitors' : inhibitors'[c] = inhibitors[c]
    BY <2>1, RemoveInhibitTypes
  <2>3. /\ DOMAIN throttlers' = DOMAIN throttlers \ T
        /\ \A c \in DOMAIN throttlers' : throttlers'[c] = throttlers[c]
    BY <2>1, RemoveThrottleTypes
  <2>4. \A e \in alive \cup Ending : e # m.owner => e \in alive' \cup Ending'
    BY <1>2, <1>4
  <2>. QED
    BY <1>5, <2>2, <2>3, <2>4 DEF Followed
<1>. QED
  BY <1>2, <1>7, <1>8, <1>9, <1>10 DEF Handle

LEMMA FollowedStep == TypeOK /\ FollowedInv /\ [Next]_vars => FollowedInv'
<1>. SUFFICES ASSUME TypeOK, FollowedInv, [Next]_vars, registered' PROVE Followed' /\ Attended'
  BY DEF FollowedInv
<1>. USE DEF saver, copies, tables, bus, clients, logind
<1>1. registered /\ Followed /\ Attended
  <2>1. CASE Calling
    BY <2>1, CallingOnly DEF FollowedInv
  <2>2. CASE Dispatch \/ PrepareForSleep \/ ReleaseSleep \/ WakeUp
    BY <2>2 DEF FollowedInv, Dispatch, PrepareForSleep, ReleaseSleep, WakeUp
  <2>3. CASE Client \/ BusDies \/ Reinit \/ UNCHANGED vars
    BY <2>3 DEF FollowedInv, Client, Request, Cancel, Exit, ReleaseName, BusDies, Reinit, vars
  <2>. QED
    BY <2>1, <2>2, <2>3 DEF Next, Calling
<1>2. CASE UNCHANGED <<inhibitors, throttlers, inbox, alive>>
  BY <1>1, <1>2 DEF Followed, Attended, Ending, Waiting
<1>3. CASE Dispatch
  BY <1>1, <1>3, DispatchFollows
<1>4. ASSUME NEW n \in Connections, NEW kind \in Kind, Request(n, kind) PROVE Followed' /\ Attended'
  <2>1. Send([member |-> kind, from |-> n]) /\ n \in alive'
        /\ UNCHANGED <<inhibitors, throttlers, alive>>
    BY <1>4 DEF Request
  <2>. QED
    BY <1>1, <2>1, SendFollows
<1>5. ASSUME NEW n \in Connections, NEW kind \in Kind, NEW c \in Cookies, Cancel(n, kind, c)
      PROVE  Followed' /\ Attended'
  <2>1. Send([member |-> CancelOf(kind), cookie |-> c]) /\ CancelOf(kind) \notin Kind
        /\ UNCHANGED <<inhibitors, throttlers, alive>>
    BY <1>5 DEF Cancel, CancelOf, Kind
  <2>. QED
    BY <1>1, <2>1, SendFollows
<1>6. ASSUME NEW n \in Connections, Exit(n) \/ ReleaseName(n) PROVE Followed' /\ Attended'
  <2>1. Send([member |-> "NameOwnerChanged", owner |-> n]) /\ "NameOwnerChanged" \notin Kind
        /\ (alive' = alive \/ alive' = alive \ {n})
        /\ UNCHANGED <<inhibitors, throttlers>>
    BY <1>6 DEF Exit, ReleaseName, Kind
  <2>. QED
    BY <1>1, <2>1, SendFollows
<1>7. CASE UNCHANGED vars
  BY <1>7, <1>2 DEF vars
<1>8. CASE PrepareForSleep \/ ReleaseSleep \/ WakeUp \/ Reinit
  BY <1>8, <1>2 DEF PrepareForSleep, ReleaseSleep, WakeUp, Reinit
<1>10. CASE Calling
  BY <1>10, <1>2, CallingOnly
<1>9. ~BusDies
  BY DEF BusDies
<1>. QED
  BY <1>3, <1>4, <1>5, <1>6, <1>7, <1>8, <1>9, <1>10 DEF Next, Client, Calling

\* While the daemon is registered on the bus, no request outlives its client
\* by more than the messages that wait.
THEOREM NobodyOrphaned == Spec => []NoOrphans
<1>1. FollowedInv => NoOrphans
  BY DEF FollowedInv, NoOrphans
<1>. QED
  BY <1>1, TypeInit, TypeStep, FollowedInit, FollowedStep, PTL DEF Spec
=============================================================================
