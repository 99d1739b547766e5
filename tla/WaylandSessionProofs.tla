------------------------ MODULE WaylandSessionProofs ------------------------
(***************************************************************************)
(* Theorems about WaylandSession for every set of monitors, any number of  *)
(* events on their way, and handlers nested to any depth.                  *)
(***************************************************************************)
EXTENDS WaylandSession, TLAPS, SequenceTheorems, FiniteSetTheorems

\* A frame of one of the kinds is in the stack.
In(s, kinds) == \E i \in DOMAIN s : s[i].in \in kinds

\* An event of the set is on its way.
Has(q, events) == \E i \in DOMAIN q : q[i] \in events

Letting == {"unlock", "deactivate"}

USE DEF Errors

-----------------------------------------------------------------------------
(***************************************************************************)
(* Queues and stacks.                                                      *)
(***************************************************************************)
LEMMA Events ==
  /\ Void \in Event /\ OfLock \subseteq Event
  /\ \A ids \in SUBSET AlarmId : OfAlarm(ids) \subseteq Event
  /\ Void \notin OfLock /\ \A ids \in SUBSET AlarmId : Void \notin OfAlarm(ids)
  /\ \A ids \in SUBSET AlarmId : OfAlarm(ids) \cap OfLock = {}
  BY DEF Event, Void, OfLock, OfAlarm, AlarmId

LEMMA WithoutIs ==
  ASSUME NEW q \in Seq(Event), NEW gone
  PROVE  /\ Without(q, gone) \in Seq(Event)
         /\ Len(Without(q, gone)) = Len(q)
         /\ \A i \in 1..Len(q) :
              Without(q, gone)[i] = IF q[i] \in gone THEN Void ELSE q[i]
<1>1. \A i \in 1..Len(q) : (IF q[i] \in gone THEN Void ELSE q[i]) \in Event
  BY Events
<1>2. Without(q, gone) = [i \in 1..Len(q) |-> IF q[i] \in gone THEN Void ELSE q[i]]
  BY DEF Without
<1>3. Without(q, gone) \in Seq(Event)
  BY <1>1, <1>2, IsASeq, LenProperties
<1>4. Len(Without(q, gone)) = Len(q)
  BY <1>2, <1>3, LenProperties
<1>. QED
  BY <1>2, <1>3, <1>4

\* What is gone is gone, and nothing comes but void events.
LEMMA WithoutHas ==
  ASSUME NEW q \in Seq(Event), NEW gone, NEW events
  PROVE  /\ Void \notin events => ~Has(Without(q, gone), events \cap gone)
         /\ Void \notin events /\ Has(Without(q, gone), events) => Has(q, events \ gone)
<1>1. /\ DOMAIN Without(q, gone) = 1..Len(q) /\ DOMAIN q = 1..Len(q)
      /\ \A i \in 1..Len(q) :
              Without(q, gone)[i] = IF q[i] \in gone THEN Void ELSE q[i]
  BY WithoutIs, LenProperties
<1>. QED
  BY <1>1 DEF Has

LEMMA TailHas ==
  ASSUME NEW q \in Seq(Event), q # <<>>
  PROVE  /\ Tail(q) \in Seq(Event) /\ Len(Tail(q)) = Len(q) - 1
         /\ Head(q) = q[1] /\ 1 \in DOMAIN q
         /\ \A events : Has(Tail(q), events) => Has(q, events)
<1>1. /\ Tail(q) \in Seq(Event) /\ Len(Tail(q)) = Len(q) - 1
      /\ \A i \in 1..Len(Tail(q)) : Tail(q)[i] = q[i + 1]
      /\ Len(q) \in Nat /\ Len(q) > 0
      /\ DOMAIN q = 1..Len(q) /\ DOMAIN Tail(q) = 1..Len(Tail(q))
  BY HeadTailProperties, LenProperties, EmptySeq
<1>2. ASSUME NEW events, NEW i \in DOMAIN Tail(q), Tail(q)[i] \in events
      PROVE  Has(q, events)
  <2>1. i + 1 \in DOMAIN q /\ q[i + 1] \in events
    BY <1>1, <1>2
  <2>. QED
    BY <2>1 DEF Has
<1>3. \A events : Has(Tail(q), events) => Has(q, events)
  BY <1>2 DEF Has
<1>. QED
  BY <1>1, <1>3

LEMMA AppendHas ==
  ASSUME NEW q \in Seq(Event), NEW e \in Event, NEW events
  PROVE  /\ Append(q, e) \in Seq(Event) /\ Len(Append(q, e)) = Len(q) + 1
         /\ Has(Append(q, e), events) => e \in events \/ Has(q, events)
<1>1. /\ Append(q, e) \in Seq(Event) /\ Len(Append(q, e)) = Len(q) + 1
      /\ \A i \in 1..Len(q) : Append(q, e)[i] = q[i]
      /\ Append(q, e)[Len(q) + 1] = e
      /\ DOMAIN q = 1..Len(q) /\ DOMAIN Append(q, e) = 1..(Len(q) + 1)
      /\ Len(q) \in Nat
  BY AppendProperties, LenProperties
<1>2. ASSUME NEW i \in DOMAIN Append(q, e), Append(q, e)[i] \in events
      PROVE  e \in events \/ Has(q, events)
  <2>1. i \in 1..Len(q) \/ i = Len(q) + 1
    BY <1>1
  <2>. QED
    BY <1>1, <1>2, <2>1 DEF Has
<1>. QED
  BY <1>1, <1>2 DEF Has

LEMMA ConcatHas ==
  ASSUME NEW q \in Seq(Event), NEW r \in Seq(Event), NEW events
  PROVE  /\ q \o r \in Seq(Event) /\ Len(q \o r) = Len(q) + Len(r)
         /\ Has(q \o r, events) => Has(q, events) \/ Has(r, events)
<1>1. /\ q \o r \in Seq(Event) /\ Len(q \o r) = Len(q) + Len(r)
      /\ \A i \in 1..(Len(q) + Len(r)) :
           (q \o r)[i] = IF i <= Len(q) THEN q[i] ELSE r[i - Len(q)]
      /\ DOMAIN q = 1..Len(q) /\ DOMAIN r = 1..Len(r)
      /\ DOMAIN (q \o r) = 1..(Len(q) + Len(r))
      /\ Len(q) \in Nat /\ Len(r) \in Nat
  BY ConcatProperties, LenProperties
<1>2. ASSUME NEW i \in DOMAIN (q \o r), (q \o r)[i] \in events
      PROVE  Has(q, events) \/ Has(r, events)
  <2>1. CASE i <= Len(q)
    <3>1. i \in DOMAIN q /\ q[i] \in events
      BY <1>1, <1>2, <2>1
    <3>. QED
      BY <3>1 DEF Has
  <2>2. CASE ~(i <= Len(q))
    <3>1. i - Len(q) \in DOMAIN r /\ r[i - Len(q)] \in events
      BY <1>1, <1>2, <2>2
    <3>. QED
      BY <3>1 DEF Has
  <2>. QED
    BY <2>1, <2>2
<1>. QED
  BY <1>1, <1>2 DEF Has

\* What is suspended is on top of what was.
LEMMA Push ==
  ASSUME NEW s \in Seq(Frame), NEW f \in Frame
  PROVE  /\ <<f>> \o s \in Seq(Frame) /\ <<f>> \o s # <<>>
         /\ (<<f>> \o s)[1] = f /\ Tail(<<f>> \o s) = s
         /\ \A kinds : In(<<f>> \o s, kinds) <=> f.in \in kinds \/ In(s, kinds)
<1>1. /\ <<f>> \in Seq(Frame) /\ Len(<<f>>) = 1 /\ <<f>>[1] = f
  OBVIOUS
<1>2. /\ <<f>> \o s \in Seq(Frame) /\ Len(<<f>> \o s) = 1 + Len(s)
      /\ \A i \in 1..(1 + Len(s)) :
           (<<f>> \o s)[i] = IF i <= 1 THEN <<f>>[i] ELSE s[i - 1]
      /\ Len(s) \in Nat
  BY <1>1, ConcatProperties, LenProperties
<1>3. <<f>> \o s # <<>> /\ (<<f>> \o s)[1] = f
  BY <1>1, <1>2, EmptySeq
<1>4. Tail(<<f>> \o s) = s
  <2>1. /\ Tail(<<f>> \o s) \in Seq(Frame) /\ Len(Tail(<<f>> \o s)) = Len(s)
        /\ \A i \in 1..Len(s) : Tail(<<f>> \o s)[i] = (<<f>> \o s)[i + 1]
    BY <1>2, <1>3, HeadTailProperties
  <2>2. \A i \in 1..Len(s) : Tail(<<f>> \o s)[i] = s[i]
    BY <1>2, <2>1
  <2>. QED
    BY <2>1, <2>2, SeqEqual
<1>5. /\ DOMAIN (<<f>> \o s) = 1..(1 + Len(s)) /\ DOMAIN s = 1..Len(s)
  BY <1>2, LenProperties
<1>6. ASSUME NEW kinds PROVE In(<<f>> \o s, kinds) <=> f.in \in kinds \/ In(s, kinds)
  <2>1. ASSUME NEW i \in DOMAIN s, s[i].in \in kinds PROVE In(<<f>> \o s, kinds)
    <3>1. i + 1 \in DOMAIN (<<f>> \o s) /\ (<<f>> \o s)[i + 1] = s[i]
      BY <1>2, <1>5
    <3>. QED
      BY <2>1, <3>1 DEF In
  <2>2. f.in \in kinds => In(<<f>> \o s, kinds)
    <3>1. 1 \in DOMAIN (<<f>> \o s)
      BY <1>2, <1>5
    <3>. QED
      BY <1>3, <3>1 DEF In
  <2>3. ASSUME NEW i \in DOMAIN (<<f>> \o s), (<<f>> \o s)[i].in \in kinds
        PROVE  f.in \in kinds \/ In(s, kinds)
    <3>1. CASE i = 1
      BY <1>3, <2>3, <3>1
    <3>2. CASE i # 1
      <4>1. i - 1 \in DOMAIN s /\ (<<f>> \o s)[i] = s[i - 1]
        BY <1>2, <1>5, <3>2
      <4>. QED
        BY <2>3, <4>1 DEF In
    <3>. QED
      BY <3>1, <3>2
  <2>. QED
    BY <2>1, <2>2, <2>3 DEF In
<1>. QED
  BY <1>2, <1>3, <1>4, <1>6

LEMMA Split ==
  ASSUME NEW s \in Seq(Frame), s # <<>>
  PROVE  s = <<s[1]>> \o Tail(s)
<1>1. s[1] \in Frame /\ Tail(s) \in Seq(Frame)
  BY HeadTailProperties, LenProperties, EmptySeq
<1>2. /\ Len(Tail(s)) = Len(s) - 1 /\ Len(s) \in Nat
      /\ \A i \in 1..Len(Tail(s)) : Tail(s)[i] = s[i + 1]
  BY HeadTailProperties, LenProperties
<1>3. <<s[1]>> \in Seq(Frame) /\ Len(<<s[1]>>) = 1 /\ <<s[1]>>[1] = s[1]
  BY <1>1
<1>4. /\ <<s[1]>> \o Tail(s) \in Seq(Frame)
      /\ Len(<<s[1]>> \o Tail(s)) = Len(s)
      /\ \A i \in 1..Len(s) :
           (<<s[1]>> \o Tail(s))[i] = IF i <= 1 THEN <<s[1]>>[i] ELSE Tail(s)[i - 1]
  BY <1>1, <1>2, <1>3, ConcatProperties
<1>5. \A i \in 1..Len(s) : (<<s[1]>> \o Tail(s))[i] = s[i]
  BY <1>2, <1>3, <1>4
<1>. QED
  BY <1>4, <1>5, SeqEqual

LEMMA Pop ==
  ASSUME NEW s \in Seq(Frame), s # <<>>
  PROVE  /\ Tail(s) \in Seq(Frame) /\ s[1] \in Frame
         /\ \A kinds : In(s, kinds) <=> s[1].in \in kinds \/ In(Tail(s), kinds)
<1>1. s[1] \in Frame /\ Tail(s) \in Seq(Frame)
  BY HeadTailProperties, LenProperties, EmptySeq
<1>2. s = <<s[1]>> \o Tail(s)
  BY Split
<1>3. \A kinds : In(<<s[1]>> \o Tail(s), kinds) <=>
                   s[1].in \in kinds \/ In(Tail(s), kinds)
  BY <1>1, Push
<1>. QED
  BY <1>1, <1>2, <1>3

\* What was suspended keeps its order under what is suspended on top of it.
LEMMA PushAt ==
  ASSUME NEW s \in Seq(Frame), NEW f \in Frame
  PROVE  /\ Len(s) \in Nat /\ DOMAIN s = 1..Len(s)
         /\ DOMAIN (<<f>> \o s) = 1..(1 + Len(s))
         /\ (<<f>> \o s)[1] = f
         /\ \A i \in 2..(1 + Len(s)) : (<<f>> \o s)[i] = s[i - 1]
<1>1. /\ <<f>> \in Seq(Frame) /\ Len(<<f>>) = 1 /\ <<f>>[1] = f
  OBVIOUS
<1>2. /\ <<f>> \o s \in Seq(Frame) /\ Len(<<f>> \o s) = 1 + Len(s)
      /\ \A i \in 1..(1 + Len(s)) :
           (<<f>> \o s)[i] = IF i <= 1 THEN <<f>>[i] ELSE s[i - 1]
      /\ Len(s) \in Nat
  BY <1>1, ConcatProperties, LenProperties
<1>. QED
  BY <1>1, <1>2, LenProperties

LEMMA NoFrames == \A kinds : ~In(<<>>, kinds)
  BY DEF In

\* The frames that handlers put on the stack.
LEMMA Frames ==
  ASSUME NEW left \in SUBSET Monitors,
         NEW where \in {"lock", "show", "recreate", "unlock", "deactivate"}
  PROVE  /\ Suspended(where, left) \in Frame
         /\ Suspended(where, left).in = where
         /\ Suspended(where, left).left = left /\ Suspended(where, left).waits
         /\ [in |-> where, left |-> left, waits |-> FALSE] \in Frame
         /\ <<[in |-> where, left |-> left, waits |-> FALSE]>> \in Seq(Frame)
         /\ <<Suspended(where, left)>> \in Seq(Frame)
<1>1. /\ Suspended(where, left) \in Frame
      /\ [in |-> where, left |-> left, waits |-> FALSE] \in Frame
  BY DEF Suspended, Frame
<1>. QED
  BY <1>1 DEF Suspended

-----------------------------------------------------------------------------
(***************************************************************************)
(* Types.                                                                  *)
(***************************************************************************)
LEMMA AlarmsBecomeTypes ==
  ASSUME TypeOK, NEW keep \in SUBSET AlarmId, NEW add \in SUBSET AlarmId,
         AlarmsBecome(keep, add)
  PROVE  /\ alarms' \subseteq AlarmId /\ fired' \subseteq alarms'
         /\ queue' \in Seq(Event) /\ Len(queue') <= MaxQueue
         /\ ignored' \in Reasons
<1>1. queue \in Seq(Event) /\ Len(queue) <= MaxQueue
  BY DEF TypeOK
<1>2. queue' \in Seq(Event) /\ Len(queue') = Len(queue)
  BY <1>1, WithoutIs DEF AlarmsBecome
<1>3. alarms' \subseteq AlarmId /\ fired' \subseteq alarms'
  BY DEF TypeOK, AlarmsBecome
<1>4. ignored' \in Reasons
  BY DEF TypeOK, AlarmsBecome, Reasons
<1>. QED
  BY <1>1, <1>2, <1>3, <1>4

LEMMA StackTypes ==
  ASSUME TypeOK, stack # <<>>
  PROVE  /\ Tail(stack) \in Seq(Frame) /\ stack[1] \in Frame
         /\ stack[1].left \subseteq Monitors
<1>1. Tail(stack) \in Seq(Frame) /\ stack[1] \in Frame
  BY Pop DEF TypeOK
<1>. QED
  BY <1>1 DEF Frame

LEMMA LoopTypes ==
  ASSUME TypeOK
  PROVE  LoopBroken \in Seq(Frame)
<1>1. CASE stack # <<>> /\ stack[1].in = "show"
  <2>1. Tail(stack) \in Seq(Frame) /\ Suspended("show", {}) \in Frame
    BY <1>1, StackTypes, Frames
  <2>2. <<Suspended("show", {})>> \o Tail(stack) \in Seq(Frame)
    BY <2>1, Push
  <2>. QED
    BY <1>1, <2>2 DEF LoopBroken
<1>2. CASE ~(stack # <<>> /\ stack[1].in = "show")
  BY <1>2 DEF LoopBroken, TypeOK
<1>. QED
  BY <1>1, <1>2

LEMMA QueueTypes ==
  ASSUME TypeOK
  PROVE  /\ queue # <<>> => Tail(queue) \in Seq(Event) /\ Len(Tail(queue)) <= MaxQueue
         /\ \A gone : /\ Without(queue, gone) \in Seq(Event)
                      /\ Len(Without(queue, gone)) <= MaxQueue
         /\ \A e \in Event : Room => /\ Append(queue, e) \in Seq(Event)
                                     /\ Len(Append(queue, e)) <= MaxQueue
<1>1. /\ queue \in Seq(Event) /\ Len(queue) <= MaxQueue /\ MaxQueue \in Nat
      /\ Len(queue) \in Nat
  BY BoundAssumption, LenProperties DEF TypeOK
<1>2. queue # <<>> => Tail(queue) \in Seq(Event) /\ Len(Tail(queue)) = Len(queue) - 1
  BY <1>1, TailHas
<1>3. \A gone : Without(queue, gone) \in Seq(Event) /\ Len(Without(queue, gone)) = Len(queue)
  BY <1>1, WithoutIs
<1>4. \A e \in Event : Append(queue, e) \in Seq(Event)
                       /\ Len(Append(queue, e)) = Len(queue) + 1
  BY <1>1, AppendHas
<1>. QED
  BY <1>1, <1>2, <1>3, <1>4 DEF Room

\* Every change of the alarms is one of the same kind.
LEMMA AlarmsChange ==
  /\ \A new, changed : set_timeouts(new, changed) =>
       \E keep, add \in SUBSET AlarmId : AlarmsBecome(keep, add)
  /\ manager_activated => \E keep, add \in SUBSET AlarmId : AlarmsBecome(keep, add)
  /\ manager_deactivated => \E keep, add \in SUBSET AlarmId : AlarmsBecome(keep, add)
<1>1. ASSUME NEW new, NEW changed, set_timeouts(new, changed)
      PROVE  \E keep, add \in SUBSET AlarmId : AlarmsBecome(keep, add)
  <2>. DEFINE more == IF /\ "ALARM_DEACTIVATE" \notin alarms
                         /\ changed \/ "ALARM_ACTIVATE" \notin alarms
                      THEN {"ALARM_ACTIVATE"} ELSE {}
              kept == IF new.lock_with_saver THEN AlarmId ELSE AlarmId \ {"ALARM_LOCK"}
  <2>1. {"ALARM_DEACTIVATE"} \in SUBSET AlarmId /\ {} \in SUBSET AlarmId
        /\ more \in SUBSET AlarmId /\ kept \in SUBSET AlarmId
    BY DEF AlarmId
  <2>2. AlarmsBecome({"ALARM_DEACTIVATE"}, {}) \/ AlarmsBecome(kept, more)
    BY <1>1 DEF set_timeouts
  <2>. QED
    BY <2>1, <2>2
<1>2. ASSUME manager_activated
      PROVE  \E keep, add \in SUBSET AlarmId : AlarmsBecome(keep, add)
  <2>. DEFINE more == {"ALARM_DEACTIVATE"} \cup
                 (IF prefs.lock_with_saver /\ ~zero THEN {"ALARM_LOCK"} ELSE {})
  <2>1. AlarmId \ {"ALARM_ACTIVATE"} \in SUBSET AlarmId /\ more \in SUBSET AlarmId
    BY DEF AlarmId
  <2>2. AlarmsBecome(AlarmId \ {"ALARM_ACTIVATE"}, more)
    BY <1>2 DEF manager_activated
  <2>. QED
    BY <2>1, <2>2
<1>3. ASSUME manager_deactivated
      PROVE  \E keep, add \in SUBSET AlarmId : AlarmsBecome(keep, add)
  <2>. DEFINE more == IF prefs.enabled THEN {"ALARM_ACTIVATE"} ELSE {}
  <2>1. {"ALARM_ACTIVATE"} \in SUBSET AlarmId /\ more \in SUBSET AlarmId
    BY DEF AlarmId
  <2>2. AlarmsBecome({"ALARM_ACTIVATE"}, more)
    BY <1>3 DEF manager_deactivated
  <2>. QED
    BY <2>1, <2>2
<1>. QED
  BY <1>1, <1>2, <1>3

LEMMA SetTimeoutsTypes ==
  ASSUME TypeOK, NEW new \in Preferences, NEW changed \in BOOLEAN,
         set_timeouts(new, changed)
  PROVE  /\ prefs' \in Preferences /\ zero' \in BOOLEAN
         /\ alarms' \subseteq AlarmId /\ fired' \subseteq alarms'
         /\ queue' \in Seq(Event) /\ Len(queue') <= MaxQueue
         /\ ignored' \in Reasons
<1>1. prefs' \in Preferences
  BY DEF set_timeouts
<1>2. zero' \in BOOLEAN
  BY DEF set_timeouts, TypeOK, Preferences
<1>3. PICK keep \in SUBSET AlarmId, add \in SUBSET AlarmId : AlarmsBecome(keep, add)
  BY AlarmsChange
<1>. QED
  BY <1>1, <1>2, <1>3, AlarmsBecomeTypes

LEMMA ManagerTypes ==
  ASSUME TypeOK, manager_activated \/ manager_deactivated
  PROVE  /\ alarms' \subseteq AlarmId /\ fired' \subseteq alarms'
         /\ queue' \in Seq(Event) /\ Len(queue') <= MaxQueue
         /\ ignored' \in Reasons
<1>1. PICK keep \in SUBSET AlarmId, add \in SUBSET AlarmId : AlarmsBecome(keep, add)
  BY AlarmsChange
<1>. QED
  BY <1>1, AlarmsBecomeTypes

LEMMA ActivateTypes ==
  ASSUME TypeOK, Activate
  PROVE  /\ wl_lock' \in BOOLEAN /\ stack' \in Seq(Frame)
         /\ object' \in {"none", "pending", "granted", "finished"}
         /\ told' \in BOOLEAN
<1>1. stack \in Seq(Frame)
  BY DEF TypeOK
<1>2. <<Suspended("lock", {})>> \o stack \in Seq(Frame)
  BY <1>1, Frames, Push
<1>3. stack' \in Seq(Frame)
  BY <1>1, <1>2 DEF Activate
<1>4. /\ wl_lock' \in BOOLEAN /\ told' \in BOOLEAN
      /\ object' \in {"none", "pending", "granted", "finished"}
  BY DEF Activate, TypeOK
<1>. QED
  BY <1>3, <1>4

LEMMA RealizeTypes ==
  ASSUME TypeOK, stack # <<>>, NEW m \in stack[1].left, NEW as,
         NEW where \in {"show", "recreate"}, Realize(m, as, where, stack[1].left \ {m})
  PROVE  /\ windows' \in [Monitors -> {"none", "plain", "added", "surface"}]
         /\ stack' \in Seq(Frame)
         /\ error' \in Errors
<1>1. /\ stack \in Seq(Frame) /\ Tail(stack) \in Seq(Frame)
      /\ m \in Monitors /\ stack[1].left \ {m} \in SUBSET Monitors
  BY StackTypes DEF TypeOK
<1>2. /\ Suspended(where, stack[1].left \ {m}) \in Frame
      /\ [in |-> where, left |-> stack[1].left \ {m}, waits |-> FALSE] \in Frame
  BY <1>1, Frames
<1>3. /\ <<Suspended(where, stack[1].left \ {m})>> \o Tail(stack) \in Seq(Frame)
      /\ <<[in |-> where, left |-> stack[1].left \ {m}, waits |-> FALSE]>> \o Tail(stack)
           \in Seq(Frame)
  BY <1>1, <1>2, Push
<1>4. stack' \in Seq(Frame)
  BY <1>1, <1>3 DEF Realize
<1>5. windows' \in [Monitors -> {"none", "plain", "added", "surface"}]
  BY <1>1 DEF Realize, TypeOK
<1>6. error' \in Errors
  BY DEF Realize, TypeOK
<1>. QED
  BY <1>4, <1>5, <1>6

LEMMA RequestTypes ==
  ASSUME TypeOK, DestroyRequest \/ UnlockRequest
  PROVE  /\ object' \in {"none", "pending", "granted", "finished"}
         /\ told' \in BOOLEAN /\ session' \in {"open", "locked"}
         /\ queue' \in Seq(Event) /\ Len(queue') <= MaxQueue
         /\ error' \in Errors
<1>1. queue' \in Seq(Event) /\ Len(queue') <= MaxQueue
  BY QueueTypes DEF DestroyRequest, UnlockRequest
<1>2. /\ object' \in {"none", "pending", "granted", "finished"}
      /\ told' \in BOOLEAN /\ session' \in {"open", "locked"}
  BY DEF DestroyRequest, UnlockRequest, TypeOK
<1>3. error' \in Errors
  BY DEF DestroyRequest, UnlockRequest, TypeOK
<1>. QED
  BY <1>1, <1>2, <1>3

LEMMA BaredTypes ==
  TypeOK => Bared \in [Monitors -> {"none", "plain", "added", "surface"}]
  BY DEF TypeOK, Bared

LEMMA DispatchTypes ==
  ASSUME TypeOK, queue # <<>>,
         IdledActivate \/ Locked \/ Finished \/ Fullscreen \/ IdledLock
           \/ IdledDeactivateOrResumed,
         UNCHANGED <<active, prefs, zero, idle, fullscreen, inhibited>>
  PROVE  TypeOK'
<1>. USE DEF compositor
<1>q. Tail(queue) \in Seq(Event) /\ Len(Tail(queue)) <= MaxQueue
  BY QueueTypes
<1>1. CASE IdledActivate
  <2>1. /\ wl_lock' \in BOOLEAN /\ stack' \in Seq(Frame)
        /\ object' \in {"none", "pending", "granted", "finished"}
        /\ told' \in BOOLEAN
    <3>1. CASE Activate
      BY <3>1, ActivateTypes
    <3>2. CASE UNCHANGED <<wl_lock, stack, object, told>>
      BY <3>2 DEF TypeOK
    <3>. QED
      BY <1>1, <3>1, <3>2 DEF IdledActivate
  <2>2. lock_active' \in BOOLEAN /\ ignored' \in Reasons
    BY <1>1 DEF IdledActivate, TypeOK, Reasons
  <2>. QED
    BY <1>1, <1>q, <2>1, <2>2 DEF IdledActivate, TypeOK
<1>2. CASE Locked
  BY <1>2, <1>q DEF Locked, TypeOK
<1>3. CASE Finished
  <2>1. /\ object' \in {"none", "pending", "granted", "finished"}
        /\ told' \in BOOLEAN /\ session' \in {"open", "locked"}
        /\ queue' \in Seq(Event) /\ Len(queue') <= MaxQueue
        /\ error' \in Errors
    BY <1>3, RequestTypes DEF Finished
  <2>2. stack \in Seq(Frame) /\ <<Suspended("unlock", {})>> \o stack \in Seq(Frame)
    BY Frames, Push DEF TypeOK
  <2>3. /\ stack' \in Seq(Frame) /\ wl_lock' \in BOOLEAN
        /\ windows' \in [Monitors -> {"none", "plain", "added", "surface"}]
    BY <1>3, <2>2, BaredTypes DEF Finished, TypeOK
  <2>4. /\ UNCHANGED <<lock_active, locked, alarms, fired, ignored>>
    BY <1>3 DEF Finished
  <2>. QED
    BY <2>1, <2>3, <2>4 DEF TypeOK
<1>4. CASE Fullscreen
  <2>1. AlarmsBecome(AlarmId, {"ALARM_ACTIVATE"}) /\ {"ALARM_ACTIVATE"} \in SUBSET AlarmId
    BY <1>4 DEF Fullscreen, AlarmId
  <2>2. /\ alarms' \subseteq AlarmId /\ fired' \subseteq alarms'
        /\ queue' \in Seq(Event) /\ Len(queue') <= MaxQueue /\ ignored' \in Reasons
    BY <2>1, AlarmsBecomeTypes
  <2>. QED
    BY <1>4, <2>2 DEF Fullscreen, TypeOK
<1>5. CASE IdledLock
  <2>1. AlarmsBecome(AlarmId \ {"ALARM_LOCK"}, {})
    BY <1>5 DEF IdledLock
  <2>2. /\ alarms' \subseteq AlarmId /\ fired' \subseteq alarms'
        /\ queue' \in Seq(Event) /\ Len(queue') <= MaxQueue /\ ignored' \in Reasons
    <3>1. AlarmId \ {"ALARM_LOCK"} \in SUBSET AlarmId /\ {} \in SUBSET AlarmId
      OBVIOUS
    <3>. QED
      BY <2>1, <3>1, AlarmsBecomeTypes
  <2>3. lock_active' \in BOOLEAN
    BY <1>5 DEF IdledLock, TypeOK
  <2>. QED
    BY <1>5, <2>2, <2>3 DEF IdledLock, TypeOK
<1>6. CASE IdledDeactivateOrResumed
  BY <1>6, <1>q DEF IdledDeactivateOrResumed, TypeOK
<1>. QED
  BY <1>1, <1>2, <1>3, <1>4, <1>5, <1>6

LEMMA ResumedEvents ==
  ASSUME TypeOK, UserActs
  PROVE  \E r \in Seq(OfAlarm(fired)) :
           queue' = queue \o r /\ Len(r) = Cardinality(fired)
<1>1. fired \subseteq AlarmId
  BY DEF TypeOK
<1>2. PICK order \in [1..Cardinality(fired) -> fired] :
        queue' = queue \o [i \in DOMAIN order |-> <<"resumed", order[i]>>]
  BY DEF UserActs
<1>3. Cardinality(fired) \in Nat
  <2>1. IsFiniteSet(AlarmId)
    <3>1. IsFiniteSet({}) /\ AlarmId = (({} \cup {"ALARM_ACTIVATE"}) \cup {"ALARM_LOCK"})
                                       \cup {"ALARM_DEACTIVATE"}
      BY FS_EmptySet DEF AlarmId
    <3>. QED
      BY <3>1, FS_AddElement
  <2>2. IsFiniteSet(fired)
    BY <1>1, <2>1, FS_Subset
  <2>. QED
    BY <2>2, FS_CardinalityType
<1>. DEFINE resumed == [i \in DOMAIN order |-> <<"resumed", order[i]>>]
<1>4. resumed = [i \in 1..Cardinality(fired) |-> <<"resumed", order[i]>>]
  OBVIOUS
<1>5. \A i \in 1..Cardinality(fired) : <<"resumed", order[i]>> \in OfAlarm(fired)
  BY DEF OfAlarm
<1>6. resumed \in Seq(OfAlarm(fired))
  BY <1>3, <1>4, <1>5, IsASeq
<1>7. Len(resumed) = Cardinality(fired)
  BY <1>3, <1>4, <1>6, LenProperties
<1>. QED
  BY <1>2, <1>6, <1>7

LEMMA UserActsTypes ==
  ASSUME TypeOK, UserActs
  PROVE  fired' = {} /\ queue' \in Seq(Event) /\ Len(queue') <= MaxQueue
<1>1. queue \in Seq(Event) /\ Len(queue) \in Nat /\ fired \subseteq AlarmId
  BY LenProperties DEF TypeOK
<1>2. PICK r \in Seq(OfAlarm(fired)) :
        queue' = queue \o r /\ Len(r) = Cardinality(fired)
  BY ResumedEvents
<1>3. r \in Seq(Event)
  <2>1. OfAlarm(fired) \subseteq Event
    BY <1>1, Events
  <2>. QED
    BY <1>2, <2>1
<1>4. queue' \in Seq(Event) /\ Len(queue') = Len(queue) + Cardinality(fired)
  BY <1>1, <1>2, <1>3, ConcatHas
<1>. QED
  BY <1>4 DEF UserActs

\* What the compositor and the user do leaves the daemon alone.
LEMMA ClientKept ==
  ASSUME TypeOK, client' = client,
         \/ compositor' = compositor
         \/ /\ object' \in {"none", "pending", "granted", "finished"}
            /\ told' \in BOOLEAN /\ session' \in {"open", "locked"},
         queue' \in Seq(Event), Len(queue') <= MaxQueue, fired' \subseteq alarms,
         idle' \in BOOLEAN \/ idle' = idle,
         fullscreen' \in BOOLEAN \/ fullscreen' = fullscreen,
         inhibited' \in BOOLEAN \/ inhibited' = inhibited,
         ignored' \in Reasons \/ ignored' = ignored
  PROVE  TypeOK'
<1>1. /\ active' = active /\ lock_active' = lock_active /\ windows' = windows
      /\ wl_lock' = wl_lock /\ locked' = locked /\ alarms' = alarms
      /\ prefs' = prefs /\ zero' = zero /\ stack' = stack /\ error' = error
  BY DEF client
<1>2. /\ object' \in {"none", "pending", "granted", "finished"}
      /\ told' \in BOOLEAN /\ session' \in {"open", "locked"}
  BY DEF compositor, TypeOK
<1>3. /\ idle' \in BOOLEAN /\ fullscreen' \in BOOLEAN /\ inhibited' \in BOOLEAN
      /\ ignored' \in Reasons
  BY DEF TypeOK
<1>. QED
  BY <1>1, <1>2, <1>3 DEF TypeOK

\* Every state of the daemon, of the compositor and of what is between them has
\* the type the model gives it; in particular an alarm that is idle for the
\* compositor is one that the daemon has armed.
THEOREM SessionTypes == Spec => []TypeOK
<1>1. Init => TypeOK
  <2>. SUFFICES ASSUME Init PROVE TypeOK
    OBVIOUS
  <2>1. /\ windows \in [Monitors -> {"none", "plain", "added", "surface"}]
        /\ alarms \subseteq AlarmId /\ prefs \in Preferences /\ zero \in BOOLEAN
    BY PrefsAssumption DEF Init, NoWindows, AlarmId
  <2>2. stack \in Seq(Frame) /\ queue \in Seq(Event) /\ Len(queue) <= MaxQueue
    BY BoundAssumption DEF Init
  <2>. QED
    BY <2>1, <2>2 DEF Init, TypeOK, Reasons
<1>2. TypeOK /\ [Next]_vars => TypeOK'
  <2>. SUFFICES ASSUME TypeOK, [Next]_vars PROVE TypeOK'
    OBVIOUS
  <2>1. CASE PrefsChanged
    <3>1. PICK new \in PrefsValues, changed \in BOOLEAN : set_timeouts(new, changed)
      BY <2>1 DEF PrefsChanged
    <3>2. /\ prefs' \in Preferences /\ zero' \in BOOLEAN
          /\ alarms' \subseteq AlarmId /\ fired' \subseteq alarms'
          /\ queue' \in Seq(Event) /\ Len(queue') <= MaxQueue /\ ignored' \in Reasons
      BY <3>1, SetTimeoutsTypes, PrefsAssumption
    <3>. QED
      BY <2>1, <3>2 DEF PrefsChanged, compositor, TypeOK
  <2>2. CASE ActivateRequest
    <3>1. /\ wl_lock' \in BOOLEAN /\ stack' \in Seq(Frame)
          /\ object' \in {"none", "pending", "granted", "finished"}
          /\ told' \in BOOLEAN
      BY <2>2, ActivateTypes DEF ActivateRequest
    <3>2. lock_active' \in BOOLEAN
      BY <2>2 DEF ActivateRequest
    <3>. QED
      BY <2>2, <3>1, <3>2 DEF ActivateRequest, compositor, TypeOK
  <2>3. CASE LockReturns
    <3>1. stack # <<>>
      BY <2>3 DEF LockReturns, Resumes
    <3>2. stack' \in Seq(Frame)
      <4>1. Tail(stack) \in Seq(Frame)
        BY <3>1, StackTypes
      <4>2. [in |-> "show", left |-> Monitors, waits |-> FALSE] \in Frame
        BY Frames
      <4>3. <<[in |-> "show", left |-> Monitors, waits |-> FALSE]>> \o Tail(stack)
              \in Seq(Frame)
        BY <4>1, <4>2, Push
      <4>. QED
        BY <2>3, <4>1, <4>3 DEF LockReturns
    <3>3. /\ active' \in BOOLEAN /\ lock_active' \in BOOLEAN
          /\ windows' \in [Monitors -> {"none", "plain", "added", "surface"}]
          /\ error' \in Errors /\ ignored' \in Reasons
      BY <2>3 DEF LockReturns, compositor, TypeOK, Reasons
    <3>. QED
      BY <2>3, <3>2, <3>3 DEF LockReturns, compositor, TypeOK
  <2>4. CASE ShowNext
    <3>1. stack # <<>>
      BY <2>4 DEF ShowNext, Resumes
    <3>2. /\ windows' \in [Monitors -> {"none", "plain", "added", "surface"}]
          /\ stack' \in Seq(Frame)
          /\ error' \in Errors
      BY <2>4, <3>1, RealizeTypes DEF ShowNext
    <3>. QED
      BY <2>4, <3>2 DEF ShowNext, compositor, TypeOK
  <2>5. CASE Shown
    <3>1. stack # <<>> /\ stack' = Tail(stack)
      BY <2>5 DEF Shown, Resumes
    <3>2. stack' \in Seq(Frame)
      BY <3>1, StackTypes
    <3>3. /\ alarms' \subseteq AlarmId /\ fired' \subseteq alarms'
          /\ queue' \in Seq(Event) /\ Len(queue') <= MaxQueue /\ ignored' \in Reasons
      BY <2>5, ManagerTypes DEF Shown
    <3>4. lock_active' \in BOOLEAN
      BY <2>5 DEF Shown, manager_activated
    <3>. QED
      BY <2>5, <3>2, <3>3, <3>4 DEF Shown, compositor, TypeOK
  <2>6. CASE MonitorsChanged
    <3>1. [in |-> "recreate", left |-> Monitors, waits |-> FALSE] \in Frame
      BY Frames
    <3>2. LoopBroken \in Seq(Frame)
      BY LoopTypes
    <3>3. <<[in |-> "recreate", left |-> Monitors, waits |-> FALSE]>> \o LoopBroken
            \in Seq(Frame)
      BY <3>1, <3>2, Push
    <3>4. stack' \in Seq(Frame) /\ error' \in Errors
      BY <2>6, <3>3 DEF MonitorsChanged, TypeOK
    <3>. QED
      BY <2>6, <3>4 DEF MonitorsChanged, compositor, TypeOK, NoWindows
  <2>7. CASE RecreateNext
    <3>1. stack # <<>>
      BY <2>7 DEF RecreateNext, Resumes
    <3>2. /\ windows' \in [Monitors -> {"none", "plain", "added", "surface"}]
          /\ stack' \in Seq(Frame)
          /\ error' \in Errors
      <4>1. CASE stack' = Tail(stack) /\ UNCHANGED <<windows, error>>
        <5>1. Tail(stack) \in Seq(Frame)
          BY <3>1, StackTypes
        <5>. QED
          BY <4>1, <5>1 DEF TypeOK
      <4>2. CASE \E m \in stack[1].left :
                   Realize(m, IF wl_lock THEN "added" ELSE "plain", "recreate",
                           stack[1].left \ {m})
        BY <3>1, <4>2, RealizeTypes
      <4>3. CASE error' = "role" /\ UNCHANGED <<windows, stack>>
        BY <4>3 DEF TypeOK
      <4>. QED
        BY <2>7, <4>1, <4>2, <4>3 DEF RecreateNext
    <3>. QED
      BY <2>7, <3>2 DEF RecreateNext, compositor, TypeOK
  <2>8. CASE DeactivateUnlocked
    <3>1. queue' \in Seq(Event) /\ Len(queue') <= MaxQueue
      BY <2>8, QueueTypes DEF DeactivateUnlocked
    <3>2. /\ alarms' \subseteq AlarmId /\ fired' \subseteq alarms'
          /\ windows' \in [Monitors -> {"none", "plain", "added", "surface"}]
          /\ ignored' \in Reasons
      BY <2>8 DEF DeactivateUnlocked, AlarmId, NoWindows, Reasons
    <3>3. /\ object' \in {"none", "pending", "granted", "finished"}
          /\ error' \in Errors
      BY <2>8 DEF DeactivateUnlocked, compositor, TypeOK
    <3>. QED
      BY <2>8, <3>1, <3>2, <3>3 DEF DeactivateUnlocked, compositor, TypeOK
  <2>9. CASE DeactivateLocked
    <3>1. /\ object' \in {"none", "pending", "granted", "finished"}
          /\ told' \in BOOLEAN /\ session' \in {"open", "locked"}
          /\ queue' \in Seq(Event) /\ Len(queue') <= MaxQueue
          /\ error' \in Errors
      BY <2>9, RequestTypes DEF DeactivateLocked
    <3>2. stack' \in Seq(Frame)
      <4>1. <<Suspended("deactivate", {})>> \in Seq(Frame)
        BY Frames
      <4>. QED
        BY <2>9, <4>1 DEF DeactivateLocked
    <3>. QED
      BY <2>9, <3>1, <3>2 DEF DeactivateLocked, compositor, TypeOK, NoWindows
  <2>10. CASE UnlockReturns
    <3>1. stack # <<>> /\ stack' = Tail(stack)
      BY <2>10 DEF UnlockReturns, Resumes
    <3>2. stack' \in Seq(Frame)
      BY <3>1, StackTypes
    <3>3. /\ alarms' \subseteq AlarmId /\ fired' \subseteq alarms'
          /\ queue' \in Seq(Event) /\ Len(queue') <= MaxQueue
          /\ active' \in BOOLEAN /\ lock_active' \in BOOLEAN /\ ignored' \in Reasons
      <4>1. CASE Deactivated
        BY <4>1, ManagerTypes DEF Deactivated
      <4>2. CASE UNCHANGED <<active, lock_active, alarms, fired, queue, ignored>>
        BY <4>2 DEF TypeOK
      <4>. QED
        BY <2>10, <4>1, <4>2 DEF UnlockReturns
    <3>4. windows' \in [Monitors -> {"none", "plain", "added", "surface"}]
      BY <2>10, BaredTypes DEF UnlockReturns
    <3>5. /\ wl_lock' = FALSE /\ locked' = FALSE
          /\ UNCHANGED <<prefs, zero, error, compositor, idle, fullscreen, inhibited>>
      BY <2>10 DEF UnlockReturns
    <3>6. /\ prefs' \in Preferences /\ zero' \in BOOLEAN
          /\ error' \in Errors
          /\ idle' \in BOOLEAN /\ fullscreen' \in BOOLEAN /\ inhibited' \in BOOLEAN
      BY <3>5 DEF TypeOK
    <3>7. /\ object' \in {"none", "pending", "granted", "finished"} /\ told' \in BOOLEAN
          /\ session' \in {"open", "locked"}
      BY <3>5 DEF compositor, TypeOK
    <3>. QED
      BY <3>2, <3>3, <3>4, <3>5, <3>6, <3>7, Zenon DEF TypeOK
  <2>11. CASE Dispatch
    BY <2>11, DispatchTypes DEF Dispatch
  <2>12. CASE Grants \/ Denies \/ Revokes
    <3>1. queue' \in Seq(Event) /\ Len(queue') <= MaxQueue
      <4>1. <<"locked", "lock">> \in Event /\ <<"finished", "lock">> \in Event
        BY DEF Event, OfLock
      <4>. QED
        BY <2>12, <4>1, QueueTypes DEF Grants, Denies, Revokes
    <3>2. client' = client /\ fired' = fired /\ idle' = idle /\ fullscreen' = fullscreen
          /\ inhibited' = inhibited /\ ignored' = ignored
      BY <2>12 DEF Grants, Denies, Revokes
    <3>3. /\ object' \in {"none", "pending", "granted", "finished"}
          /\ told' \in BOOLEAN /\ session' \in {"open", "locked"}
      BY <2>12 DEF Grants, Denies, Revokes, TypeOK
    <3>4. fired' \subseteq alarms
      BY <3>2 DEF TypeOK
    <3>. QED
      BY <3>1, <3>2, <3>3, <3>4, ClientKept
  <2>13. CASE AlarmFires
    <3>1. PICK id \in alarms \ fired :
            fired' = fired \cup {id} /\ queue' = Append(queue, <<"idled", id>>) /\ Room
      BY <2>13 DEF AlarmFires
    <3>2. <<"idled", id>> \in Event
      BY <3>1 DEF Event, OfAlarm, TypeOK
    <3>3. queue' \in Seq(Event) /\ Len(queue') <= MaxQueue
      BY <3>1, <3>2, QueueTypes
    <3>4. /\ client' = client /\ compositor' = compositor /\ idle' = idle
          /\ fullscreen' = fullscreen /\ inhibited' = inhibited /\ ignored' = ignored
      BY <2>13 DEF AlarmFires
    <3>5. fired' \subseteq alarms
      BY <3>1 DEF TypeOK
    <3>. QED
      BY <3>3, <3>4, <3>5, ClientKept
  <2>14. CASE UserActs
    <3>1. fired' = {} /\ queue' \in Seq(Event) /\ Len(queue') <= MaxQueue
      BY <2>14, UserActsTypes
    <3>2. /\ client' = client /\ compositor' = compositor /\ idle' \in BOOLEAN
          /\ fullscreen' = fullscreen /\ inhibited' = inhibited /\ ignored' = ignored
      BY <2>14 DEF UserActs
    <3>. QED
      BY <3>1, <3>2, ClientKept
  <2>15. CASE UserLeaves \/ FullscreenChanges \/ InhibitionChanges \/ UNCHANGED vars
    <3>1. /\ client' = client /\ compositor' = compositor /\ queue' = queue
          /\ fired' = fired
      BY <2>15 DEF UserLeaves, FullscreenChanges, InhibitionChanges, vars
    <3>2. /\ idle' \in BOOLEAN /\ fullscreen' \in BOOLEAN /\ inhibited' \in BOOLEAN
          /\ ignored' \in Reasons
      BY <2>15 DEF UserLeaves, FullscreenChanges, InhibitionChanges, vars, TypeOK, Reasons
    <3>3. queue' \in Seq(Event) /\ Len(queue') <= MaxQueue /\ fired' \subseteq alarms
      BY <3>1 DEF TypeOK
    <3>. QED
      BY <3>1, <3>2, <3>3, ClientKept
  <2>. QED
    BY <2>1, <2>2, <2>3, <2>4, <2>5, <2>6, <2>7, <2>8, <2>9, <2>10, <2>11, <2>12,
       <2>13, <2>14, <2>15 DEF Next
<1>. QED
  BY <1>1, <1>2, PTL DEF Spec

-----------------------------------------------------------------------------
(***************************************************************************)
(* The session lock.                                                       *)
(***************************************************************************)
\* What the daemon's flags say of the compositor's object, while it lives.
Keeping ==
  /\ locked => wl_lock /\ told
  /\ object # "none" => wl_lock
  /\ object = "granted" => told
  /\ session = "locked" <=> object = "granted"

\* Only an object that is there has events on their way.
Announced ==
  /\ object = "none" => ~Has(queue, OfLock)
  /\ Has(queue, {<<"locked", "lock">>}) => told

\* One handler at most is letting go of a lock, on top of all others, and an
\* idle manager has a lock only where gs_manager_activate waits for it.
Nested ==
  /\ stack # <<>> => ~In(Tail(stack), Letting)
  /\ stack # <<>> /\ stack[1].in \in Letting =>
       object = "none" /\ wl_lock /\ stack[1].waits
  /\ wl_lock /\ ~active => In(stack, {"lock"})

LockInv == error # "invalid_unlock" /\ (Alive => Keeping /\ Announced /\ Nested)

\* The handlers on the stack are as they were, or the innermost has gone on.
LEMMA NestedGoesOn ==
  ASSUME TypeOK, stack # <<>>, Nested, stack[1].in \notin Letting,
         NEW f \in Frame, f.in \notin Letting,
         stack' = Tail(stack) \/ stack' = <<f>> \o Tail(stack)
  PROVE  /\ ~In(stack', Letting)
         /\ stack' # <<>> => ~In(Tail(stack'), Letting) /\ stack'[1].in \notin Letting
<1>1. /\ Tail(stack) \in Seq(Frame) /\ ~In(Tail(stack), Letting)
  BY StackTypes DEF Nested
<1>2. CASE stack' = Tail(stack)
  <2>1. stack' # <<>> => (In(stack', Letting) <=>
                            stack'[1].in \in Letting \/ In(Tail(stack'), Letting))
    BY <1>1, <1>2, Pop
  <2>. QED
    BY <1>1, <1>2, <2>1
<1>3. CASE stack' = <<f>> \o Tail(stack)
  BY <1>1, <1>3, Push
<1>. QED
  BY <1>2, <1>3

\* Nothing of the lock has changed, nor has the manager become idle.
LEMMA LockUntouched ==
  ASSUME TypeOK, Alive, LockInv, UNCHANGED <<wl_lock, locked, compositor>>,
         active' = active \/ active',
         error' # "invalid_unlock",
         Has(queue', OfLock) => Has(queue, OfLock),
         Has(queue', {<<"locked", "lock">>}) => Has(queue, {<<"locked", "lock">>}),
         stack' = stack \/ Nested'
  PROVE  LockInv'
<1>1. Keeping /\ Announced /\ Nested
  BY DEF LockInv
<1>2. /\ wl_lock' = wl_lock /\ locked' = locked /\ object' = object /\ told' = told
      /\ session' = session
  BY DEF compositor
<1>3. Keeping'
  BY <1>1, <1>2 DEF Keeping
<1>4. Announced'
  BY <1>1, <1>2 DEF Announced
<1>5. ASSUME stack' = stack PROVE Nested'
  <2>1. \A kinds : In(stack', kinds) <=> In(stack, kinds)
    BY <1>5
  <2>2. /\ stack' # <<>> => ~In(Tail(stack'), Letting)
        /\ stack' # <<>> /\ stack'[1].in \in Letting =>
             object = "none" /\ wl_lock /\ stack'[1].waits
    BY <1>1, <1>5 DEF Nested
  <2>3. wl_lock /\ ~active' => In(stack', {"lock"})
    BY <1>1, <2>1 DEF Nested
  <2>. QED
    BY <1>2, <2>2, <2>3 DEF Nested
<1>. QED
  BY <1>3, <1>4, <1>5 DEF LockInv

\* The queue has lost some events, or they have become void.
LEMMA FewerEvents ==
  ASSUME TypeOK, NEW keep \in SUBSET AlarmId, NEW add \in SUBSET AlarmId
  PROVE  /\ AlarmsBecome(keep, add) =>
              /\ Has(queue', OfLock) => Has(queue, OfLock)
              /\ Has(queue', {<<"locked", "lock">>}) => Has(queue, {<<"locked", "lock">>})
         /\ queue # <<>> /\ queue' = Tail(queue) =>
              /\ Has(queue', OfLock) => Has(queue, OfLock)
              /\ Has(queue', {<<"locked", "lock">>}) => Has(queue, {<<"locked", "lock">>})
<1>1. queue \in Seq(Event) /\ Void \notin OfLock /\ Void \notin {<<"locked", "lock">>}
  BY Events DEF TypeOK, Void
<1>2. ASSUME NEW gone, NEW events, Void \notin events, Has(Without(queue, gone), events)
      PROVE  Has(queue, events)
  <2>1. Has(queue, events \ gone)
    BY <1>1, <1>2, WithoutHas
  <2>. QED
    BY <2>1 DEF Has
<1>3. ASSUME AlarmsBecome(keep, add)
      PROVE  /\ Has(queue', OfLock) => Has(queue, OfLock)
             /\ Has(queue', {<<"locked", "lock">>}) => Has(queue, {<<"locked", "lock">>})
  BY <1>1, <1>2, <1>3 DEF AlarmsBecome
<1>4. ASSUME queue # <<>>, queue' = Tail(queue)
      PROVE  /\ Has(queue', OfLock) => Has(queue, OfLock)
             /\ Has(queue', {<<"locked", "lock">>}) => Has(queue, {<<"locked", "lock">>})
  <2>1. \A events : Has(Tail(queue), events) => Has(queue, events)
    BY <1>1, <1>4, TailHas
  <2>. QED
    BY <1>4, <2>1
<1>. QED
  BY <1>3, <1>4

\* The lock object is gone, and the events of it are.
LEMMA EventsGone ==
  ASSUME TypeOK, NEW gone, OfLock \subseteq gone, queue' = Without(queue, gone)
  PROVE  ~Has(queue', OfLock) /\ ~Has(queue', {<<"locked", "lock">>})
<1>1. queue \in Seq(Event) /\ Void \notin OfLock
  BY Events DEF TypeOK
<1>2. ~Has(Without(queue, gone), OfLock \cap gone)
  BY <1>1, WithoutHas
<1>3. OfLock \cap gone = OfLock
  OBVIOUS
<1>4. ~Has(queue', OfLock)
  BY <1>2, <1>3
<1>5. <<"locked", "lock">> \in OfLock
  BY DEF OfLock
<1>. QED
  BY <1>4, <1>5 DEF Has

\* An event at the head of the queue is on its way.
LEMMA HeadHas ==
  ASSUME TypeOK, queue # <<>>, NEW events, Head(queue) \in events
  PROVE  Has(queue, events)
<1>1. queue \in Seq(Event)
  BY DEF TypeOK
<1>2. Head(queue) = queue[1] /\ 1 \in DOMAIN queue
  BY <1>1, TailHas
<1>. QED
  BY <1>2 DEF Has

\* The frames of handlers that wait with nothing more to show.
LEMMA Waiting ==
  ASSUME NEW where \in {"lock", "unlock", "deactivate"}
  PROVE  /\ Suspended(where, {}) \in Frame /\ Suspended(where, {}).in = where
         /\ Suspended(where, {}).waits
  BY DEF Suspended, Frame

LEMMA ActivateLock ==
  ASSUME TypeOK, Alive, LockInv, Activate, UNCHANGED <<active, locked, session, error>>,
         Has(queue', OfLock) => Has(queue, OfLock),
         Has(queue', {<<"locked", "lock">>}) => Has(queue, {<<"locked", "lock">>})
  PROVE  LockInv'
<1>k. Keeping /\ Announced /\ Nested /\ error' # "invalid_unlock"
  BY DEF LockInv, Alive
<1>1. CASE active \/ wl_lock
  BY <1>1, <1>k, LockUntouched DEF Activate, compositor
<1>2. CASE ~active /\ ~wl_lock
  <2>1. /\ wl_lock' /\ object' = "pending" /\ told' = FALSE
        /\ stack' = <<Suspended("lock", {})>> \o stack
    BY <1>2 DEF Activate
  <2>2. object = "none" /\ ~locked /\ session # "locked" /\ ~Has(queue, OfLock)
    BY <1>2, <1>k DEF Keeping, Announced
  <2>3. Keeping'
    BY <2>1, <2>2 DEF Keeping
  <2>4. Announced'
    <3>1. ~Has(queue', OfLock)
      BY <2>2
    <3>2. <<"locked", "lock">> \in OfLock
      BY DEF OfLock
    <3>. QED
      BY <2>1, <3>1, <3>2 DEF Announced, Has
  <2>5. stack \in Seq(Frame) /\ ~In(stack, Letting)
    <3>1. stack \in Seq(Frame)
      BY DEF TypeOK
    <3>2. CASE stack = <<>>
      BY <3>1, <3>2, NoFrames
    <3>3. CASE stack # <<>>
      BY <1>2, <1>k, <3>1, <3>3, Pop DEF Nested
    <3>. QED
      BY <3>1, <3>2, <3>3
  <2>6. Nested'
    <3>1. Suspended("lock", {}) \in Frame /\ Suspended("lock", {}).in = "lock"
      BY Waiting
    <3>2. /\ stack'[1].in = "lock" /\ Tail(stack') = stack
          /\ In(stack', {"lock"})
      BY <2>1, <2>5, <3>1, Push
    <3>. QED
      BY <2>5, <3>2 DEF Nested, Letting
  <2>. QED
    BY <1>k, <2>3, <2>4, <2>6 DEF LockInv
<1>. QED
  BY <1>1, <1>2

LEMMA DispatchLock ==
  ASSUME TypeOK, Alive, LockInv, queue # <<>>,
         IdledActivate \/ Locked \/ Finished \/ Fullscreen \/ IdledLock
           \/ IdledDeactivateOrResumed,
         UNCHANGED active
  PROVE  LockInv'
<1>k. Keeping /\ Announced /\ Nested /\ error = "none"
  BY DEF LockInv, Alive
<1>q. queue' = Tail(queue) => /\ Has(queue', OfLock) => Has(queue, OfLock)
                              /\ Has(queue', {<<"locked", "lock">>})
                                   => Has(queue, {<<"locked", "lock">>})
  BY FewerEvents
<1>1. CASE IdledActivate
  <2>1. CASE Activate
    BY <1>1, <1>q, <1>k, <2>1, ActivateLock DEF IdledActivate
  <2>2. CASE UNCHANGED <<wl_lock, stack, object, told>>
    BY <1>1, <1>q, <1>k, <2>2, LockUntouched DEF IdledActivate, compositor
  <2>. QED
    BY <1>1, <2>1, <2>2 DEF IdledActivate
<1>2. CASE Locked
  <2>1. Has(queue, {<<"locked", "lock">>}) /\ Has(queue, OfLock)
    <3>1. Head(queue) \in {<<"locked", "lock">>} /\ Head(queue) \in OfLock
      BY <1>2 DEF Locked, OfLock
    <3>. QED
      BY <3>1, HeadHas
  <2>2. told /\ object # "none" /\ wl_lock
    BY <1>k, <2>1 DEF Announced, Keeping
  <2>3. Keeping'
    BY <1>2, <1>k, <2>2 DEF Locked, Keeping, compositor
  <2>4. Announced'
    BY <1>2, <1>q, <1>k, <2>2 DEF Locked, Announced, compositor
  <2>5. Nested'
    BY <1>2, <1>k, <2>2 DEF Locked, Nested, compositor, In
  <2>. QED
    BY <1>2, <1>k, <2>3, <2>4, <2>5 DEF Locked, LockInv
<1>3. CASE Finished
  <2>1. Has(queue, OfLock)
    <3>1. Head(queue) \in OfLock
      BY <1>3 DEF Finished, OfLock
    <3>. QED
      BY <3>1, HeadHas
  <2>2. object # "none" /\ wl_lock
    BY <1>k, <2>1 DEF Announced, Keeping
  <2>3. stack \in Seq(Frame) /\ ~In(stack, Letting)
    <3>1. stack \in Seq(Frame)
      BY DEF TypeOK
    <3>2. CASE stack = <<>>
      BY <3>1, <3>2, NoFrames
    <3>3. CASE stack # <<>>
      BY <2>2, <1>k, <3>1, <3>3, Pop DEF Nested
    <3>. QED
      BY <3>1, <3>2, <3>3
  <2>4. /\ object' = "none" /\ queue' = Without(queue, OfLock) /\ told' = told
    BY <1>3 DEF Finished, DestroyRequest, UnlockRequest
  <2>5. ~Has(queue', OfLock) /\ ~Has(queue', {<<"locked", "lock">>})
    BY <2>4, EventsGone
  <2>6. Announced'
    BY <2>5 DEF Announced
  <2>7. CASE locked
    <3>1. /\ told /\ session' = "open" /\ error' = error /\ wl_lock' = wl_lock
          /\ locked' = locked /\ stack' = <<Suspended("unlock", {})>> \o stack
      BY <1>3, <1>k, <2>7 DEF Finished, UnlockRequest, Keeping
    <3>2. Keeping'
      BY <2>2, <2>4, <3>1 DEF Keeping
    <3>3. /\ stack' # <<>> /\ stack'[1] = Suspended("unlock", {})
          /\ Tail(stack') = stack /\ Suspended("unlock", {}).waits
          /\ In(stack, {"lock"}) => In(stack', {"lock"})
      <4>1. Suspended("unlock", {}) \in Frame /\ Suspended("unlock", {}).waits
        BY Waiting
      <4>. QED
        BY <2>3, <3>1, <4>1, Push
    <3>4. Nested'
      BY <1>k, <2>2, <2>3, <2>4, <3>1, <3>3 DEF Nested
    <3>. QED
      BY <1>k, <2>6, <3>1, <3>2, <3>4 DEF LockInv
  <2>8. CASE ~locked
    <3>1. /\ session' = session /\ wl_lock' = FALSE /\ locked' = locked
          /\ stack' = stack /\ error' = IF told THEN "invalid_destroy" ELSE error
      BY <1>3, <2>8 DEF Finished, DestroyRequest
    <3>2. CASE told
      BY <3>1, <3>2 DEF LockInv, Alive
    <3>3. CASE ~told
      <4>1. Keeping'
        <5>1. session # "locked"
          BY <1>k, <3>3 DEF Keeping
        <5>. QED
          BY <2>4, <2>8, <3>1, <5>1 DEF Keeping
      <4>2. Nested'
        <5>1. stack # <<>> => ~In(Tail(stack), Letting) /\ stack[1].in \notin Letting
          BY <1>k, <2>2 DEF Nested
        <5>. QED
          BY <3>1, <5>1 DEF Nested
      <4>. QED
        BY <1>k, <2>6, <3>1, <3>3, <4>1, <4>2 DEF LockInv
    <3>. QED
      BY <3>2, <3>3
  <2>. QED
    BY <2>7, <2>8
<1>4. CASE Fullscreen
  <2>1. AlarmsBecome(AlarmId, {"ALARM_ACTIVATE"}) /\ {"ALARM_ACTIVATE"} \in SUBSET AlarmId
    BY <1>4 DEF Fullscreen, AlarmId
  <2>. QED
    BY <1>4, <1>k, <2>1, FewerEvents, LockUntouched DEF Fullscreen
<1>5. CASE IdledLock
  <2>1. /\ AlarmsBecome(AlarmId \ {"ALARM_LOCK"}, {})
        /\ AlarmId \ {"ALARM_LOCK"} \in SUBSET AlarmId /\ {} \in SUBSET AlarmId
    BY <1>5 DEF IdledLock
  <2>. QED
    BY <1>5, <1>k, <2>1, FewerEvents, LockUntouched DEF IdledLock
<1>6. CASE IdledDeactivateOrResumed
  BY <1>6, <1>q, <1>k, LockUntouched DEF IdledDeactivateOrResumed
<1>. QED
  BY <1>1, <1>2, <1>3, <1>4, <1>5, <1>6

\* A window is shown in the loop of show_windows or of recreate_windows.
LEMMA RealizeLock ==
  ASSUME TypeOK, Alive, LockInv, stack # <<>>, NEW where \in {"show", "recreate"},
         stack[1].in = where, NEW m \in stack[1].left, NEW as,
         Realize(m, as, where, stack[1].left \ {m}),
         UNCHANGED <<active, wl_lock, locked, compositor, queue>>
  PROVE  LockInv'
<1>k. Keeping /\ Announced /\ Nested /\ error = "none"
  BY DEF LockInv, Alive
<1>t. stack \in Seq(Frame) /\ Tail(stack) \in Seq(Frame) /\ stack[1].left \ {m} \in SUBSET Monitors
  BY StackTypes DEF TypeOK
<1>1. CASE error' = "null_lock"
  BY <1>1 DEF LockInv, Alive
<1>2. CASE error' = error /\ stack' # stack
  <2>. DEFINE f == [in |-> where, left |-> stack[1].left \ {m}, waits |-> FALSE]
              g == Suspended(where, stack[1].left \ {m})
  <2>1. f \in Frame /\ g \in Frame /\ f.in = where /\ g.in = where
    BY <1>t DEF Frame, Suspended
  <2>2. PICK h \in {f, g} : stack' = <<h>> \o Tail(stack)
    BY <1>2 DEF Realize
  <2>3. h \in Frame /\ h.in = where /\ where \notin Letting /\ where # "lock"
    BY <2>1 DEF Letting
  <2>4. stack' # <<>> => ~In(Tail(stack'), Letting) /\ stack'[1].in \notin Letting
    BY <1>k, <2>2, <2>3, NestedGoesOn
  <2>5. In(stack, {"lock"}) => In(stack', {"lock"})
    <3>1. In(stack, {"lock"}) => In(Tail(stack), {"lock"})
      BY <1>t, <2>3, Pop
    <3>2. In(Tail(stack), {"lock"}) => In(stack', {"lock"})
      BY <1>t, <2>2, <2>3, Push
    <3>. QED
      BY <3>1, <3>2
  <2>6. Nested'
    BY <1>k, <2>4, <2>5 DEF Nested
  <2>. QED
    BY <1>2, <1>k, <2>6, LockUntouched
<1>3. CASE error' = error /\ stack' = stack
  BY <1>3, <1>k, LockUntouched
<1>. QED
  BY <1>1, <1>2, <1>3 DEF Realize

LEMMA ShowNextLock ==
  ASSUME TypeOK, Alive, LockInv, ShowNext
  PROVE  LockInv'
<1>1. stack # <<>> /\ stack[1].in = "show"
  BY DEF ShowNext, Resumes
<1>2. PICK m \in stack[1].left : Realize(m, windows[m], "show", stack[1].left \ {m})
  BY DEF ShowNext
<1>3. UNCHANGED <<active, wl_lock, locked, compositor, queue>>
  BY DEF ShowNext
<1>. QED
  BY <1>1, <1>2, <1>3, RealizeLock

LEMMA RecreateNextLock ==
  ASSUME TypeOK, Alive, LockInv, RecreateNext
  PROVE  LockInv'
<1>k. Keeping /\ Announced /\ Nested /\ error = "none"
  BY DEF LockInv, Alive
<1>1. stack # <<>> /\ stack[1].in = "recreate"
  BY DEF RecreateNext, Resumes
<1>2. UNCHANGED <<active, wl_lock, locked, compositor, queue>>
  BY DEF RecreateNext
<1>3. CASE stack' = Tail(stack) /\ UNCHANGED <<windows, error>>
  <2>1. stack \in Seq(Frame) /\ stack[1] \in Frame
        /\ stack[1].in \notin Letting /\ stack[1].in \notin {"lock"}
    BY <1>1, StackTypes DEF TypeOK, Letting
  <2>2. stack' # <<>> => ~In(Tail(stack'), Letting) /\ stack'[1].in \notin Letting
    BY <1>k, <1>1, <1>3, <2>1, NestedGoesOn
  <2>3. In(stack, {"lock"}) => In(stack', {"lock"})
    BY <1>1, <1>3, <2>1, Pop
  <2>4. Nested'
    BY <1>k, <1>2, <2>2, <2>3 DEF Nested
  <2>. QED
    BY <1>k, <1>2, <1>3, <2>4, LockUntouched
<1>4. CASE \E m \in stack[1].left :
             Realize(m, IF wl_lock THEN "added" ELSE "plain", "recreate",
                     stack[1].left \ {m})
  BY <1>1, <1>2, <1>4, RealizeLock
<1>5. CASE error' = "role"
  BY <1>5 DEF LockInv, Alive
<1>. QED
  BY <1>3, <1>4, <1>5 DEF RecreateNext

\* Nothing that rebuilds windows runs on top of an unlocking: there it would use
\* a lock that is freed.
LEMMA RebuildStack ==
  ASSUME TypeOK, Alive, Alive', Nested, MonitorsChanged
  PROVE  /\ LoopBroken \in Seq(Frame) /\ stack' # <<>>
         /\ stack'[1] = [in |-> "recreate", left |-> Monitors, waits |-> FALSE]
         /\ stack' = <<stack'[1]>> \o LoopBroken
         /\ stack'[1] \in Frame /\ stack'[1].in = "recreate" /\ stack'[1].left = Monitors
         /\ Tail(stack') = LoopBroken
         /\ \A kinds : In(LoopBroken, kinds) <=> In(stack, kinds)
         /\ ~In(stack, Letting)
         /\ stack # <<>> => stack[1].in \in {"lock", "show", "recreate"}
         /\ UNCHANGED <<wl_lock, object, queue, error>>
<1>. DEFINE f == [in |-> "recreate", left |-> Monitors, waits |-> FALSE]
<1>1. stack' = <<f>> \o LoopBroken /\ error' = error
  BY DEF MonitorsChanged, Alive
<1>2. stack # <<>> => stack[1].in \in {"lock", "show", "recreate"}
  <2>1. stack # <<>> => stack[1].in \notin {"unlock", "deactivate"}
    BY DEF MonitorsChanged, Alive
  <2>. QED
    BY <2>1, StackTypes DEF Frame
<1>3. f \in Frame /\ f.in = "recreate" /\ f.left = Monitors
  BY DEF Frame
<1>4. LoopBroken \in Seq(Frame)
  BY LoopTypes
<1>5. stack' # <<>> /\ stack'[1] = f /\ Tail(stack') = LoopBroken
  <2>. HIDE DEF f
  <2>. QED
    BY <1>1, <1>3, <1>4, Push
<1>6. ASSUME NEW kinds PROVE In(LoopBroken, kinds) <=> In(stack, kinds)
  <2>1. CASE stack # <<>> /\ stack[1].in = "show"
    <3>1. Suspended("show", {}) \in Frame /\ Suspended("show", {}).in = "show"
          /\ Tail(stack) \in Seq(Frame) /\ stack \in Seq(Frame)
      BY <2>1, Frames, StackTypes DEF TypeOK
    <3>2. In(<<Suspended("show", {})>> \o Tail(stack), kinds) <=>
            "show" \in kinds \/ In(Tail(stack), kinds)
      <4>1. ASSUME NEW g \in Frame, g.in = "show", NEW t \in Seq(Frame)
            PROVE  In(<<g>> \o t, kinds) <=> "show" \in kinds \/ In(t, kinds)
        BY <4>1, Push
      <4>. QED
        BY <3>1, <4>1
    <3>3. In(stack, kinds) <=> "show" \in kinds \/ In(Tail(stack), kinds)
      BY <2>1, <3>1, Pop
    <3>. QED
      BY <2>1, <3>2, <3>3 DEF LoopBroken
  <2>2. CASE ~(stack # <<>> /\ stack[1].in = "show")
    BY <2>2 DEF LoopBroken
  <2>. QED
    BY <2>1, <2>2
<1>7. ~In(stack, Letting)
  <2>1. CASE stack = <<>>
    BY <2>1, NoFrames
  <2>2. CASE stack # <<>>
    BY <1>2, <2>2, Pop DEF Nested, Letting, TypeOK
  <2>. QED
    BY <2>1, <2>2
<1>8. UNCHANGED <<wl_lock, object, queue>>
  BY DEF MonitorsChanged, compositor
<1>. QED
  BY <1>1, <1>2, <1>3, <1>4, <1>5, <1>6, <1>7, <1>8

LEMMA UnlockReturnsLock ==
  ASSUME TypeOK, Alive, LockInv, UnlockReturns
  PROVE  LockInv'
<1>k. Keeping /\ Announced /\ Nested /\ error = "none"
  BY DEF LockInv, Alive
<1>1. /\ stack # <<>> /\ stack[1].in \in Letting /\ stack' = Tail(stack)
      /\ wl_lock' = FALSE /\ locked' = FALSE /\ UNCHANGED <<error, compositor>>
  BY DEF UnlockReturns, Resumes, Letting
<1>2. object = "none" /\ ~In(Tail(stack), Letting)
  BY <1>1, <1>k DEF Nested
<1>3. Keeping'
  BY <1>1, <1>2, <1>k DEF Keeping, compositor
<1>4. Announced'
  <2>1. /\ Has(queue', OfLock) => Has(queue, OfLock)
    <3>1. CASE Deactivated
      <4>1. PICK keep \in SUBSET AlarmId, add \in SUBSET AlarmId : AlarmsBecome(keep, add)
        BY <3>1, AlarmsChange DEF Deactivated
      <4>. QED
        BY <4>1, FewerEvents
    <3>2. CASE queue' = queue
      BY <3>2
    <3>. QED
      BY <3>1, <3>2 DEF UnlockReturns
  <2>2. ~Has(queue', OfLock)
    BY <1>2, <1>k, <2>1 DEF Announced
  <2>3. <<"locked", "lock">> \in OfLock
    BY DEF OfLock
  <2>. QED
    BY <2>2, <2>3 DEF Announced, Has
<1>5. Nested'
  <2>1. CASE Tail(stack) = <<>>
    BY <1>1, <2>1 DEF Nested
  <2>2. CASE Tail(stack) # <<>>
    <3>1. Tail(stack) \in Seq(Frame)
      BY <1>1, StackTypes
    <3>2. ~In(Tail(Tail(stack)), Letting) /\ Tail(stack)[1].in \notin Letting
      BY <1>2, <2>2, <3>1, Pop
    <3>. QED
      BY <1>1, <3>2 DEF Nested
  <2>. QED
    BY <2>1, <2>2
<1>. QED
  BY <1>1, <1>k, <1>3, <1>4, <1>5 DEF LockInv

LEMMA CompositorLock ==
  ASSUME TypeOK, Alive, LockInv, Grants \/ Denies \/ Revokes
  PROVE  LockInv'
<1>k. Keeping /\ Announced /\ Nested /\ error = "none"
  BY DEF LockInv, Alive
<1>1. client' = client /\ object # "none" /\ object' # "none"
  BY DEF Grants, Denies, Revokes
<1>2. /\ UNCHANGED <<wl_lock, locked, active, stack, error>>
  BY <1>1 DEF client
<1>3. Keeping'
  <2>1. CASE Grants
    BY <1>k, <1>2, <2>1 DEF Grants, Keeping
  <2>2. CASE Denies
    BY <1>k, <1>2, <2>2 DEF Denies, Keeping
  <2>3. CASE Revokes
    BY <1>k, <1>2, <2>3 DEF Revokes, Keeping
  <2>. QED
    BY <2>1, <2>2, <2>3
<1>4. Announced'
  <2>0. queue \in Seq(Event)
    BY DEF TypeOK
  <2>1. CASE Grants
    BY <1>1, <2>1 DEF Grants, Announced
  <2>2. CASE Denies \/ Revokes
    <3>1. told' = told /\ queue' = Append(queue, <<"finished", "lock">>)
      BY <2>2 DEF Denies, Revokes
    <3>2. <<"finished", "lock">> \in Event
      BY DEF Event, OfLock
    <3>3. Has(queue', {<<"locked", "lock">>}) => Has(queue, {<<"locked", "lock">>})
      BY <2>0, <3>1, <3>2, AppendHas
    <3>. QED
      BY <1>k, <1>1, <3>1, <3>3 DEF Announced
  <2>. QED
    BY <2>1, <2>2
<1>5. Nested'
  <2>1. stack # <<>> => stack[1].in \notin Letting
    BY <1>k, <1>1 DEF Nested
  <2>. QED
    BY <1>k, <1>2, <2>1 DEF Nested, In
<1>. QED
  BY <1>k, <1>2, <1>3, <1>4, <1>5 DEF LockInv

LEMMA AlarmEventsLock ==
  ASSUME TypeOK, Alive, LockInv, AlarmFires \/ UserActs
  PROVE  LockInv'
<1>t. queue \in Seq(Event) /\ fired \subseteq AlarmId /\ alarms \subseteq AlarmId
  BY DEF TypeOK
<1>1. client' = client /\ compositor' = compositor
  BY DEF AlarmFires, UserActs
<1>2. /\ UNCHANGED <<wl_lock, locked, active, stack, error>>
  BY <1>1 DEF client
<1>3. /\ Has(queue', OfLock) => Has(queue, OfLock)
      /\ Has(queue', {<<"locked", "lock">>}) => Has(queue, {<<"locked", "lock">>})
  <2>1. CASE AlarmFires
    <3>1. PICK id \in AlarmId : queue' = Append(queue, <<"idled", id>>)
      BY <1>t, <2>1 DEF AlarmFires
    <3>2. <<"idled", id>> \in Event /\ <<"idled", id>> \notin OfLock
          /\ <<"idled", id>> \notin {<<"locked", "lock">>}
      BY <3>1 DEF Event, OfAlarm, OfLock
    <3>. QED
      BY <1>t, <3>1, <3>2, AppendHas
  <2>2. CASE UserActs
    <3>1. PICK r \in Seq(OfAlarm(fired)) : queue' = queue \o r
      BY <2>2, ResumedEvents
    <3>2. r \in Seq(Event) /\ ~Has(r, OfLock) /\ ~Has(r, {<<"locked", "lock">>})
      <4>1. DOMAIN r = 1..Len(r) /\ \A i \in 1..Len(r) : r[i] \in OfAlarm(fired)
        BY <3>1, ElementOfSeq, LenProperties
      <4>2. r \in Seq(Event)
        <5>1. OfAlarm(fired) \subseteq Event
          BY <1>t, Events
        <5>. QED
          BY <3>1, <5>1
      <4>3. \A i \in DOMAIN r : r[i] \notin OfLock /\ r[i] \notin {<<"locked", "lock">>}
        BY <1>t, <4>1 DEF OfAlarm, OfLock, AlarmId
      <4>. QED
        BY <4>2, <4>3 DEF Has
    <3>. QED
      BY <1>t, <3>1, <3>2, ConcatHas
  <2>. QED
    BY <2>1, <2>2
<1>. QED
  BY <1>1, <1>2, <1>3, LockUntouched DEF LockInv

LEMMA LockStep ==
  ASSUME TypeOK, TypeOK', LockInv, [Next]_vars
  PROVE  LockInv'
<1>d. CASE ~Alive
  BY <1>d DEF LockInv, Next, vars, client, Alive, AtRest, Resumes, Dispatching,
       PrefsChanged, ActivateRequest, LockReturns, ShowNext, Shown, MonitorsChanged,
       RecreateNext, DeactivateUnlocked, DeactivateLocked, UnlockReturns, Dispatch,
       Grants, Denies, Revokes, AlarmFires, UserLeaves, UserActs, FullscreenChanges, InhibitionChanges
<1>a. CASE Alive
  <2>k. Keeping /\ Announced /\ Nested /\ error = "none"
    BY <1>a DEF LockInv, Alive
  <2>t. queue \in Seq(Event) /\ stack \in Seq(Frame) /\ active \in BOOLEAN
    BY DEF TypeOK
  <2>1. CASE PrefsChanged
    <3>1. PICK keep \in SUBSET AlarmId, add \in SUBSET AlarmId : AlarmsBecome(keep, add)
      BY <2>1, AlarmsChange DEF PrefsChanged
    <3>2. /\ Has(queue', OfLock) => Has(queue, OfLock)
          /\ Has(queue', {<<"locked", "lock">>}) => Has(queue, {<<"locked", "lock">>})
      BY <3>1, FewerEvents
    <3>3. /\ UNCHANGED <<wl_lock, locked, compositor>> /\ active' = active
          /\ error' = error /\ stack' = stack
      BY <2>1 DEF PrefsChanged
    <3>. QED
      BY <1>a, <2>k, <3>2, <3>3, LockUntouched
  <2>2. CASE ActivateRequest
    BY <1>a, <2>2, ActivateLock DEF ActivateRequest
  <2>3. CASE LockReturns
    <3>1. stack # <<>> /\ stack[1].in = "lock" /\ error' # "invalid_unlock"
      BY <2>3, <2>k DEF LockReturns, Resumes
    <3>2. [in |-> "show", left |-> Monitors, waits |-> FALSE] \in Frame
      BY DEF Frame
    <3>3. /\ UNCHANGED <<wl_lock, locked, compositor, queue>>
          /\ \/ ~wl_lock /\ stack' = Tail(stack) /\ active' = active
             \/ /\ stack' = <<[in |-> "show", left |-> Monitors, waits |-> FALSE]>>
                            \o Tail(stack)
                /\ active'
      BY <2>3 DEF LockReturns
    <3>4. stack' # <<>> => ~In(Tail(stack'), Letting) /\ stack'[1].in \notin Letting
      BY <2>k, <3>1, <3>2, <3>3, NestedGoesOn DEF Letting
    <3>5. Nested'
      BY <3>3, <3>4 DEF Nested
    <3>. QED
      BY <1>a, <3>1, <3>3, <3>5, LockUntouched
  <2>4. CASE ShowNext
    BY <1>a, <2>k, <2>4, ShowNextLock
  <2>5. CASE Shown
    <3>1. stack # <<>> /\ stack[1].in = "show" /\ stack' = Tail(stack)
      BY <2>5 DEF Shown, Resumes
    <3>2. stack[1] \in Frame /\ stack[1].in \notin Letting /\ stack[1].in \notin {"lock"}
      BY <3>1, StackTypes DEF Letting
    <3>3. stack' # <<>> => ~In(Tail(stack'), Letting) /\ stack'[1].in \notin Letting
      BY <2>k, <3>1, <3>2, NestedGoesOn
    <3>4. In(stack, {"lock"}) => In(stack', {"lock"})
      BY <2>t, <3>1, <3>2, Pop
    <3>5. /\ UNCHANGED <<wl_lock, locked, compositor>> /\ active' = active
          /\ error' = error
      BY <2>5 DEF Shown
    <3>6. Nested'
      BY <2>k, <3>3, <3>4, <3>5 DEF Nested
    <3>7. PICK keep \in SUBSET AlarmId, add \in SUBSET AlarmId : AlarmsBecome(keep, add)
      BY <2>5, AlarmsChange DEF Shown
    <3>8. /\ Has(queue', OfLock) => Has(queue, OfLock)
          /\ Has(queue', {<<"locked", "lock">>}) => Has(queue, {<<"locked", "lock">>})
      BY <3>7, FewerEvents
    <3>. QED
      BY <1>a, <2>k, <3>5, <3>6, <3>8, LockUntouched
  <2>6. CASE MonitorsChanged
    <3>1. /\ UNCHANGED <<wl_lock, locked, compositor, queue>> /\ active' = active /\ active
      BY <2>6 DEF MonitorsChanged
    <3>2. CASE Alive'
      <4>1. /\ stack'[1].in = "recreate" /\ ~In(Tail(stack'), Letting) /\ error' = error
        BY <1>a, <2>k, <2>6, <3>2, RebuildStack
      <4>2. Nested'
        BY <3>1, <4>1 DEF Nested, Letting
      <4>. QED
        BY <1>a, <2>k, <3>1, <4>1, <4>2, LockUntouched
    <3>3. CASE ~Alive'
      <4>1. error' # "invalid_unlock"
        BY <2>6, <2>k DEF MonitorsChanged
      <4>. QED
        BY <3>3, <4>1 DEF LockInv
    <3>. QED
      BY <3>2, <3>3
  <2>7. CASE RecreateNext
    BY <1>a, <2>k, <2>7, RecreateNextLock
  <2>8. CASE DeactivateUnlocked
    <3>1. stack = <<>> /\ stack' = <<>> /\ ~locked /\ locked' = locked /\ wl_lock' = FALSE
          /\ queue' = Without(queue, Event) /\ told' = told /\ session' = session
      BY <2>8 DEF DeactivateUnlocked, AtRest
    <3>2. object' = "none"
      BY <2>k, <2>8 DEF DeactivateUnlocked, Keeping
    <3>3. Announced'
      BY <3>1, <3>2, Events, EventsGone DEF Announced
    <3>4. Nested'
      BY <3>1 DEF Nested
    <3>5. CASE wl_lock /\ told
      BY <2>8, <3>5 DEF DeactivateUnlocked, LockInv, Alive
    <3>6. CASE ~(wl_lock /\ told)
      <4>1. session # "locked" /\ error' = "none"
        BY <2>k, <2>8, <3>6 DEF DeactivateUnlocked, Keeping
      <4>2. Keeping'
        BY <3>1, <3>2, <4>1 DEF Keeping
      <4>. QED
        BY <3>3, <3>4, <4>1, <4>2 DEF LockInv
    <3>. QED
      BY <3>5, <3>6
  <2>9. CASE DeactivateLocked
    <3>1. /\ object' = "none" /\ queue' = Without(queue, OfLock) /\ told' = told
          /\ wl_lock' = wl_lock /\ locked' = locked /\ active' = active /\ active /\ locked
          /\ stack' = <<Suspended("deactivate", {})>>
          /\ IF told THEN session' = "open" /\ error' = error
             ELSE error' = "invalid_unlock" /\ session' = session
      BY <2>9 DEF DeactivateLocked, UnlockRequest
    <3>2. told /\ wl_lock
      BY <2>k, <3>1 DEF Keeping
    <3>3. Keeping'
      BY <3>1, <3>2 DEF Keeping
    <3>4. Announced'
      BY <3>1, EventsGone DEF Announced
    <3>5. stack'[1] = Suspended("deactivate", {}) /\ Tail(stack') = <<>>
      BY <3>1
    <3>6. Nested'
      BY <3>1, <3>2, <3>5, Waiting, NoFrames DEF Nested
    <3>. QED
      BY <2>k, <3>1, <3>2, <3>3, <3>4, <3>6 DEF LockInv
  <2>10. CASE UnlockReturns
    BY <1>a, <2>k, <2>10, UnlockReturnsLock
  <2>11. CASE Dispatch
    BY <1>a, <2>11, DispatchLock DEF Dispatch
  <2>12. CASE Grants \/ Denies \/ Revokes
    BY <1>a, <2>k, <2>12, CompositorLock
  <2>13. CASE AlarmFires \/ UserActs
    BY <1>a, <2>k, <2>13, AlarmEventsLock
  <2>14. CASE UserLeaves \/ FullscreenChanges \/ InhibitionChanges \/ UNCHANGED vars
    <3>1. client' = client /\ compositor' = compositor /\ queue' = queue
      BY <2>14 DEF UserLeaves, FullscreenChanges, InhibitionChanges, vars
    <3>2. /\ UNCHANGED <<wl_lock, locked, stack, error, active>>
      BY <3>1 DEF client
    <3>. QED
      BY <1>a, <2>k, <3>1, <3>2, LockUntouched
  <2>. QED
    BY <2>1, <2>2, <2>3, <2>4, <2>5, <2>6, <2>7, <2>8, <2>9, <2>10, <2>11, <2>12,
       <2>13, <2>14 DEF Next
<1>. QED
  BY <1>d, <1>a

\* The flags of the session lock manager and the compositor's object agree:
\* unlock_and_destroy never meets an object that is not locked.
THEOREM NoStaleUnlock == Spec => []NoInvalidUnlock
<1>1. Init => LockInv
  BY DEF Init, LockInv, Keeping, Announced, Nested, Has
<1>2. TypeOK /\ TypeOK' /\ LockInv /\ [Next]_vars => LockInv'
  BY LockStep
<1>3. LockInv => NoInvalidUnlock
  BY DEF LockInv, NoInvalidUnlock
<1>. QED
  BY <1>1, <1>2, <1>3, SessionTypes, PTL DEF Spec

-----------------------------------------------------------------------------
(***************************************************************************)
(* The alarms.                                                             *)
(***************************************************************************)
\* The stack without a handler of lock_finished that is on top.
Core(s) == IF s # <<>> /\ s[1].in = "unlock" THEN Tail(s) ELSE s

\* The kinds of handlers that run when the manager is active, or let go of a lock.
Rest == {"show", "recreate", "unlock", "deactivate"}

\* The loop of show_windows is yet to come to the window.
Shows(s, m) == \E i \in DOMAIN s : s[i].in = "show" /\ m \in s[i].left

\* Underneath an activation there are only others that wait for a lock, and
\* a loop of show_windows under recreate_windows is broken.
Ordered(s) ==
  \A i, j \in DOMAIN s : i < j =>
    /\ s[i].in \in {"lock", "show"} => s[j].in \notin Rest
    /\ s[i].in = "recreate" /\ s[j].in = "show" => s[j].left = {}

\* Handlers that show windows, or let go of a lock for good, run for an active
\* manager, and the last of these by itself.
Stacked ==
  /\ Ordered(stack)
  /\ In(stack, {"show", "recreate", "deactivate"}) => active
  /\ stack # <<>> /\ stack[1].in = "deactivate" => Tail(stack) = <<>>

\* The innermost handler that shows windows is yet to come to the window's.
ToCome(s, m) ==
  Core(s) # <<>> /\ Core(s)[1].in \in {"show", "recreate"} /\ m \in Core(s)[1].left

\* The windows that are yet to be shown have been added to the lock manager, and
\* the others of a manager that keeps its lock have a lock surface.
Windowed ==
  /\ \A m : Shows(stack, m) => windows[m] = "added"
  /\ wl_lock /\ active /\ ~In(stack, {"deactivate"}) =>
       \A m \in Monitors : windows[m] = "surface" \/ ToCome(stack, m)

\* Events on their way are those of alarms that are there.
Eventful == \A id \in AlarmId : Has(queue, OfAlarm({id})) => id \in alarms

\* The alarms fit the state of the saver, which is on when "activated" is out.
Armed ==
  /\ active /\ ~In(stack, {"show"}) =>
       /\ "ALARM_ACTIVATE" \notin alarms /\ "ALARM_DEACTIVATE" \in alarms
       /\ "ALARM_LOCK" \in alarms => prefs.lock_with_saver
  /\ ~active \/ In(stack, {"show"}) =>
       alarms = IF prefs.enabled THEN {"ALARM_ACTIVATE"} ELSE {}

AlarmsInv == Alive => Stacked /\ Windowed /\ Eventful /\ Armed

LEMMA CoreIs ==
  ASSUME NEW s \in Seq(Frame)
  PROVE  /\ s # <<>> /\ s[1].in # "unlock" => Core(s) = s
         /\ \A f \in Frame : f.in = "unlock" => Core(<<f>> \o s) = s
         /\ \A f \in Frame : f.in # "unlock" => Core(<<f>> \o s) = <<f>> \o s
<1>1. ASSUME NEW f \in Frame
      PROVE  /\ <<f>> \o s # <<>> /\ (<<f>> \o s)[1] = f
             /\ Tail(<<f>> \o s) = s
  BY Push
<1>. QED
  BY <1>1 DEF Core

\* The handler that is on top of all, if any, is in the stack.
LEMMA TopIn ==
  ASSUME NEW s \in Seq(Frame), s # <<>>, NEW kinds, s[1].in \in kinds
  PROVE  In(s, kinds)
  BY Pop

\* The order of the handlers when one comes on top.
LEMMA Stacking ==
  ASSUME NEW s \in Seq(Frame), NEW f \in Frame
  PROVE  /\ \A m : Shows(<<f>> \o s, m) <=> (f.in = "show" /\ m \in f.left) \/ Shows(s, m)
         /\ Ordered(<<f>> \o s) <=>
              /\ Ordered(s)
              /\ f.in \in {"lock", "show"} => ~In(s, Rest)
              /\ f.in = "recreate" => \A m : ~Shows(s, m)
<1>. DEFINE t == <<f>> \o s
<1>1. /\ Len(s) \in Nat /\ DOMAIN s = 1..Len(s) /\ DOMAIN t = 1..(1 + Len(s))
      /\ t[1] = f /\ \A i \in 2..(1 + Len(s)) : t[i] = s[i - 1]
  BY PushAt
<1>2. \A i \in DOMAIN s : i + 1 \in DOMAIN t /\ t[i + 1] = s[i] /\ 1 < i + 1
  BY <1>1
<1>3. \A i \in DOMAIN t : i = 1 \/ (i - 1 \in DOMAIN s /\ t[i] = s[i - 1])
  BY <1>1
<1>4. 1 \in DOMAIN t
  BY <1>1
<1>5. \A i, j \in DOMAIN t : i < j => j # 1
  BY <1>1
<1>6. \A i, j \in DOMAIN t : i < j /\ i # 1 => i - 1 < j - 1
  BY <1>1
<1>7. \A i, j \in DOMAIN s : i < j => i + 1 < j + 1
  BY <1>1
<1>. HIDE DEF t
<1>8. ASSUME NEW m PROVE Shows(t, m) <=> (f.in = "show" /\ m \in f.left) \/ Shows(s, m)
  BY <1>1, <1>2, <1>3, <1>4 DEF Shows
<1>9. ASSUME Ordered(t)
      PROVE  /\ Ordered(s)
             /\ f.in \in {"lock", "show"} => ~In(s, Rest)
             /\ f.in = "recreate" => \A m : ~Shows(s, m)
  <2>1. Ordered(s)
    BY <1>2, <1>7, <1>9 DEF Ordered
  <2>2. f.in \in {"lock", "show"} => ~In(s, Rest)
    BY <1>1, <1>2, <1>4, <1>9 DEF Ordered, In
  <2>3. f.in = "recreate" => \A m : ~Shows(s, m)
    BY <1>1, <1>2, <1>4, <1>9 DEF Ordered, Shows
  <2>. QED
    BY <2>1, <2>2, <2>3
<1>10. ASSUME Ordered(s), f.in \in {"lock", "show"} => ~In(s, Rest),
              f.in = "recreate" => \A m : ~Shows(s, m)
       PROVE  Ordered(t)
  <2>. SUFFICES ASSUME NEW i \in DOMAIN t, NEW j \in DOMAIN t, i < j
                PROVE  /\ t[i].in \in {"lock", "show"} => t[j].in \notin Rest
                       /\ t[i].in = "recreate" /\ t[j].in = "show" => t[j].left = {}
    BY DEF Ordered
  <2>1. j - 1 \in DOMAIN s /\ t[j] = s[j - 1]
    BY <1>3, <1>5
  <2>2. CASE i = 1
    BY <1>1, <1>10, <2>1, <2>2 DEF In, Shows
  <2>3. CASE i # 1
    <3>1. i - 1 \in DOMAIN s /\ t[i] = s[i - 1] /\ i - 1 < j - 1
      BY <1>3, <1>6, <2>3
    <3>. QED
      BY <1>10, <2>1, <3>1 DEF Ordered
  <2>. QED
    BY <2>2, <2>3
<1>. QED
  BY <1>8, <1>9, <1>10 DEF t

\* The order of the handlers under the innermost.
LEMMA Unstacking ==
  ASSUME NEW s \in Seq(Frame), s # <<>>
  PROVE  /\ \A m : Shows(s, m) <=> (s[1].in = "show" /\ m \in s[1].left) \/ Shows(Tail(s), m)
         /\ Ordered(s) =>
              /\ Ordered(Tail(s))
              /\ s[1].in \in {"lock", "show"} => ~In(Tail(s), Rest)
              /\ s[1].in = "recreate" => \A m : ~Shows(Tail(s), m)
<1>1. s = <<s[1]>> \o Tail(s) /\ s[1] \in Frame /\ Tail(s) \in Seq(Frame)
  BY Split, Pop
<1>2. /\ \A m : Shows(<<s[1]>> \o Tail(s), m) <=>
               (s[1].in = "show" /\ m \in s[1].left) \/ Shows(Tail(s), m)
      /\ Ordered(<<s[1]>> \o Tail(s)) <=>
           /\ Ordered(Tail(s))
           /\ s[1].in \in {"lock", "show"} => ~In(Tail(s), Rest)
           /\ s[1].in = "recreate" => \A m : ~Shows(Tail(s), m)
  BY <1>1, Stacking
<1>. QED
  BY <1>1, <1>2

LEMMA Nothing == Ordered(<<>>) /\ (\A m : ~Shows(<<>>, m)) /\ \A m : ~ToCome(<<>>, m)
  BY DEF Ordered, Shows, ToCome, Core

\* Only activations that wait for a lock are there.
LEMMA Activations ==
  ASSUME NEW s, ~In(s, Rest)
  PROVE  /\ ~In(s, {"show"}) /\ ~In(s, {"deactivate"}) /\ ~In(s, {"recreate"})
         /\ ~In(s, {"show", "recreate", "deactivate"})
         /\ \A m : ~Shows(s, m)
  BY DEF In, Rest, Shows

LEMMA ShownFrames ==
  ASSUME NEW s \in Seq(Frame), NEW m, Shows(s, m)
  PROVE  m \in Monitors /\ In(s, {"show"})
<1>1. PICK i \in DOMAIN s : s[i].in = "show" /\ m \in s[i].left
  BY DEF Shows
<1>2. s[i] \in Frame
  BY <1>1, LenProperties, ElementOfSeq
<1>. QED
  BY <1>1, <1>2 DEF Frame, In

\* Neither the handlers nor the windows have changed, except that lock surfaces
\* go with their lock.
LEMMA HandlersStay ==
  ASSUME TypeOK, Stacked, Windowed, stack' = stack, active' = active,
         wl_lock' => wl_lock, \/ windows' = windows
                              \/ windows' = Bared /\ ~wl_lock'
  PROVE  Stacked' /\ Windowed'
<1>1. /\ Ordered(stack') <=> Ordered(stack)
      /\ \A kinds : In(stack', kinds) <=> In(stack, kinds)
      /\ \A m : Shows(stack', m) <=> Shows(stack, m)
      /\ \A m : ToCome(stack', m) <=> ToCome(stack, m)
  OBVIOUS
<1>2. Stacked'
  BY <1>1 DEF Stacked
<1>3. \A m \in Monitors : windows[m] = "added" => windows'[m] = "added"
  BY DEF Bared
<1>4. \A m : Shows(stack', m) => windows'[m] = "added"
  BY <1>1, <1>3, ShownFrames DEF Windowed, TypeOK
<1>. QED
  BY <1>1, <1>2, <1>4 DEF Windowed

\* The events of the alarms that go become void.
LEMMA AlarmsBecomeEvents ==
  ASSUME TypeOK, Eventful, NEW keep \in SUBSET AlarmId, NEW add \in SUBSET AlarmId,
         AlarmsBecome(keep, add)
  PROVE  Eventful'
<1>. DEFINE gone == OfAlarm((AlarmId \ keep) \cup add)
<1>1. queue \in Seq(Event)
  BY DEF TypeOK
<1>2. /\ queue' = Without(queue, gone) /\ alarms' = (alarms \cap keep) \cup add
  BY DEF AlarmsBecome
<1>3. ASSUME NEW id \in AlarmId, Has(queue', OfAlarm({id})) PROVE id \in alarms'
  <2>1. Void \notin OfAlarm({id})
    BY DEF OfAlarm, Void, AlarmId
  <2>2. Has(queue, OfAlarm({id}) \ gone)
    BY <1>1, <1>2, <1>3, <2>1, WithoutHas
  <2>3. Has(queue, OfAlarm({id}))
    BY <2>2 DEF Has
  <2>4. id \in alarms
    BY <2>3 DEF Eventful
  <2>5. id \notin (AlarmId \ keep) \cup add
    BY <2>2 DEF Has, OfAlarm
  <2>. QED
    BY <1>2, <2>4, <2>5
<1>. QED
  BY <1>3 DEF Eventful

\* Events come for alarms only, or not at all, and no alarm goes.
LEMMA EventsStay ==
  ASSUME Eventful, alarms' = alarms,
         \A id \in AlarmId : Has(queue', OfAlarm({id})) =>
           Has(queue, OfAlarm({id})) \/ id \in alarms
  PROVE  Eventful'
  BY DEF Eventful

LEMMA TailEvents ==
  ASSUME TypeOK, queue # <<>>, queue' = Tail(queue), Eventful, alarms' = alarms
  PROVE  Eventful'
<1>1. \A id \in AlarmId : Has(queue', OfAlarm({id})) => Has(queue, OfAlarm({id}))
  <2>1. queue \in Seq(Event)
    BY DEF TypeOK
  <2>. QED
    BY <2>1, TailHas
<1>. QED
  BY <1>1, EventsStay

LEMMA VoidedEvents ==
  ASSUME TypeOK, NEW gone, queue' = Without(queue, gone), Eventful, alarms' = alarms
  PROVE  Eventful'
<1>1. ASSUME NEW id \in AlarmId, Has(queue', OfAlarm({id}))
      PROVE  Has(queue, OfAlarm({id}))
  <2>1. queue \in Seq(Event) /\ Void \notin OfAlarm({id})
    BY DEF TypeOK, OfAlarm, Void, AlarmId
  <2>2. Has(queue, OfAlarm({id}) \ gone)
    BY <1>1, <2>1, WithoutHas
  <2>. QED
    BY <2>2 DEF Has
<1>. QED
  BY <1>1, EventsStay

LEMMA ArmedStay ==
  ASSUME Armed, alarms' = alarms, prefs' = prefs, active' = active,
         In(stack', {"show"}) <=> In(stack, {"show"})
  PROVE  Armed'
  BY DEF Armed

\* A handler that is pushed for a lock or an unlocking.
LEMMA PushLock ==
  ASSUME TypeOK, Nested, Stacked, Windowed, ~active, ~wl_lock, active' = active,
         stack' = <<Suspended("lock", {})>> \o stack
  PROVE  Stacked' /\ Windowed' /\ ~In(stack', {"show"}) /\ ~In(stack, {"show"})
<1>1. stack \in Seq(Frame) /\ Suspended("lock", {}) \in Frame
      /\ Suspended("lock", {}).in = "lock"
  BY Waiting DEF TypeOK
<1>2. ~In(stack, {"show", "recreate", "deactivate"}) /\ ~In(stack, {"unlock"})
  <2>1. CASE stack = <<>>
    BY <2>1, NoFrames
  <2>2. CASE stack # <<>>
    <3>1. ~In(Tail(stack), {"unlock"}) /\ stack[1].in # "unlock"
      BY <2>2 DEF Nested, Letting, In
    <3>. QED
      BY <1>1, <2>2, <3>1, Pop DEF Stacked
  <2>. QED
    BY <2>1, <2>2
<1>3. ~In(stack, Rest)
  BY <1>2 DEF In, Rest
<1>4. /\ ~In(stack, {"show"}) /\ \A m : ~Shows(stack, m)
  BY <1>3, Activations
<1>5. /\ Ordered(stack') /\ \A m : ~Shows(stack', m)
      /\ ~In(stack', {"show"}) /\ ~In(stack', {"show", "recreate", "deactivate"})
      /\ stack'[1].in = "lock"
  BY <1>1, <1>2, <1>3, <1>4, Push, Stacking DEF Stacked
<1>. QED
  BY <1>4, <1>5 DEF Stacked, Windowed

LEMMA PushUnlock ==
  ASSUME TypeOK, Stacked, Windowed, active' = active, windows' = windows,
         wl_lock' => wl_lock, stack = <<>> \/ stack[1].in # "unlock",
         stack' = <<Suspended("unlock", {})>> \o stack
  PROVE  Stacked' /\ Windowed' /\ (In(stack', {"show"}) <=> In(stack, {"show"}))
<1>1. stack \in Seq(Frame) /\ Suspended("unlock", {}) \in Frame
      /\ Suspended("unlock", {}).in = "unlock"
  BY Waiting DEF TypeOK
<1>2. /\ In(stack', {"show"}) <=> In(stack, {"show"})
      /\ In(stack', {"show", "recreate", "deactivate"})
           <=> In(stack, {"show", "recreate", "deactivate"})
      /\ In(stack', {"deactivate"}) <=> In(stack, {"deactivate"})
      /\ stack'[1].in = "unlock"
  BY <1>1, Push
<1>3. Core(stack') = stack /\ Core(stack) = stack
  BY <1>1, CoreIs DEF Core
<1>4. /\ Ordered(stack') <=> Ordered(stack)
      /\ \A m : Shows(stack', m) <=> Shows(stack, m)
  BY <1>1, Stacking
<1>5. \A m : ToCome(stack', m) <=> ToCome(stack, m)
  BY <1>3 DEF ToCome
<1>6. Stacked'
  BY <1>2, <1>4 DEF Stacked
<1>7. Windowed'
  BY <1>2, <1>4, <1>5 DEF Windowed
<1>. QED
  BY <1>2, <1>6, <1>7

LEMMA DispatchAlarms ==
  ASSUME TypeOK, Alive, LockInv, AlarmsInv, queue # <<>>,
         IdledActivate \/ Locked \/ Finished \/ Fullscreen \/ IdledLock
           \/ IdledDeactivateOrResumed,
         UNCHANGED <<active, prefs>>
  PROVE  AlarmsInv'
<1>k. Stacked /\ Windowed /\ Eventful /\ Armed /\ Keeping /\ Announced /\ Nested
  BY DEF AlarmsInv, LockInv
<1>1. CASE IdledActivate
  <2>1. Eventful'
    BY <1>1, <1>k, TailEvents DEF IdledActivate
  <2>2. CASE Activate /\ ~active /\ ~wl_lock
    <3>1. stack' = <<Suspended("lock", {})>> \o stack
      BY <2>2 DEF Activate
    <3>2. Stacked' /\ Windowed' /\ ~In(stack', {"show"}) /\ ~In(stack, {"show"})
      BY <1>1, <1>k, <2>2, <3>1, PushLock
    <3>3. Armed'
      BY <1>1, <1>k, <3>2, ArmedStay DEF IdledActivate
    <3>. QED
      BY <2>1, <3>2, <3>3 DEF AlarmsInv
  <2>3. CASE UNCHANGED <<wl_lock, stack>>
    <3>1. Stacked' /\ Windowed'
      BY <1>1, <1>k, <2>3, HandlersStay DEF IdledActivate
    <3>2. Armed'
      BY <1>1, <1>k, <2>3, ArmedStay DEF IdledActivate
    <3>. QED
      BY <2>1, <3>1, <3>2 DEF AlarmsInv
  <2>. QED
    BY <1>1, <2>2, <2>3 DEF IdledActivate, Activate
<1>2. CASE Locked
  <2>1. Eventful'
    BY <1>2, <1>k, TailEvents DEF Locked
  <2>2. Stacked' /\ Windowed'
    BY <1>2, <1>k, HandlersStay DEF Locked
  <2>3. Armed'
    BY <1>2, <1>k, ArmedStay DEF Locked
  <2>. QED
    BY <2>1, <2>2, <2>3 DEF AlarmsInv
<1>3. CASE Finished
  <2>1. Eventful'
    BY <1>3, <1>k, VoidedEvents DEF Finished, UnlockRequest, DestroyRequest
  <2>2. CASE locked
    <3>1. stack' = <<Suspended("unlock", {})>> \o stack /\ wl_lock' = wl_lock
          /\ windows' = windows
      BY <1>3, <2>2 DEF Finished
    <3>2. Has(queue, OfLock)
      <4>1. Head(queue) \in OfLock
        BY <1>3 DEF Finished, OfLock
      <4>. QED
        BY <4>1, HeadHas
    <3>3. stack = <<>> \/ stack[1].in # "unlock"
      BY <1>k, <3>2 DEF Announced, Nested, Letting
    <3>4. Stacked' /\ Windowed' /\ (In(stack', {"show"}) <=> In(stack, {"show"}))
      BY <1>k, <3>1, <3>3, PushUnlock
    <3>5. Armed'
      BY <1>3, <1>k, <3>4, ArmedStay DEF Finished
    <3>. QED
      BY <2>1, <3>4, <3>5 DEF AlarmsInv
  <2>3. CASE ~locked
    <3>1. wl_lock' = FALSE /\ windows' = Bared /\ stack' = stack
      BY <1>3, <2>3 DEF Finished
    <3>2. Stacked' /\ Windowed'
      BY <1>k, <3>1, HandlersStay
    <3>3. Armed'
      BY <1>3, <1>k, <3>1, ArmedStay DEF Finished
    <3>. QED
      BY <2>1, <3>2, <3>3 DEF AlarmsInv
  <2>. QED
    BY <2>2, <2>3
<1>4. CASE Fullscreen
  <2>0. AlarmsBecome(AlarmId, {"ALARM_ACTIVATE"}) /\ {"ALARM_ACTIVATE"} \in SUBSET AlarmId
    BY <1>4 DEF Fullscreen, AlarmId
  <2>1. Eventful'
    BY <1>k, <2>0, AlarmsBecomeEvents
  <2>2. Stacked' /\ Windowed'
    BY <1>4, <1>k, HandlersStay DEF Fullscreen
  <2>3. Has(queue, OfAlarm({"ALARM_ACTIVATE"}))
    <3>1. Head(queue) \in OfAlarm({"ALARM_ACTIVATE"})
      BY <1>4 DEF Fullscreen, OfAlarm
    <3>. QED
      BY <3>1, HeadHas
  <2>4. "ALARM_ACTIVATE" \in alarms
    BY <1>k, <2>3 DEF Eventful, AlarmId
  <2>5. alarms' = alarms
    BY <2>0, <2>4 DEF AlarmsBecome, TypeOK
  <2>6. Armed'
    BY <1>4, <1>k, <2>5, ArmedStay DEF Fullscreen
  <2>. QED
    BY <2>1, <2>2, <2>6 DEF AlarmsInv
<1>5. CASE IdledLock
  <2>0. /\ AlarmsBecome(AlarmId \ {"ALARM_LOCK"}, {})
        /\ AlarmId \ {"ALARM_LOCK"} \in SUBSET AlarmId /\ {} \in SUBSET AlarmId
    BY <1>5 DEF IdledLock
  <2>1. Eventful'
    BY <1>k, <2>0, AlarmsBecomeEvents
  <2>2. Stacked' /\ Windowed'
    BY <1>5, <1>k, HandlersStay DEF IdledLock
  <2>3. Has(queue, OfAlarm({"ALARM_LOCK"}))
    <3>1. Head(queue) \in OfAlarm({"ALARM_LOCK"})
      BY <1>5 DEF IdledLock, OfAlarm
    <3>. QED
      BY <3>1, HeadHas
  <2>4. "ALARM_LOCK" \in alarms
    BY <1>k, <2>3 DEF Eventful, AlarmId
  <2>5. active /\ ~In(stack, {"show"})
    BY <1>k, <2>4 DEF Armed
  <2>6. alarms' = alarms \ {"ALARM_LOCK"}
    BY <2>0 DEF AlarmsBecome, TypeOK
  <2>7. Armed'
    <3>1. In(stack', {"show"}) <=> In(stack, {"show"})
      BY <1>5 DEF IdledLock
    <3>. QED
      BY <1>k, <2>5, <2>6, <3>1 DEF Armed
  <2>. QED
    BY <2>1, <2>2, <2>7 DEF AlarmsInv
<1>6. CASE IdledDeactivateOrResumed
  <2>1. Eventful'
    BY <1>6, <1>k, TailEvents DEF IdledDeactivateOrResumed
  <2>2. Stacked' /\ Windowed'
    BY <1>6, <1>k, HandlersStay DEF IdledDeactivateOrResumed
  <2>3. Armed'
    BY <1>6, <1>k, ArmedStay DEF IdledDeactivateOrResumed
  <2>. QED
    BY <2>1, <2>2, <2>3 DEF AlarmsInv
<1>. QED
  BY <1>1, <1>2, <1>3, <1>4, <1>5, <1>6

\* What lets go of a lock is on top.
LEMMA Underneath ==
  ASSUME TypeOK, Alive, LockInv, stack # <<>>, Tail(stack) # <<>>
  PROVE  Tail(stack)[1].in \notin Letting /\ Tail(stack)[1].in # "deactivate"
         /\ Tail(stack)[1].in # "unlock"
<1>1. ~In(Tail(stack), Letting) /\ Tail(stack) \in Seq(Frame)
  BY StackTypes DEF LockInv, Nested
<1>2. Tail(stack)[1].in \notin Letting
  BY <1>1, TopIn
<1>. QED
  BY <1>2 DEF Letting

\* The activation goes on: a manager that another activation in the roundtrip
\* has made active would destroy lock surfaces with its old windows.
LEMMA LockReturnsAlarms ==
  ASSUME TypeOK, Alive, LockInv, AlarmsInv, LockReturns, Alive'
  PROVE  Stacked' /\ Windowed' /\ Eventful' /\ Armed'
<1>. DEFINE f == [in |-> "show", left |-> Monitors, waits |-> FALSE]
<1>k. Stacked /\ Windowed /\ Eventful /\ Armed
  BY DEF AlarmsInv
<1>t. /\ stack \in Seq(Frame) /\ Tail(stack) \in Seq(Frame) /\ f \in Frame
      /\ stack # <<>> /\ stack[1].in = "lock"
  BY StackTypes DEF TypeOK, LockReturns, Resumes, Frame
<1>1. Core(stack) = stack /\ \A m : ~ToCome(stack, m)
  BY <1>t, CoreIs DEF ToCome
<1>2. Ordered(Tail(stack)) /\ ~In(Tail(stack), Rest)
  BY <1>k, <1>t, Unstacking DEF Stacked
<1>3. /\ ~In(Tail(stack), {"show"}) /\ ~In(Tail(stack), {"show", "recreate", "deactivate"})
      /\ \A m : ~Shows(Tail(stack), m)
      /\ ~In(stack, {"show"}) /\ ~In(stack, {"deactivate"})
  BY <1>t, <1>2, Activations, Pop
<1>4. Eventful'
  BY <1>k DEF LockReturns, Eventful
<1>5. CASE ~wl_lock
  <2>1. stack' = Tail(stack) /\ UNCHANGED <<active, windows, wl_lock, alarms, prefs>>
    BY <1>5 DEF LockReturns
  <2>2. stack' # <<>> => stack'[1].in # "deactivate"
    BY <1>t, <1>3, <2>1, TopIn
  <2>3. Stacked'
    BY <1>2, <1>3, <2>1, <2>2 DEF Stacked
  <2>4. Windowed'
    BY <1>3, <1>5, <2>1 DEF Windowed
  <2>5. Armed'
    BY <1>k, <1>3, <2>1, ArmedStay
  <2>. QED
    BY <1>4, <2>3, <2>4, <2>5
<1>6. CASE wl_lock
  <2>1. /\ active' /\ windows' = [m \in Monitors |-> "added"] /\ stack' = <<f>> \o Tail(stack)
        /\ UNCHANGED <<wl_lock, alarms, prefs>>
        /\ ~\E m \in Monitors : windows[m] = "surface"
    BY <1>6 DEF LockReturns, Alive
  <2>2. ~active
    <3>1. ASSUME active PROVE FALSE
      <4>1. \A m \in Monitors : windows[m] = "surface"
        BY <1>k, <1>1, <1>3, <1>6, <3>1 DEF Windowed
      <4>. QED
        BY <2>1, <4>1, MonitorsAssumption
    <3>. QED
      BY <3>1
  <2>3. f.in = "show" /\ f.left = Monitors
    OBVIOUS
  <2>4. /\ stack' # <<>> /\ stack'[1] = f /\ Tail(stack') = Tail(stack)
        /\ In(stack', {"show"}) /\ Ordered(stack')
        /\ \A m : Shows(stack', m) => m \in Monitors
    <3>1. PICK g \in Frame : g = f /\ g.in = "show" /\ g.left = Monitors
                             /\ stack' = <<g>> \o Tail(stack)
      BY <1>t, <2>1
    <3>2. /\ stack' # <<>> /\ stack'[1] = g /\ Tail(stack') = Tail(stack)
          /\ In(stack', {"show"})
      <4>. HIDE DEF f
      <4>. QED
        BY <1>t, <1>3, <3>1, Push
    <3>3. /\ Ordered(stack') /\ \A m : Shows(stack', m) => m \in Monitors
      <4>. HIDE DEF f
      <4>. QED
        BY <1>t, <1>2, <1>3, <3>1, Stacking
    <3>. QED
      BY <3>1, <3>2, <3>3
  <2>5. \A m \in Monitors : ToCome(stack', m)
    BY <2>3, <2>4 DEF Core, ToCome
  <2>6. Stacked'
    BY <2>1, <2>3, <2>4 DEF Stacked
  <2>7. Windowed'
    BY <2>1, <2>4, <2>5 DEF Windowed
  <2>8. Armed'
    BY <1>k, <2>1, <2>2, <2>4 DEF Armed
  <2>. QED
    BY <1>4, <2>6, <2>7, <2>8
<1>. QED
  BY <1>5, <1>6 DEF TypeOK

\* The loop of show_windows is the innermost handler of all.
LEMMA ShowTop ==
  ASSUME TypeOK, Stacked, Resumes("show")
  PROVE  /\ stack \in Seq(Frame) /\ Tail(stack) \in Seq(Frame) /\ stack # <<>>
         /\ stack[1] \in Frame /\ stack[1].in = "show" /\ active
         /\ In(stack, {"show"}) /\ Core(stack) = stack
         /\ Ordered(Tail(stack)) /\ ~In(Tail(stack), Rest)
         /\ ~In(Tail(stack), {"show"}) /\ ~In(Tail(stack), {"show", "recreate", "deactivate"})
         /\ (\A m : ~Shows(Tail(stack), m)) /\ ~In(stack, {"deactivate"})
<1>1. /\ stack \in Seq(Frame) /\ Tail(stack) \in Seq(Frame) /\ stack # <<>>
      /\ stack[1] \in Frame /\ stack[1].in = "show"
  BY StackTypes DEF TypeOK, Resumes
<1>2. In(stack, {"show"}) /\ Core(stack) = stack
  BY <1>1, TopIn, CoreIs
<1>3. Ordered(Tail(stack)) /\ ~In(Tail(stack), Rest)
  BY <1>1, Unstacking DEF Stacked
<1>4. /\ ~In(Tail(stack), {"show"}) /\ ~In(Tail(stack), {"show", "recreate", "deactivate"})
      /\ (\A m : ~Shows(Tail(stack), m)) /\ ~In(Tail(stack), {"deactivate"})
  BY <1>3, Activations
<1>5. ~In(stack, {"deactivate"})
  BY <1>1, <1>4, Pop
<1>6. In(stack, {"show", "recreate", "deactivate"})
  BY <1>1, TopIn
<1>. QED
  BY <1>1, <1>2, <1>3, <1>4, <1>5, <1>6 DEF Stacked

LEMMA ShowNextAlarms ==
  ASSUME TypeOK, Alive, LockInv, AlarmsInv, ShowNext, Alive'
  PROVE  Stacked' /\ Windowed' /\ Eventful' /\ Armed'
<1>k. Stacked /\ Windowed /\ Eventful /\ Armed
  BY DEF AlarmsInv
<1>t. /\ stack \in Seq(Frame) /\ Tail(stack) \in Seq(Frame) /\ stack # <<>>
      /\ stack[1] \in Frame /\ stack[1].in = "show" /\ active
      /\ In(stack, {"show"}) /\ Core(stack) = stack
      /\ Ordered(Tail(stack)) /\ ~In(Tail(stack), Rest)
      /\ ~In(Tail(stack), {"show"}) /\ ~In(Tail(stack), {"show", "recreate", "deactivate"})
      /\ (\A m : ~Shows(Tail(stack), m)) /\ ~In(stack, {"deactivate"})
  BY <1>k, ShowTop DEF ShowNext
<1>1. PICK m \in stack[1].left : Realize(m, windows[m], "show", stack[1].left \ {m})
  BY DEF ShowNext
<1>2. stack[1].left \subseteq Monitors
  BY <1>t DEF Frame
<1>. DEFINE f == Suspended("show", stack[1].left \ {m})
<1>3. \A n \in stack[1].left : windows[n] = "added"
  BY <1>k, <1>t, Unstacking DEF Windowed
<1>4. windows' = [windows EXCEPT ![m] = "surface"] /\ stack' = <<f>> \o Tail(stack)
  BY <1>1, <1>3 DEF Realize, Alive
<1>5. f \in Frame /\ f.in = "show" /\ f.left = stack[1].left \ {m}
  BY <1>2 DEF Suspended, Frame
<1>6. /\ stack' # <<>> /\ stack'[1] = f /\ Tail(stack') = Tail(stack)
      /\ In(stack', {"show"}) /\ Ordered(stack')
      /\ \A n : Shows(stack', n) => n \in stack[1].left \ {m}
  <2>. HIDE DEF f
  <2>1. /\ stack' # <<>> /\ stack'[1] = f /\ Tail(stack') = Tail(stack)
        /\ In(stack', {"show"})
    BY <1>t, <1>4, <1>5, Push
  <2>2. Ordered(stack') /\ \A n : Shows(stack', n) => n \in stack[1].left \ {m}
    BY <1>t, <1>4, <1>5, Stacking
  <2>. QED
    BY <2>1, <2>2
<1>7. \A n \in stack[1].left \ {m} : ToCome(stack', n)
  BY <1>5, <1>6 DEF Core, ToCome
<1>8. UNCHANGED <<active, wl_lock, alarms, prefs, queue>>
  BY DEF ShowNext
<1>9. Stacked'
  BY <1>t, <1>5, <1>6, <1>8 DEF Stacked
<1>10. Windowed'
  <2>1. windows \in [Monitors -> {"none", "plain", "added", "surface"}]
    BY DEF TypeOK
  <2>2. \A n \in stack[1].left \ {m} : windows'[n] = "added"
    BY <1>2, <1>3, <1>4, <2>1
  <2>3. wl_lock =>
          \A n \in Monitors : windows'[n] = "surface" \/ n \in stack[1].left \ {m}
    <3>1. wl_lock => \A n \in Monitors : windows[n] = "surface" \/ n \in stack[1].left
      BY <1>k, <1>t DEF Windowed, ToCome
    <3>. QED
      BY <1>2, <1>4, <2>1, <3>1
  <2>. QED
    BY <1>6, <1>7, <1>8, <2>2, <2>3 DEF Windowed
<1>11. Eventful' /\ Armed'
  BY <1>k, <1>t, <1>6, <1>8, ArmedStay DEF Eventful
<1>. QED
  BY <1>9, <1>10, <1>11

\* The alarms of an active saver are set up when all windows are shown.
LEMMA ShownAlarms ==
  ASSUME TypeOK, Alive, LockInv, AlarmsInv, Shown
  PROVE  Stacked' /\ Windowed' /\ Eventful' /\ Armed'
<1>k. Stacked /\ Windowed /\ Eventful /\ Armed
  BY DEF AlarmsInv
<1>t. /\ stack \in Seq(Frame) /\ Tail(stack) \in Seq(Frame) /\ stack # <<>>
      /\ stack[1] \in Frame /\ stack[1].in = "show" /\ active
      /\ In(stack, {"show"}) /\ Core(stack) = stack
      /\ Ordered(Tail(stack)) /\ ~In(Tail(stack), Rest)
      /\ ~In(Tail(stack), {"show"}) /\ ~In(Tail(stack), {"show", "recreate", "deactivate"})
      /\ (\A m : ~Shows(Tail(stack), m)) /\ ~In(stack, {"deactivate"})
  BY <1>k, ShowTop DEF Shown
<1>1. /\ stack' = Tail(stack) /\ stack[1].left = {}
      /\ UNCHANGED <<active, wl_lock, windows, prefs>>
  BY DEF Shown
<1>2. Stacked'
  <2>1. stack' # <<>> => stack'[1].in # "deactivate"
    BY <1>t, <1>1, TopIn
  <2>. QED
    BY <1>t, <1>1, <2>1 DEF Stacked
<1>3. Windowed'
  <2>1. wl_lock => \A m \in Monitors : windows[m] = "surface"
    BY <1>k, <1>t, <1>1 DEF Windowed, ToCome
  <2>. QED
    BY <1>t, <1>1, <2>1 DEF Windowed
<1>. DEFINE more == {"ALARM_DEACTIVATE"} \cup
                 (IF prefs.lock_with_saver /\ ~zero THEN {"ALARM_LOCK"} ELSE {})
<1>4. /\ AlarmsBecome(AlarmId \ {"ALARM_ACTIVATE"}, more)
      /\ AlarmId \ {"ALARM_ACTIVATE"} \in SUBSET AlarmId /\ more \in SUBSET AlarmId
  BY DEF Shown, manager_activated, AlarmId
<1>5. Eventful'
  BY <1>k, <1>4, AlarmsBecomeEvents
<1>6. alarms' = more
  <2>1. alarms \subseteq {"ALARM_ACTIVATE"}
    BY <1>k, <1>t DEF Armed
  <2>2. alarms' = (alarms \cap (AlarmId \ {"ALARM_ACTIVATE"})) \cup more
    BY <1>4 DEF AlarmsBecome
  <2>. QED
    BY <2>1, <2>2
<1>7. Armed'
  BY <1>t, <1>1, <1>6 DEF Armed
<1>. QED
  BY <1>2, <1>3, <1>5, <1>7

\* recreate_windows is the innermost handler of all.
LEMMA RecreateTop ==
  ASSUME TypeOK, Alive, LockInv, Stacked, Resumes("recreate")
  PROVE  /\ stack \in Seq(Frame) /\ Tail(stack) \in Seq(Frame) /\ stack # <<>>
         /\ stack[1] \in Frame /\ stack[1].in = "recreate" /\ active
         /\ Core(stack) = stack /\ Ordered(Tail(stack))
         /\ (\A m : ~Shows(Tail(stack), m)) /\ (\A m : ~Shows(stack, m))
         /\ ~In(stack, {"deactivate"})
         /\ Tail(stack) # <<>> => Tail(stack)[1].in # "deactivate"
         /\ \A kinds : "recreate" \notin kinds => (In(Tail(stack), kinds) <=> In(stack, kinds))
<1>1. /\ stack \in Seq(Frame) /\ Tail(stack) \in Seq(Frame) /\ stack # <<>>
      /\ stack[1] \in Frame /\ stack[1].in = "recreate"
  BY StackTypes DEF TypeOK, Resumes
<1>2. In(stack, {"show", "recreate", "deactivate"}) /\ Core(stack) = stack
  BY <1>1, TopIn, CoreIs
<1>3. Ordered(Tail(stack)) /\ (\A m : ~Shows(Tail(stack), m)) /\ \A m : ~Shows(stack, m)
  BY <1>1, Unstacking DEF Stacked
<1>4. \A kinds : "recreate" \notin kinds => (In(Tail(stack), kinds) <=> In(stack, kinds))
  BY <1>1, Pop
<1>5. ~In(stack, {"deactivate"})
  <2>. SUFFICES ASSUME In(stack, {"deactivate"}) PROVE FALSE
    OBVIOUS
  <2>1. In(Tail(stack), {"deactivate"})
    BY <1>4
  <2>2. In(Tail(stack), Letting)
    BY <2>1 DEF In, Letting
  <2>. QED
    BY <1>1, <2>2 DEF LockInv, Nested
<1>6. Tail(stack) # <<>> => Tail(stack)[1].in # "deactivate"
  BY <1>1, Underneath
<1>. QED
  BY <1>1, <1>2, <1>3, <1>4, <1>5, <1>6 DEF Stacked

\* A monitor gets its lock surface while there is a lock, or recreate_windows is
\* yet to come to it.
LEMMA RecreateNextAlarms ==
  ASSUME TypeOK, Alive, LockInv, AlarmsInv, RecreateNext, Alive'
  PROVE  Stacked' /\ Windowed' /\ Eventful' /\ Armed'
<1>k. Stacked /\ Windowed /\ Eventful /\ Armed
  BY DEF AlarmsInv
<1>t. /\ stack \in Seq(Frame) /\ Tail(stack) \in Seq(Frame) /\ stack # <<>>
      /\ stack[1] \in Frame /\ stack[1].in = "recreate" /\ active
      /\ Core(stack) = stack /\ Ordered(Tail(stack))
      /\ (\A m : ~Shows(Tail(stack), m)) /\ (\A m : ~Shows(stack, m))
      /\ ~In(stack, {"deactivate"})
      /\ Tail(stack) # <<>> => Tail(stack)[1].in # "deactivate"
      /\ \A kinds : "recreate" \notin kinds => (In(Tail(stack), kinds) <=> In(stack, kinds))
  BY <1>k, RecreateTop DEF RecreateNext
<1>1. UNCHANGED <<active, wl_lock, alarms, prefs, queue>>
  BY DEF RecreateNext
<1>2. wl_lock => \A n \in Monitors : windows[n] = "surface" \/ n \in stack[1].left
  BY <1>k, <1>t DEF Windowed, ToCome
<1>3. CASE stack[1].left = {} /\ stack' = Tail(stack) /\ UNCHANGED windows
  <2>1. Stacked'
    BY <1>t, <1>1, <1>3 DEF Stacked
  <2>2. Windowed'
    BY <1>t, <1>1, <1>2, <1>3 DEF Windowed
  <2>3. Eventful' /\ Armed'
    BY <1>k, <1>t, <1>1, <1>3, ArmedStay DEF Eventful
  <2>. QED
    BY <2>1, <2>2, <2>3
<1>4. ASSUME NEW m \in stack[1].left,
             Realize(m, IF wl_lock THEN "added" ELSE "plain", "recreate",
                     stack[1].left \ {m})
      PROVE  Stacked' /\ Windowed' /\ Eventful' /\ Armed'
  <2>1. stack[1].left \ {m} \in SUBSET Monitors
    BY <1>t, StackTypes
  <2>2. PICK f \in Frame : /\ f.in = "recreate" /\ f.left = stack[1].left \ {m}
                           /\ stack' = <<f>> \o Tail(stack)
    <3>. DEFINE g == [in |-> "recreate", left |-> stack[1].left \ {m}, waits |-> FALSE]
                h == Suspended("recreate", stack[1].left \ {m})
    <3>1. /\ g \in Frame /\ g.in = "recreate" /\ g.left = stack[1].left \ {m}
          /\ h \in Frame /\ h.in = "recreate" /\ h.left = stack[1].left \ {m}
      BY <2>1 DEF Frame, Suspended
    <3>2. stack' = <<g>> \o Tail(stack) \/ stack' = <<h>> \o Tail(stack)
      BY <1>4 DEF Realize, Alive
    <3>. HIDE DEF g, h
    <3>. QED
      BY <3>1, <3>2
  <2>3. wl_lock => windows' = [windows EXCEPT ![m] = "surface"]
    BY <1>4 DEF Realize, Alive
  <2>4. /\ stack' # <<>> /\ stack'[1] = f /\ Tail(stack') = Tail(stack)
        /\ \A kinds : In(stack', kinds) <=> f.in \in kinds \/ In(Tail(stack), kinds)
    BY <1>t, <2>2, Push
  <2>5. ~In(stack', {"deactivate"}) /\ (In(stack', {"show"}) <=> In(stack, {"show"}))
    BY <1>t, <2>2, <2>4
  <2>6. Ordered(stack') /\ \A n : ~Shows(stack', n)
    BY <1>t, <2>2, Stacking
  <2>7. \A n \in stack[1].left \ {m} : ToCome(stack', n)
    BY <2>2, <2>4 DEF ToCome, Core
  <2>8. Stacked'
    BY <1>t, <1>1, <2>2, <2>4, <2>6 DEF Stacked
  <2>9. wl_lock => \A n \in Monitors : windows'[n] = "surface" \/ n \in stack[1].left \ {m}
    BY <1>2, <2>3 DEF TypeOK
  <2>10. Windowed'
    BY <1>1, <2>6, <2>7, <2>9 DEF Windowed
  <2>11. Eventful' /\ Armed'
    BY <1>k, <1>1, <2>5, ArmedStay DEF Eventful
  <2>. QED
    BY <2>8, <2>10, <2>11
<1>. QED
  BY <1>3, <1>4 DEF RecreateNext, Alive

LEMMA UnlockReturnsAlarms ==
  ASSUME TypeOK, Alive, LockInv, AlarmsInv, UnlockReturns
  PROVE  Stacked' /\ Windowed' /\ Eventful' /\ Armed'
<1>k. Stacked /\ Windowed /\ Eventful /\ Armed
  BY DEF AlarmsInv
<1>t. /\ stack \in Seq(Frame) /\ Tail(stack) \in Seq(Frame) /\ stack # <<>>
      /\ stack[1] \in Frame /\ stack' = Tail(stack) /\ wl_lock' = FALSE
      /\ windows' = Bared /\ prefs' = prefs
  BY StackTypes DEF TypeOK, UnlockReturns, Resumes
<1>1. CASE stack[1].in = "unlock"
  <2>1. UNCHANGED <<active, alarms, queue>>
    BY <1>1 DEF UnlockReturns
  <2>2. /\ In(stack', {"show"}) <=> In(stack, {"show"})
        /\ In(stack', {"show", "recreate", "deactivate"})
             <=> In(stack, {"show", "recreate", "deactivate"})
    BY <1>t, <1>1, Pop
  <2>3. Ordered(stack') /\ \A m : Shows(stack', m) => Shows(stack, m)
    BY <1>k, <1>t, Unstacking DEF Stacked
  <2>4. stack' # <<>> => stack'[1].in # "deactivate"
    BY <1>t, Underneath
  <2>5. Stacked'
    BY <1>k, <2>1, <2>2, <2>3, <2>4 DEF Stacked
  <2>6. Windowed'
    <3>1. \A m \in Monitors : windows[m] = "added" => windows'[m] = "added"
      BY <1>t DEF Bared
    <3>2. \A m : Shows(stack', m) => windows'[m] = "added"
      BY <1>k, <1>t, <2>3, <3>1, ShownFrames DEF Windowed
    <3>. QED
      BY <1>t, <3>2 DEF Windowed
  <2>7. Eventful' /\ Armed'
    BY <1>k, <1>t, <2>1, <2>2, ArmedStay DEF Eventful
  <2>. QED
    BY <2>5, <2>6, <2>7
<1>2. CASE stack[1].in = "deactivate"
  <2>1. stack' = <<>> /\ active /\ ~In(stack, {"show"})
    <3>1. stack' = <<>>
      BY <1>k, <1>t, <1>2 DEF Stacked
    <3>2. ~In(stack, {"show"})
      BY <1>t, <1>2, <3>1, NoFrames, Pop
    <3>3. In(stack, {"show", "recreate", "deactivate"})
      BY <1>t, <1>2, TopIn
    <3>. QED
      BY <1>k, <3>1, <3>2, <3>3 DEF Stacked
  <2>2. active' = FALSE /\ manager_deactivated
    BY <1>2 DEF UnlockReturns, Deactivated
  <2>3. Stacked' /\ Windowed'
    BY <1>t, <2>1, NoFrames, Nothing DEF Stacked, Windowed
  <2>. DEFINE more == IF prefs.enabled THEN {"ALARM_ACTIVATE"} ELSE {}
  <2>4. /\ AlarmsBecome({"ALARM_ACTIVATE"}, more)
        /\ {"ALARM_ACTIVATE"} \in SUBSET AlarmId /\ more \in SUBSET AlarmId
    BY <2>2 DEF manager_deactivated, AlarmId
  <2>5. Eventful'
    BY <1>k, <2>4, AlarmsBecomeEvents
  <2>6. alarms' = more
    <3>1. "ALARM_ACTIVATE" \notin alarms
      BY <1>k, <2>1 DEF Armed
    <3>2. alarms' = (alarms \cap {"ALARM_ACTIVATE"}) \cup more
      BY <2>4 DEF AlarmsBecome
    <3>. QED
      BY <3>1, <3>2
  <2>7. Armed'
    BY <1>t, <2>2, <2>6 DEF Armed
  <2>. QED
    BY <2>3, <2>5, <2>7
<1>. QED
  BY <1>1, <1>2 DEF UnlockReturns, Resumes

LEMMA PrefsChangedAlarms ==
  ASSUME TypeOK, Alive, LockInv, AlarmsInv, PrefsChanged
  PROVE  Stacked' /\ Windowed' /\ Eventful' /\ Armed'
<1>k. Stacked /\ Windowed /\ Eventful /\ Armed /\ alarms \subseteq AlarmId
  BY DEF AlarmsInv, TypeOK
<1>1. PICK new \in PrefsValues, changed \in BOOLEAN : set_timeouts(new, changed)
  BY DEF PrefsChanged
<1>2. stack = <<>> /\ ~In(stack, {"show"}) /\ UNCHANGED <<stack, active, wl_lock, windows>>
  BY NoFrames DEF PrefsChanged, AtRest
<1>3. Stacked' /\ Windowed' /\ ~In(stack', {"show"})
  BY <1>k, <1>2, HandlersStay
<1>4. Eventful'
  <2>1. PICK keep \in SUBSET AlarmId, add \in SUBSET AlarmId : AlarmsBecome(keep, add)
    BY <1>1, AlarmsChange
  <2>. QED
    BY <1>k, <2>1, AlarmsBecomeEvents
<1>5. prefs' = new
  BY <1>1 DEF set_timeouts
<1>6. CASE ~new.enabled
  <2>1. alarms' = alarms \cap {"ALARM_DEACTIVATE"}
    BY <1>1, <1>6 DEF set_timeouts, AlarmsBecome
  <2>2. CASE active
    <3>1. "ALARM_DEACTIVATE" \in alarms
      BY <1>k, <1>2, <2>2 DEF Armed
    <3>. QED
      BY <1>2, <1>3, <1>4, <2>1, <2>2, <3>1 DEF Armed
  <2>3. CASE ~active
    <3>1. alarms \subseteq {"ALARM_ACTIVATE"}
      BY <1>k, <2>3 DEF Armed
    <3>2. alarms' = {}
      BY <2>1, <3>1
    <3>. QED
      BY <1>2, <1>3, <1>4, <1>5, <1>6, <2>3, <3>2 DEF Armed
  <2>. QED
    BY <2>2, <2>3
<1>7. CASE new.enabled
  <2>. DEFINE more == IF /\ "ALARM_DEACTIVATE" \notin alarms
                         /\ changed \/ "ALARM_ACTIVATE" \notin alarms
                      THEN {"ALARM_ACTIVATE"} ELSE {}
              kept == IF new.lock_with_saver THEN AlarmId ELSE AlarmId \ {"ALARM_LOCK"}
  <2>1. alarms' = (alarms \cap kept) \cup more
    BY <1>1, <1>7 DEF set_timeouts, AlarmsBecome
  <2>2. CASE active
    <3>1. "ALARM_DEACTIVATE" \in alarms /\ "ALARM_ACTIVATE" \notin alarms
      BY <1>k, <1>2, <2>2 DEF Armed
    <3>2. /\ "ALARM_DEACTIVATE" \in alarms' /\ "ALARM_ACTIVATE" \notin alarms'
          /\ "ALARM_LOCK" \in alarms' => new.lock_with_saver
      BY <2>1, <3>1 DEF AlarmId
    <3>. QED
      BY <1>2, <1>3, <1>4, <1>5, <2>2, <3>2 DEF Armed
  <2>3. CASE ~active
    <3>1. alarms \subseteq {"ALARM_ACTIVATE"}
      BY <1>k, <2>3 DEF Armed
    <3>2. alarms' = {"ALARM_ACTIVATE"}
      BY <2>1, <3>1 DEF AlarmId
    <3>. QED
      BY <1>2, <1>3, <1>4, <1>5, <1>7, <2>3, <3>2 DEF Armed
  <2>. QED
    BY <2>2, <2>3
<1>. QED
  BY <1>6, <1>7

\* The windows that are made anew take the place of those that a loop of
\* show_windows, which is over now, was yet to show.
LEMMA MonitorsChangedAlarms ==
  ASSUME TypeOK, Alive, LockInv, AlarmsInv, MonitorsChanged, Alive'
  PROVE  Stacked' /\ Windowed' /\ Eventful' /\ Armed'
<1>k. Stacked /\ Windowed /\ Eventful /\ Armed /\ Nested
  BY DEF AlarmsInv, LockInv
<1>1. /\ LoopBroken \in Seq(Frame) /\ stack' # <<>>
      /\ stack' = <<stack'[1]>> \o LoopBroken
      /\ stack'[1] \in Frame /\ stack'[1].in = "recreate" /\ stack'[1].left = Monitors
      /\ Tail(stack') = LoopBroken
      /\ \A kinds : In(LoopBroken, kinds) <=> In(stack, kinds)
      /\ ~In(stack, Letting)
      /\ stack # <<>> => stack[1].in \in {"lock", "show", "recreate"}
      /\ UNCHANGED <<wl_lock, object, queue, error>>
  BY <1>k, RebuildStack
<1>2. active /\ UNCHANGED <<active, alarms, prefs>> /\ stack \in Seq(Frame)
  BY DEF MonitorsChanged, TypeOK
<1>3. Ordered(LoopBroken) /\ \A m : ~Shows(LoopBroken, m)
  <2>1. CASE stack = <<>>
    BY <2>1, Nothing DEF LoopBroken
  <2>2. CASE stack # <<>> /\ stack[1].in = "show"
    <3>1. /\ Tail(stack) \in Seq(Frame) /\ ~In(Tail(stack), Rest) /\ Ordered(Tail(stack))
      BY <1>k, <1>2, <2>2, StackTypes, Unstacking DEF Stacked
    <3>2. \A m : ~Shows(Tail(stack), m)
      BY <3>1, Activations
    <3>3. PICK f \in Frame : f = Suspended("show", {}) /\ f.in = "show" /\ f.left = {}
      BY Frames DEF Suspended
    <3>4. LoopBroken = <<f>> \o Tail(stack)
      BY <2>2, <3>3 DEF LoopBroken
    <3>. QED
      BY <3>1, <3>2, <3>3, <3>4, Stacking
  <2>3. CASE stack # <<>> /\ stack[1].in \in {"lock", "recreate"}
    <3>1. LoopBroken = stack
      BY <2>3 DEF LoopBroken
    <3>2. \A m : ~Shows(Tail(stack), m)
      BY <1>k, <1>2, <2>3, Unstacking, Activations DEF Stacked
    <3>3. \A m : ~Shows(stack, m)
      BY <1>2, <2>3, <3>2, Unstacking
    <3>. QED
      BY <1>k, <3>1, <3>3 DEF Stacked
  <2>. QED
    BY <1>1, <2>1, <2>2, <2>3
<1>r. PICK r \in Frame : r.in = "recreate" /\ stack' = <<r>> \o LoopBroken
  BY <1>1
<1>4. Ordered(stack') /\ \A m : ~Shows(stack', m)
  <2>1. ASSUME NEW f \in Frame, f.in = "recreate", NEW t \in Seq(Frame), Ordered(t),
               \A m : ~Shows(t, m)
        PROVE  Ordered(<<f>> \o t) /\ \A m : ~Shows(<<f>> \o t, m)
    BY <2>1, Stacking
  <2>2. Ordered(<<r>> \o LoopBroken) /\ \A m : ~Shows(<<r>> \o LoopBroken, m)
    BY <1>1, <1>3, <1>r, <2>1
  <2>. QED
    BY <1>r, <2>2
<1>5. In(stack', {"show"}) <=> In(stack, {"show"})
  <2>1. ASSUME NEW f \in Frame, f.in = "recreate", NEW t \in Seq(Frame)
        PROVE  In(<<f>> \o t, {"show"}) <=> In(t, {"show"})
    BY <2>1, Push
  <2>2. In(<<r>> \o LoopBroken, {"show"}) <=> In(LoopBroken, {"show"})
    BY <1>1, <1>r, <2>1
  <2>. QED
    BY <1>1, <1>r, <2>2
<1>6. \A m \in Monitors : ToCome(stack', m)
  BY <1>1 DEF ToCome, Core
<1>7. Stacked'
  BY <1>1, <1>2, <1>4 DEF Stacked
<1>8. Windowed'
  BY <1>4, <1>6 DEF Windowed
<1>9. Eventful' /\ Armed'
  BY <1>k, <1>1, <1>2, <1>5, ArmedStay DEF Eventful
<1>. QED
  BY <1>7, <1>8, <1>9

\* Between the events nothing is on the stack.
LEMMA RequestAlarms ==
  ASSUME TypeOK, Alive, LockInv, AlarmsInv, DeactivateLocked \/ DeactivateUnlocked
  PROVE  Stacked' /\ Windowed' /\ Eventful' /\ Armed'
<1>k. Stacked /\ Windowed /\ Eventful /\ Armed
  BY DEF AlarmsInv
<1>t. queue \in Seq(Event) /\ stack = <<>> /\ active /\ prefs' = prefs /\ ~In(stack, {"show"})
  BY NoFrames DEF TypeOK, DeactivateLocked, DeactivateUnlocked, AtRest
<1>1. CASE DeactivateLocked
  <2>1. /\ stack' = <<Suspended("deactivate", {})>> /\ queue' = Without(queue, OfLock)
        /\ UNCHANGED <<active, alarms>>
    BY <1>1 DEF DeactivateLocked, UnlockRequest
  <2>2. PICK f \in Frame : f.in = "deactivate" /\ stack' = <<f>> \o <<>>
    BY <2>1, Waiting
  <2>3. /\ stack' # <<>> /\ stack'[1] = f /\ Tail(stack') = <<>>
        /\ \A kinds : In(stack', kinds) <=> f.in \in kinds
    <3>1. <<>> \in Seq(Frame)
      OBVIOUS
    <3>. QED
      BY <2>2, <3>1, NoFrames, Push
  <2>4. Ordered(stack') /\ \A m : ~Shows(stack', m)
    <3>1. <<>> \in Seq(Frame)
      OBVIOUS
    <3>. QED
      BY <2>2, <3>1, NoFrames, Nothing, Stacking
  <2>5. Stacked' /\ Windowed' /\ ~In(stack', {"show"})
    BY <1>t, <2>1, <2>2, <2>3, <2>4 DEF Stacked, Windowed
  <2>6. Eventful'
    BY <1>k, <2>1, VoidedEvents
  <2>7. Armed'
    BY <1>k, <1>t, <2>1, <2>5, ArmedStay
  <2>. QED
    BY <2>5, <2>6, <2>7
<1>2. CASE DeactivateUnlocked
  <2>1. /\ stack' = <<>> /\ active' = FALSE /\ queue' = Without(queue, Event)
        /\ alarms' = IF prefs.enabled THEN {"ALARM_ACTIVATE"} ELSE {}
    BY <1>2, <1>t DEF DeactivateUnlocked
  <2>2. Stacked' /\ Windowed'
    BY <2>1, NoFrames, Nothing DEF Stacked, Windowed
  <2>3. Armed'
    BY <1>t, <2>1 DEF Armed
  <2>4. Eventful'
    <3>1. ASSUME NEW id \in AlarmId PROVE ~Has(queue', OfAlarm({id}))
      <4>1. OfAlarm({id}) \cap Event = OfAlarm({id}) /\ Void \notin OfAlarm({id})
        BY Events
      <4>2. ~Has(Without(queue, Event), OfAlarm({id}) \cap Event)
        BY <1>t, <4>1, WithoutHas
      <4>. QED
        BY <2>1, <4>1, <4>2
    <3>. QED
      BY <3>1 DEF Eventful
  <2>. QED
    BY <2>2, <2>3, <2>4
<1>. QED
  BY <1>1, <1>2

LEMMA CompositorAlarms ==
  ASSUME TypeOK, Alive, LockInv, AlarmsInv,
         Grants \/ Denies \/ Revokes \/ AlarmFires \/ UserActs
           \/ UserLeaves \/ FullscreenChanges \/ InhibitionChanges \/ UNCHANGED vars
  PROVE  Stacked' /\ Windowed' /\ Eventful' /\ Armed'
<1>k. Stacked /\ Windowed /\ Eventful /\ Armed
  BY DEF AlarmsInv
<1>t. queue \in Seq(Event) /\ fired \subseteq alarms /\ alarms \subseteq AlarmId
  BY DEF TypeOK
<1>1. client' = client
  BY DEF Grants, Denies, Revokes, AlarmFires, UserActs, UserLeaves, FullscreenChanges, InhibitionChanges, vars
<1>2. UNCHANGED <<active, wl_lock, windows, stack, alarms, prefs>>
  BY <1>1 DEF client
<1>3. Stacked' /\ Windowed' /\ Armed'
  BY <1>k, <1>2, HandlersStay, ArmedStay
<1>4. ASSUME NEW id \in AlarmId, Has(queue', OfAlarm({id}))
      PROVE  Has(queue, OfAlarm({id})) \/ id \in alarms
  <2>1. CASE Grants \/ Denies \/ Revokes
    <3>1. PICK e \in OfLock : queue' = Append(queue, e)
      BY <2>1 DEF Grants, Denies, Revokes, OfLock
    <3>2. e \in Event /\ e \notin OfAlarm({id})
      BY <3>1 DEF Event, OfLock, OfAlarm, AlarmId
    <3>. QED
      BY <1>t, <1>4, <3>1, <3>2, AppendHas
  <2>2. CASE AlarmFires
    <3>1. PICK i \in alarms : queue' = Append(queue, <<"idled", i>>)
      BY <2>2 DEF AlarmFires
    <3>2. <<"idled", i>> \in Event
      BY <1>t, <3>1 DEF Event, OfAlarm
    <3>3. <<"idled", i>> \in OfAlarm({id}) \/ Has(queue, OfAlarm({id}))
      BY <1>t, <1>4, <3>1, <3>2, AppendHas
    <3>. QED
      BY <3>1, <3>3 DEF OfAlarm
  <2>3. CASE UserActs
    <3>1. PICK r \in Seq(OfAlarm(fired)) : queue' = queue \o r
      BY <2>3, ResumedEvents
    <3>2. r \in Seq(Event)
      <4>1. OfAlarm(fired) \subseteq Event
        BY <1>t, Events
      <4>. QED
        BY <3>1, <4>1
    <3>3. CASE Has(r, OfAlarm({id}))
      <4>1. PICK i \in DOMAIN r : r[i] \in OfAlarm({id})
        BY <3>3 DEF Has
      <4>2. r[i] \in OfAlarm(fired)
        BY <3>1, <4>1, ElementOfSeq, LenProperties
      <4>. QED
        BY <1>t, <4>1, <4>2 DEF OfAlarm
    <3>. QED
      BY <1>t, <1>4, <3>1, <3>2, <3>3, ConcatHas
  <2>4. CASE UserLeaves \/ FullscreenChanges \/ InhibitionChanges \/ UNCHANGED vars
    BY <1>4, <2>4 DEF UserLeaves, FullscreenChanges, InhibitionChanges, vars
  <2>. QED
    BY <2>1, <2>2, <2>3, <2>4
<1>5. Eventful'
  BY <1>k, <1>2, <1>4, EventsStay
<1>. QED
  BY <1>3, <1>5

LEMMA ActivateRequestAlarms ==
  ASSUME TypeOK, Alive, LockInv, AlarmsInv, ActivateRequest
  PROVE  Stacked' /\ Windowed' /\ Eventful' /\ Armed'
<1>k. Stacked /\ Windowed /\ Eventful /\ Armed
  BY DEF AlarmsInv
<1>1. ~active /\ UNCHANGED <<active, windows, alarms, prefs, queue>> /\ Activate
  BY DEF ActivateRequest
<1>2. CASE wl_lock
  <2>1. UNCHANGED <<wl_lock, stack>>
    BY <1>1, <1>2 DEF Activate
  <2>. QED
    BY <1>k, <1>1, <2>1, HandlersStay, ArmedStay DEF Eventful
<1>3. CASE ~wl_lock
  <2>1. stack' = <<Suspended("lock", {})>> \o stack
    BY <1>1, <1>3 DEF Activate
  <2>2. Stacked' /\ Windowed' /\ ~In(stack', {"show"}) /\ ~In(stack, {"show"})
    BY <1>k, <1>1, <1>3, <2>1, PushLock DEF LockInv
  <2>. QED
    BY <1>k, <1>1, <2>2, ArmedStay DEF Eventful
<1>. QED
  BY <1>2, <1>3

\* The lock, the handlers that are suspended and the alarms stay consistent.
LEMMA LockHandled == Spec => [](LockInv /\ AlarmsInv)
<1>1. Init => AlarmsInv
  <2>. SUFFICES ASSUME Init PROVE AlarmsInv
    OBVIOUS
  <2>1. stack = <<>> /\ queue = <<>> /\ active = FALSE
        /\ alarms = IF prefs.enabled THEN {"ALARM_ACTIVATE"} ELSE {}
    BY DEF Init
  <2>2. Stacked /\ Windowed
    BY <2>1, NoFrames, Nothing DEF Stacked, Windowed
  <2>3. Eventful
    BY <2>1 DEF Eventful, Has
  <2>4. Armed
    BY <2>1 DEF Armed
  <2>. QED
    BY <2>2, <2>3, <2>4 DEF AlarmsInv
<1>2. TypeOK /\ LockInv /\ AlarmsInv /\ [Next]_vars => AlarmsInv'
  <2>. SUFFICES ASSUME TypeOK, LockInv, AlarmsInv, [Next]_vars, Alive'
                PROVE  Stacked' /\ Windowed' /\ Eventful' /\ Armed'
    BY DEF AlarmsInv
  <2>a. Alive
    BY DEF Next, vars, client, Alive, AtRest, Resumes, Dispatching,
       PrefsChanged, ActivateRequest, LockReturns, ShowNext, Shown, MonitorsChanged,
       RecreateNext, DeactivateUnlocked, DeactivateLocked, UnlockReturns, Dispatch,
       Grants, Denies, Revokes, AlarmFires, UserLeaves, UserActs, FullscreenChanges, InhibitionChanges
  <2>1. CASE PrefsChanged
    BY <2>a, <2>1, PrefsChangedAlarms
  <2>2. CASE ActivateRequest
    BY <2>a, <2>2, ActivateRequestAlarms
  <2>3. CASE LockReturns
    BY <2>a, <2>3, LockReturnsAlarms
  <2>4. CASE ShowNext
    BY <2>a, <2>4, ShowNextAlarms
  <2>5. CASE Shown
    BY <2>a, <2>5, ShownAlarms
  <2>6. CASE DeactivateUnlocked \/ DeactivateLocked
    BY <2>a, <2>6, RequestAlarms
  <2>11. CASE MonitorsChanged
    BY <2>a, <2>11, MonitorsChangedAlarms
  <2>7. CASE RecreateNext
    BY <2>a, <2>7, RecreateNextAlarms
  <2>8. CASE UnlockReturns
    BY <2>a, <2>8, UnlockReturnsAlarms
  <2>9. CASE Dispatch
    <3>1. AlarmsInv'
      BY <2>a, <2>9, DispatchAlarms DEF Dispatch
    <3>. QED
      BY <3>1 DEF AlarmsInv
  <2>10. CASE Grants \/ Denies \/ Revokes \/ AlarmFires \/ UserActs
           \/ UserLeaves \/ FullscreenChanges \/ InhibitionChanges \/ UNCHANGED vars
    BY <2>a, <2>10, CompositorAlarms
  <2>. QED
    BY <2>1, <2>2, <2>3, <2>4, <2>5, <2>6, <2>7, <2>8, <2>9, <2>10, <2>11 DEF Next
<1>3. Init => LockInv
  BY DEF Init, LockInv, Keeping, Announced, Nested, Has
<1>4. TypeOK /\ TypeOK' /\ LockInv /\ [Next]_vars => LockInv'
  BY LockStep
<1>. QED
  BY <1>1, <1>2, <1>3, <1>4, SessionTypes, PTL DEF Spec

\* The alarms fit the state of the saver whenever the main loop waits for
\* events, although every step towards that may be interrupted: the activation
\* in the roundtrips of gs_session_lock_manager_lock and of window_realized, and
\* the deactivation in that of gs_session_lock_manager_unlock.
THEOREM AlarmsFollow == Spec => []AlarmsFit
<1>1. TypeOK /\ AlarmsInv => AlarmsFit
  BY NoFrames DEF TypeOK, AlarmsInv, Armed, AlarmsFit, AtRest
<1>. QED
  BY <1>1, SessionTypes, LockHandled, PTL

\* A session that the daemon has locked is one that an active manager with a
\* lock can unlock, and that has a lock surface on every monitor to show the
\* dialog on, however the compositor's answers, recreate_windows and the
\* handlers of gs-session-lock-manager.c interleave.
THEOREM NoLockWithoutKey == Spec => []NobodyLockedOut
<1>1. LockInv /\ AlarmsInv /\ AtRest /\ session = "locked" => active /\ wl_lock
  BY NoFrames DEF LockInv, AtRest, Keeping, Nested
<1>2. AlarmsInv /\ AtRest /\ active /\ wl_lock => \A m \in Monitors : windows[m] = "surface"
  BY NoFrames, Nothing DEF AlarmsInv, AtRest, Windowed
<1>3. LockInv /\ AlarmsInv => NobodyLockedOut
  BY <1>1, <1>2 DEF NobodyLockedOut
<1>. QED
  BY <1>3, LockHandled, PTL

-----------------------------------------------------------------------------
(***************************************************************************)
(* What the daemon holds for a lock.                                       *)
(***************************************************************************)
Over == <<"finished", "lock">>

\* The daemon hears of a lock that is over, and has an object for each lock that
\* it is not letting go of.
Expecting ==
  Alive => /\ object = "finished" => Has(queue, {Over})
           /\ wl_lock /\ (stack # <<>> => stack[1].in \notin Letting) => object # "none"

\* An event stays on its way until it is its turn or its object is gone.
LEMMA EventKept ==
  ASSUME NEW q \in Seq(Event), NEW e \in Event, Has(q, {e})
  PROVE  /\ \A gone : e \notin gone => Has(Without(q, gone), {e})
         /\ q # <<>> /\ Head(q) # e => Has(Tail(q), {e})
         /\ \A x \in Event : Has(Append(q, x), {e})
         /\ \A r \in Seq(Event) : Has(q \o r, {e})
<1>1. PICK i \in DOMAIN q : q[i] = e
  BY DEF Has
<1>2. DOMAIN q = 1..Len(q) /\ Len(q) \in Nat /\ i \in 1..Len(q)
  BY <1>1, LenProperties
<1>3. ASSUME NEW gone, e \notin gone PROVE Has(Without(q, gone), {e})
  <2>1. DOMAIN Without(q, gone) = 1..Len(q) /\ Without(q, gone)[i] = e
    BY <1>1, <1>2, <1>3, WithoutIs, LenProperties
  <2>. QED
    BY <1>2, <2>1 DEF Has
<1>4. ASSUME q # <<>>, Head(q) # e PROVE Has(Tail(q), {e})
  <2>1. /\ Tail(q) \in Seq(Event) /\ Len(Tail(q)) = Len(q) - 1
        /\ \A j \in 1..Len(Tail(q)) : Tail(q)[j] = q[j + 1]
    BY <1>4, HeadTailProperties
  <2>2. DOMAIN Tail(q) = 1..Len(Tail(q))
    BY <2>1, LenProperties
  <2>3. i # 1
    BY <1>1, <1>4, TailHas
  <2>4. i - 1 \in DOMAIN Tail(q) /\ Tail(q)[i - 1] = e
    BY <1>1, <1>2, <2>1, <2>2, <2>3
  <2>. QED
    BY <2>4 DEF Has
<1>5. ASSUME NEW x \in Event PROVE Has(Append(q, x), {e})
  <2>1. /\ Append(q, x) \in Seq(Event) /\ Len(Append(q, x)) = Len(q) + 1
        /\ \A j \in 1..Len(q) : Append(q, x)[j] = q[j]
    BY AppendProperties
  <2>2. i \in DOMAIN Append(q, x) /\ Append(q, x)[i] = e
    BY <1>1, <1>2, <2>1, LenProperties
  <2>. QED
    BY <2>2 DEF Has
<1>6. ASSUME NEW r \in Seq(Event) PROVE Has(q \o r, {e})
  <2>1. /\ q \o r \in Seq(Event) /\ Len(q \o r) = Len(q) + Len(r) /\ Len(r) \in Nat
        /\ \A j \in 1..(Len(q) + Len(r)) :
             (q \o r)[j] = IF j <= Len(q) THEN q[j] ELSE r[j - Len(q)]
    BY ConcatProperties, LenProperties
  <2>2. i \in DOMAIN (q \o r) /\ (q \o r)[i] = e
    BY <1>1, <1>2, <2>1, LenProperties
  <2>. QED
    BY <2>2 DEF Has
<1>. QED
  BY <1>3, <1>4, <1>5, <1>6

LEMMA OverIs ==
  /\ Over \in Event /\ Over \in OfLock
  /\ \A ids : Over \notin OfAlarm(ids)
  /\ Over # <<"locked", "lock">> /\ Over # Void
  /\ \A id : Over # <<"idled", id>> /\ Over # <<"resumed", id>>
  BY DEF Over, Event, OfLock, OfAlarm, Void

\* The same for the handlers that leave the lock object alone.
LEMMA ExpectingStays ==
  ASSUME TypeOK, Alive, Expecting, object' = object, wl_lock' => wl_lock,
         Has(queue, {Over}) => Has(queue', {Over}),
         wl_lock' /\ (stack' # <<>> => stack'[1].in \notin Letting) =>
           (stack # <<>> => stack[1].in \notin Letting)
  PROVE  Expecting'
  BY DEF Expecting

LEMMA AlarmsBecomeOver ==
  ASSUME TypeOK, NEW keep, NEW add, AlarmsBecome(keep, add), Has(queue, {Over})
  PROVE  Has(queue', {Over})
<1>1. /\ queue \in Seq(Event)
      /\ queue' = Without(queue, OfAlarm((AlarmId \ keep) \cup add))
  BY DEF TypeOK, AlarmsBecome
<1>. QED
  BY <1>1, OverIs, EventKept

LEMMA AlarmsOver ==
  ASSUME TypeOK, Has(queue, {Over}),
         \/ \E new, changed : set_timeouts(new, changed)
         \/ manager_activated \/ manager_deactivated
  PROVE  Has(queue', {Over})
<1>1. PICK keep \in SUBSET AlarmId, add \in SUBSET AlarmId : AlarmsBecome(keep, add)
  BY AlarmsChange
<1>. QED
  BY <1>1, AlarmsBecomeOver

\* The next event is another one.
LEMMA TailOver ==
  ASSUME TypeOK, queue # <<>>, Head(queue) # Over, queue' = Tail(queue),
         Has(queue, {Over})
  PROVE  Has(queue', {Over})
<1>1. queue \in Seq(Event)
  BY DEF TypeOK
<1>. QED
  BY <1>1, OverIs, EventKept

\* An activation is refused, or asks for a lock.
LEMMA ActivateExpects ==
  ASSUME TypeOK, Alive, Expecting, Activate,
         Has(queue, {Over}) => Has(queue', {Over})
  PROVE  Expecting'
<1>1. CASE active \/ wl_lock
  BY <1>1, ExpectingStays DEF Activate
<1>2. CASE ~(active \/ wl_lock)
  BY <1>2 DEF Activate, Expecting
<1>. QED
  BY <1>1, <1>2

LEMMA DispatchExpects ==
  ASSUME TypeOK, Alive, Expecting, Dispatch
  PROVE  Expecting'
<1>1. queue # <<>>
  BY DEF Dispatch
<1>2. CASE IdledActivate
  <2>1. queue' = Tail(queue) /\ Head(queue) # Over
    BY <1>2, OverIs DEF IdledActivate
  <2>2. Has(queue, {Over}) => Has(queue', {Over})
    BY <1>1, <2>1, TailOver
  <2>3. CASE Activate
    BY <2>2, <2>3, ActivateExpects
  <2>4. CASE UNCHANGED <<wl_lock, stack, object, told>>
    BY <2>2, <2>4, ExpectingStays
  <2>. QED
    BY <1>2, <2>3, <2>4 DEF IdledActivate
<1>3. CASE Locked \/ IdledDeactivateOrResumed
  <2>1. queue' = Tail(queue) /\ UNCHANGED <<wl_lock, stack, object>>
    BY <1>3 DEF Locked, IdledDeactivateOrResumed, compositor
  <2>2. Head(queue) # Over
    <3>1. Locked => Head(queue) # Over
      BY OverIs DEF Locked
    <3>2. Over \notin {Void, <<"idled", "ALARM_DEACTIVATE">>} \cup ({"resumed"} \X AlarmId)
      BY DEF Over, Void
    <3>3. IdledDeactivateOrResumed => Head(queue) # Over
      BY <3>2, Zenon DEF IdledDeactivateOrResumed
    <3>. QED
      BY <1>3, <3>1, <3>3
  <2>3. Has(queue, {Over}) => Has(queue', {Over})
    BY <1>1, <2>1, <2>2, TailOver
  <2>. QED
    BY <2>1, <2>3, ExpectingStays
<1>4. CASE Fullscreen \/ IdledLock
  <2>1. UNCHANGED <<wl_lock, stack, object>>
    BY <1>4 DEF Fullscreen, IdledLock, compositor
  <2>2. Has(queue, {Over}) => Has(queue', {Over})
    BY <1>4, AlarmsBecomeOver DEF Fullscreen, IdledLock
  <2>. QED
    BY <2>1, <2>2, ExpectingStays
<1>5. CASE Finished
  <2>1. object' = "none"
    BY <1>5 DEF Finished, DestroyRequest, UnlockRequest
  <2>2. CASE locked
    <3>1. stack' = <<Suspended("unlock", {})>> \o stack /\ stack \in Seq(Frame)
      BY <1>5, <2>2 DEF Finished, TypeOK
    <3>2. stack' # <<>> /\ stack'[1].in = "unlock"
      BY <3>1, Waiting, Push
    <3>. QED
      BY <2>1, <3>2 DEF Expecting, Letting
  <2>3. CASE ~locked
    <3>1. wl_lock' = FALSE
      BY <1>5, <2>3 DEF Finished
    <3>. QED
      BY <2>1, <3>1 DEF Expecting
  <2>. QED
    BY <2>2, <2>3
<1>. QED
  BY <1>2, <1>3, <1>4, <1>5 DEF Dispatch

LEMMA CompositorExpects ==
  ASSUME TypeOK, Alive, Expecting, Grants \/ Denies \/ Revokes \/ AlarmFires \/ UserActs
  PROVE  Expecting'
<1>1. client' = client /\ queue \in Seq(Event) /\ fired \subseteq AlarmId
      /\ alarms \subseteq AlarmId
  BY DEF Grants, Denies, Revokes, AlarmFires, UserActs, TypeOK
<1>2. UNCHANGED <<wl_lock, stack>>
  BY <1>1 DEF client
<1>3. CASE Grants \/ Denies \/ Revokes
  <2>1. object' \in {"granted", "finished"}
    BY <1>3 DEF Grants, Denies, Revokes
  <2>2. object' = "finished" => queue' = Append(queue, Over)
    BY <1>3 DEF Grants, Denies, Revokes, Over
  <2>3. Has(Append(queue, Over), {Over})
    <3>1. /\ Append(queue, Over)[Len(queue) + 1] = Over
          /\ Len(queue) + 1 \in DOMAIN Append(queue, Over)
      BY <1>1, OverIs, AppendProperties, LenProperties
    <3>. QED
      BY <3>1 DEF Has
  <2>. QED
    BY <2>1, <2>2, <2>3 DEF Expecting
<1>4. CASE AlarmFires
  <2>1. PICK id \in AlarmId : queue' = Append(queue, <<"idled", id>>)
    BY <1>1, <1>4 DEF AlarmFires
  <2>2. <<"idled", id>> \in Event
    BY <2>1 DEF Event, OfAlarm
  <2>3. Has(queue, {Over}) => Has(queue', {Over})
    BY <1>1, <2>1, <2>2, OverIs, EventKept
  <2>4. object' = object
    BY <1>4 DEF AlarmFires, compositor
  <2>. QED
    BY <1>2, <2>3, <2>4, ExpectingStays
<1>5. CASE UserActs
  <2>1. PICK r \in Seq(OfAlarm(fired)) : queue' = queue \o r
    BY <1>5, ResumedEvents
  <2>2. r \in Seq(Event)
    <3>1. OfAlarm(fired) \subseteq Event
      BY <1>1, Events
    <3>. QED
      BY <2>1, <3>1
  <2>3. Has(queue, {Over}) => Has(queue', {Over})
    BY <1>1, <2>1, <2>2, OverIs, EventKept
  <2>4. object' = object
    BY <1>5 DEF UserActs, compositor
  <2>. QED
    BY <1>2, <2>3, <2>4, ExpectingStays
<1>. QED
  BY <1>3, <1>4, <1>5

\* The loops of show_windows and of recreate_windows go on or are over.
LEMMA LoopExpects ==
  ASSUME TypeOK, Alive, Expecting, LockReturns \/ ShowNext \/ Shown \/ RecreateNext
  PROVE  Expecting'
<1>1. /\ stack # <<>> /\ stack[1].in \notin Letting
  BY DEF LockReturns, ShowNext, Shown, RecreateNext, Resumes, Letting
<1>2. object' = object /\ wl_lock' = wl_lock
  BY DEF LockReturns, ShowNext, Shown, RecreateNext, compositor
<1>3. Has(queue, {Over}) => Has(queue', {Over})
  <2>1. CASE Shown
    BY <2>1, AlarmsOver DEF Shown
  <2>2. CASE LockReturns \/ ShowNext \/ RecreateNext
    BY <2>2 DEF LockReturns, ShowNext, RecreateNext
  <2>. QED
    BY <2>1, <2>2
<1>. QED
  BY <1>1, <1>2, <1>3, ExpectingStays

LEMMA ExpectingStep ==
  ASSUME TypeOK, LockInv, Expecting, [Next]_vars
  PROVE  Expecting'
<1>. SUFFICES ASSUME Alive' PROVE Expecting'
  BY DEF Expecting
<1>a. Alive
  BY DEF Next, vars, client, Alive, AtRest, Resumes, Dispatching,
     PrefsChanged, ActivateRequest, LockReturns, ShowNext, Shown, MonitorsChanged,
     RecreateNext, DeactivateUnlocked, DeactivateLocked, UnlockReturns, Dispatch,
     Grants, Denies, Revokes, AlarmFires, UserLeaves, UserActs, FullscreenChanges, InhibitionChanges
<1>1. CASE PrefsChanged
  <2>1. Has(queue, {Over}) => Has(queue', {Over})
    BY <1>1, AlarmsOver DEF PrefsChanged
  <2>. QED
    BY <1>a, <1>1, <2>1, ExpectingStays DEF PrefsChanged, compositor
<1>2. CASE ActivateRequest
  BY <1>a, <1>2, ActivateExpects DEF ActivateRequest
<1>3. CASE LockReturns \/ ShowNext \/ Shown \/ RecreateNext
  BY <1>a, <1>3, LoopExpects
<1>4. CASE MonitorsChanged
  <2>1. /\ stack # <<>> => stack[1].in \notin Letting
        /\ UNCHANGED <<wl_lock, object, queue>>
    BY <1>a, <1>4, RebuildStack DEF LockInv, Letting
  <2>. QED
    BY <1>a, <2>1, ExpectingStays
<1>5. CASE DeactivateUnlocked
  <2>1. wl_lock' = FALSE /\ object' = IF wl_lock THEN "none" ELSE object
    BY <1>5 DEF DeactivateUnlocked
  <2>2. object # "none" => wl_lock
    BY <1>a DEF LockInv, Keeping
  <2>. QED
    BY <2>1, <2>2 DEF Expecting
<1>6. CASE DeactivateLocked
  <2>1. object' = "none" /\ stack' = <<Suspended("deactivate", {})>>
    BY <1>6 DEF DeactivateLocked, UnlockRequest
  <2>2. stack' # <<>> /\ stack'[1].in = "deactivate"
    BY <2>1, Waiting
  <2>. QED
    BY <2>1, <2>2 DEF Expecting, Letting
<1>7. CASE UnlockReturns
  <2>1. wl_lock' = FALSE /\ object' = object /\ stack # <<>> /\ stack[1].in \in Letting
    BY <1>7 DEF UnlockReturns, Resumes, Letting, compositor
  <2>2. object = "none"
    BY <1>a, <2>1 DEF LockInv, Nested
  <2>. QED
    BY <2>1, <2>2 DEF Expecting
<1>8. CASE Dispatch
  BY <1>a, <1>8, DispatchExpects
<1>9. CASE Grants \/ Denies \/ Revokes \/ AlarmFires \/ UserActs
  BY <1>a, <1>9, CompositorExpects
<1>10. CASE UserLeaves \/ FullscreenChanges \/ InhibitionChanges \/ UNCHANGED vars
  <2>1. UNCHANGED <<wl_lock, stack, object, queue>>
    BY <1>10 DEF UserLeaves, FullscreenChanges, InhibitionChanges, vars, client, compositor
  <2>. QED
    BY <1>a, <2>1, ExpectingStays
<1>. QED
  BY <1>1, <1>2, <1>3, <1>4, <1>5, <1>6, <1>7, <1>8, <1>9, <1>10 DEF Next

\* The daemon does not imagine a lock: while the session is open and the session
\* lock manager has a lock, the compositor has yet to answer the request for it,
\* or the daemon has yet to read that the lock is over (lock_finished).
THEOREM NoImaginedLock ==
  Spec => [](AtRest /\ wl_lock /\ session = "open" =>
               object = "pending" \/ Has(queue, {<<"finished", "lock">>}))
<1>. DEFINE Real == AtRest /\ wl_lock /\ session = "open" =>
                      object = "pending" \/ Has(queue, {<<"finished", "lock">>})
<1>1. Init => Expecting
  BY DEF Init, Expecting
<1>2. TypeOK /\ LockInv /\ Expecting /\ [Next]_vars => Expecting'
  BY ExpectingStep
<1>3. TypeOK /\ LockInv /\ Expecting => Real
  BY DEF TypeOK, LockInv, Keeping, Expecting, AtRest, Over
<1>. QED
  BY <1>1, <1>2, <1>3, SessionTypes, LockHandled, PTL DEF Spec
=============================================================================
