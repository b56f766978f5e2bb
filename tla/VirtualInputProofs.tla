------------------------- MODULE VirtualInputProofs -------------------------
(***************************************************************************)
(* For any number of slots, any pipe and any sequence of commands:         *)
(* mEnabledSlots covers the contacts that are down, the reader's tracking  *)
(* ids are distinct, and when the pipe is empty the reader has the         *)
(* receiver's contacts and holds no key.                                   *)
(***************************************************************************)
EXTENDS VirtualInputReceiver, FiniteSetTheorems, Runs

CountInv ==
    /\ enabled \subseteq Slots
    /\ mEnabledSlots \in Nat
    /\ CountCovers

\* The contacts are finitely many.  (mContacts[kMaxSlot])
LEMMA ContactsFinite ==
    ASSUME NEW S, S \subseteq Slots
    PROVE  IsFiniteSet(S) /\ Cardinality(S) \in Nat
<1>1. IsFiniteSet(Slots)
  BY SlotAssumption, FS_Interval DEF Slots
<1> QED BY <1>1, FS_Subset, FS_CardinalityType

\* SendDown counts the contact it adds, also after a reset that forgot the
\* others.  (SendDown)
LEMMA DownCovers ==
    ASSUME CountInv, NEW slot \in Slots, SendDown(slot)
    PROVE  CountInv'
<1> DEFINE kept == IF slot \in enabled \/ mEnabledSlots >= kMaxSlot THEN {} ELSE enabled
<1>1. enabled' = kept \cup {slot} /\ mEnabledSlots' = mEnabledSlots + 1
  BY DEF SendDown
<1>2. kept \subseteq Slots /\ (kept = {} \/ kept = enabled)
  BY DEF CountInv
<1>3. Cardinality(kept) <= mEnabledSlots
  BY <1>2, FS_EmptySet DEF CountInv, CountCovers
<1> HIDE DEF kept
<1>4. /\ IsFiniteSet(kept) /\ Cardinality(kept) \in Nat
  BY <1>2, ContactsFinite
<1>5. Cardinality(kept \cup {slot}) <= Cardinality(kept) + 1
  BY <1>4, FS_AddElement
<1>6. Cardinality(kept \cup {slot}) \in Nat
  BY <1>2, ContactsFinite
<1>7. Cardinality(kept \cup {slot}) <= mEnabledSlots + 1
  BY <1>3, <1>4, <1>5, <1>6 DEF CountInv
<1> QED BY <1>1, <1>2, <1>7 DEF CountInv, CountCovers

\* SendUp counts the contact it takes away.  (SendUp)
LEMMA UpCovers ==
    ASSUME CountInv, NEW slot \in enabled, mEnabledSlots # 0, SendUp(slot)
    PROVE  CountInv'
<1>1. enabled' = enabled \ {slot} /\ mEnabledSlots' = mEnabledSlots - 1
  BY DEF SendUp
<1>2. IsFiniteSet(enabled) /\ Cardinality(enabled) \in Nat
  BY ContactsFinite DEF CountInv
<1>3. Cardinality(enabled \ {slot}) = Cardinality(enabled) - 1
  BY <1>2, FS_RemoveElement
<1> QED BY <1>1, <1>2, <1>3 DEF CountInv, CountCovers

\* Every step keeps the count.
LEMMA NextCovers ==
    ASSUME CountInv, [Next]_vars
    PROVE  CountInv'
<1>1. ASSUME UNCHANGED senderVars PROVE CountInv'
  BY <1>1 DEF CountInv, CountCovers, senderVars
<1>2. ASSUME NEW slot \in InputSlots, NEW inRange \in BOOLEAN, CmdDown(slot, inRange)
      PROVE  CountInv'
  <2>1. CASE Accepts(slot) /\ slot < kMaxSlot /\ SendDown(slot)
    <3>1. slot \in Slots
      BY <2>1, SlotAssumption DEF Accepts, Slots, InputSlots
    <3> QED BY <2>1, <3>1, DownCovers
  <2> QED BY <1>1, <1>2, <2>1 DEF CmdDown, Refused, Ignored
<1>3. ASSUME NEW slot \in InputSlots, CmdUp(slot)
      PROVE  CountInv'
  BY <1>1, <1>3, UpCovers DEF CmdUp, Refused, Ignored
<1>4. ASSUME CmdReset PROVE CountInv'
  <2>1. enabled' = {} /\ mEnabledSlots' = mEnabledSlots
    BY <1>4 DEF CmdReset
  <2> QED BY <2>1, FS_EmptySet DEF CountInv, CountCovers
<1>5. CASE TouchCommand
  BY <1>1, <1>2, <1>3, <1>4, <1>5
     DEF TouchCommand, CmdMove, Refused, Ignored, CmdCommit
<1>6. CASE KeyCommand
  BY <1>1, <1>6 DEF KeyCommand, JoyKey, JoyAxis, JoyPlug, onKeyCode
<1>7. CASE (\E m \in {"touch", "joystick"} : Begin(m)) \/ Return \/ SendEvent \/ ReadEvent
             \/ CmdSilent \/ UNCHANGED vars
  BY <1>1, <1>7 DEF Begin, Return, SendEvent, ReadEvent, CmdSilent, Ignored, vars
<1> QED BY <1>5, <1>6, <1>7 DEF Next

\* mEnabledSlots never falls below the number of contacts that are down: no
\* contact becomes impossible to lift and the counter never wraps below 0.
\* (SendDown, SendUp and SendReset)
THEOREM CountAlwaysCovers == Spec => []CountCovers
<1>1. Init => CountInv
  BY FS_EmptySet DEF Init, CountInv, CountCovers
<1>2. CountInv /\ [Next]_vars => CountInv'
  BY NextCovers
<1>3. CountInv => CountCovers
  BY DEF CountInv
<1> QED BY <1>1, <1>2, <1>3, PTL DEF Spec

(***************************************************************************)
(* The events, and the type invariant.                                     *)
(***************************************************************************)

\* an event that gives a contact its tracking id
Tracks(e) == e.type = "TRACK" /\ e.value # Lifted

Untracked == {e \in Events : ~Tracks(e)}

\* The events that carry no tracking id.  (SendEvent's callers)
LEMMA UntrackedEvents ==
    /\ Syn \in Untracked /\ Axes \in Untracked
    /\ Event("TRACK", Lifted) \in Untracked
    /\ \A b \in {0, 1} : Event("BTN", b) \in Untracked
    /\ \A slot \in Slots : Event("SLOT", slot) \in Untracked
    /\ \A t \in {"DOWN", "UP"}, k \in Keys : [type |-> t, value |-> k] \in Untracked
BY DEF Untracked, Tracks, Events, Syn, Axes, Event

\* What each type of event carries.
LEMMA EventValues ==
    ASSUME NEW e \in Events
    PROVE  /\ e.type = "SLOT" => e.value \in Slots
           /\ e.type = "TRACK" => e.value \in Nat \cup {Lifted}
           /\ e.type = "BTN" => e.value \in {0, 1}
           /\ e.type \in {"DOWN", "UP"} => e.value \in Keys
BY DEF Events, Syn, Axes, Event

\* A press or a release is two events.
LEMMA PressType ==
    ASSUME NEW k \in Keys
    PROVE  Press(k) \in Seq(Untracked) /\ Release(k) \in Seq(Untracked)
BY UntrackedEvents DEF Press, Release

\* Keys are no contacts.  (onKeyCode)
LEMMA KeyEventsType ==
    ASSUME NEW mask \in SUBSET Modifiers
    PROVE  KeyEvents(mask) \in Seq(Untracked)
<1>1. \A k \in Modifiers \cup {"key"} :
        /\ WithModifier(mask, k, Press(k)) \in Seq(Untracked)
        /\ WithModifier(mask, k, Release(k)) \in Seq(Untracked)
        /\ Press(k) \in Seq(Untracked) /\ Release(k) \in Seq(Untracked)
  <2>1. ASSUME NEW k \in Modifiers \cup {"key"}
        PROVE  Press(k) \in Seq(Untracked) /\ Release(k) \in Seq(Untracked)
    BY PressType DEF Keys
  <2> QED BY <2>1 DEF WithModifier
<1>2. \A p, q \in Seq(Untracked) : p \o q \in Seq(Untracked)
  BY ConcatProperties
<1> QED BY <1>1, <1>2, Zenon DEF KeyEvents, Modifiers

\* What a touch command sends: at most the two events of a contact that goes
\* down carry a tracking id.  (SendDown, SendUp, SendReset and the commit)
LEMMA DownEvents ==
    ASSUME TypeOK, NEW slot \in Slots, SendDown(slot)
    PROVE  \E p, q \in Seq(Untracked) :
             todo' = p \o <<Event("SLOT", slot), Event("TRACK", mTrackingId)>> \o q \o <<Axes>>
<1> DEFINE p == IF slot \in enabled \/ mEnabledSlots >= kMaxSlot THEN ResetEvents ELSE <<>>
           q == IF mEnabledSlots = 0 THEN <<Event("BTN", 1)>> ELSE <<>>
<1>1. p \in Seq(Untracked) /\ q \in Seq(Untracked)
  BY UntrackedEvents DEF ResetEvents
<1>2. todo' = p \o <<Event("SLOT", slot), Event("TRACK", mTrackingId)>> \o q \o <<Axes>>
  BY DEF SendDown, Sends
<1> HIDE DEF p, q
<1> QED BY <1>1, <1>2

\* a call that has returned has sent its events
IdleDone == msg = "idle" => todo = <<>>

\* the steps that give the call events to send, none of which has a tracking id
PlainStep ==
    /\ todo = <<>> /\ todo' \in Seq(Untracked)
    /\ UNCHANGED <<mTrackingId, pipe, readerVars>>

\* a contact goes down
DownStep ==
    /\ todo = <<>> /\ UNCHANGED <<pipe, readerVars>>
    /\ \E slot \in Slots : SendDown(slot)

\* Every step is one of these, or moves an event.
LEMMA StepKinds ==
    ASSUME TypeOK, IdleDone, [Next]_vars
    PROVE  \/ UNCHANGED <<senderVars, todo, pipe, past, readerVars>>
           \/ PlainStep \/ DownStep
           \/ SendEvent \/ ReadEvent
<1> USE DEF NextCommand, Ignored, Refused
<1>1. ASSUME NEW slot \in InputSlots, NEW inRange \in BOOLEAN, CmdDown(slot, inRange)
      PROVE  UNCHANGED <<senderVars, todo, pipe, past, readerVars>> \/ DownStep
  <2>1. Accepts(slot) /\ slot < kMaxSlot => slot \in Slots
    BY SlotAssumption DEF Accepts, Slots, InputSlots
  <2> QED BY <1>1, <2>1 DEF CmdDown, DownStep
<1>2. ASSUME NEW slot \in InputSlots, NEW inRange \in BOOLEAN, CmdMove(slot, inRange)
      PROVE  UNCHANGED <<senderVars, todo, pipe, past, readerVars>> \/ PlainStep
  <2>1. slot \in enabled => <<Event("SLOT", slot), Axes>> \in Seq(Untracked)
    BY UntrackedEvents DEF TypeOK
  <2> QED BY <1>2, <2>1 DEF CmdMove, Sends, PlainStep, senderVars
<1>3. ASSUME NEW slot \in InputSlots, CmdUp(slot)
      PROVE  UNCHANGED <<senderVars, todo, pipe, past, readerVars>> \/ PlainStep
  <2>1. ASSUME slot \in enabled, SendUp(slot) PROVE todo' \in Seq(Untracked)
    <3> DEFINE q == IF mEnabledSlots = 1 THEN <<Event("BTN", 0)>> ELSE <<>>
               p == <<Event("SLOT", slot), Event("TRACK", Lifted)>>
    <3>1. q \in Seq(Untracked) /\ p \in Seq(Untracked)
      BY <2>1, UntrackedEvents DEF TypeOK
    <3>2. todo' = p \o q
      BY <2>1 DEF SendUp, Sends
    <3> HIDE DEF p, q
    <3> QED BY <3>1, <3>2, ConcatProperties
  <2> QED BY <1>3, <2>1 DEF CmdUp, SendUp, PlainStep
<1>4. CmdReset \/ CmdCommit => PlainStep
  <2>1. ResetEvents \in Seq(Untracked) /\ <<Syn>> \in Seq(Untracked)
    BY UntrackedEvents DEF ResetEvents
  <2> QED BY <2>1 DEF CmdReset, CmdCommit, Sends, PlainStep, senderVars
<1>5. TouchCommand => \/ UNCHANGED <<senderVars, todo, pipe, past, readerVars>>
                      \/ PlainStep \/ DownStep
  BY <1>1, <1>2, <1>3, <1>4 DEF TouchCommand
<1>6. KeyCommand => PlainStep
  <2>1. \A t \in {"DOWN", "UP"} : JoyKey(t) => PlainStep
    <3>1. \A t \in {"DOWN", "UP"} : <<[type |-> t, value |-> "key"]>> \in Seq(Untracked)
      BY UntrackedEvents DEF Keys
    <3> QED BY <3>1 DEF JoyKey, Sends, PlainStep, senderVars
  <2>2. JoyAxis => PlainStep
    BY UntrackedEvents DEF JoyAxis, Sends, PlainStep, senderVars
  <2>3. \A code \in {"insert", "pullOut"} : JoyPlug(code) => PlainStep
    <3>1. \A code \in {"insert", "pullOut"} : Press(code) \o Release(code) \in Seq(Untracked)
      BY PressType, ConcatProperties DEF Keys
    <3> QED BY <3>1 DEF JoyPlug, Sends, PlainStep, senderVars
  <2>4. \A mask \in SUBSET Modifiers : onKeyCode(mask) => PlainStep
    BY KeyEventsType DEF IdleDone, onKeyCode, PlainStep, senderVars
  <2> QED BY <2>1, <2>2, <2>3, <2>4 DEF KeyCommand
<1>7. CmdSilent \/ Return \/ (\E m \in {"touch", "joystick"} : Begin(m)) \/ UNCHANGED vars
        => UNCHANGED <<senderVars, todo, pipe, past, readerVars>>
  BY DEF CmdSilent, Return, Begin, vars
<1> QED BY <1>5, <1>6, <1>7 DEF Next

InputType == TypeOK /\ IdleDone

\* The variables keep their types, and a call ends with its last event.
LEMMA NextInputType == InputType /\ [Next]_vars => InputType'
<1> SUFFICES ASSUME InputType, [Next]_vars PROVE InputType'
  OBVIOUS
<1> USE DEF InputType
<1>0. Untracked \subseteq Events
  BY DEF Untracked
<1>1. todo' \in Seq(Events)
  <2>1. CASE PlainStep
    BY <1>0, <2>1, SeqMonotonic DEF PlainStep
  <2>2. CASE DownStep
    <3>1. PICK slot \in Slots : SendDown(slot)
      BY <2>2 DEF DownStep
    <3>2. PICK p, q \in Seq(Untracked) :
            todo' = p \o <<Event("SLOT", slot), Event("TRACK", mTrackingId)>> \o q \o <<Axes>>
      BY <3>1, DownEvents
    <3>3. p \in Seq(Events) /\ q \in Seq(Events) /\ <<Axes>> \in Seq(Events)
      BY <1>0, SeqMonotonic, UntrackedEvents DEF Untracked
    <3>4. <<Event("SLOT", slot), Event("TRACK", mTrackingId)>> \in Seq(Events)
      BY DEF Event, Events, TypeOK
    <3> QED BY <3>2, <3>3, <3>4, ConcatProperties
  <2>3. CASE UNCHANGED todo
    BY <2>3 DEF TypeOK
  <2>4. CASE SendEvent
    BY <2>4, HeadTailProperties DEF SendEvent, TypeOK
  <2> QED BY <2>1, <2>2, <2>3, <2>4, StepKinds DEF ReadEvent
<1>2. /\ enabled' \subseteq Slots /\ mEnabledSlots' \in Nat /\ mTrackingId' \in Nat
      /\ past' \subseteq {"lost", "reset", "held"}
  <2>1. ASSUME NEW slot \in Slots, SendDown(slot)
        PROVE  /\ enabled' \subseteq Slots /\ mEnabledSlots' \in Nat /\ mTrackingId' \in Nat
               /\ past' \subseteq {"lost", "reset", "held"}
    BY <2>1 DEF SendDown, PastReset, TypeOK
  <2>2. CASE TouchCommand
    <3>1. \A slot \in InputSlots : Accepts(slot) /\ slot < kMaxSlot => slot \in Slots
      BY SlotAssumption DEF Accepts, Slots, InputSlots
    <3> DEFINE Typed == /\ enabled' \subseteq Slots /\ mEnabledSlots' \in Nat
                        /\ mTrackingId' \in Nat /\ past' \subseteq {"lost", "reset", "held"}
    <3>2. UNCHANGED <<senderVars, past>> => Typed
      BY DEF senderVars, TypeOK
    <3>3. \A slot \in InputSlots, inRange \in BOOLEAN : CmdDown(slot, inRange) => Typed
      BY <2>1, <3>1, <3>2 DEF CmdDown, Refused, Ignored
    <3>4. \A slot \in InputSlots, inRange \in BOOLEAN : CmdMove(slot, inRange) => Typed
      BY <3>2 DEF CmdMove, Refused, Ignored
    <3>5. \A slot \in InputSlots : CmdUp(slot) => Typed
      <4>1. \A slot : SendUp(slot) /\ mEnabledSlots # 0 => Typed
        BY DEF SendUp, TypeOK
      <4> QED BY <3>2, <4>1 DEF CmdUp, Refused, Ignored
    <3>6. CmdReset => Typed
      BY DEF CmdReset, PastReset, TypeOK
    <3>7. CmdCommit => Typed
      BY <3>2 DEF CmdCommit
    <3> QED BY <2>2, <3>3, <3>4, <3>5, <3>6, <3>7 DEF TouchCommand
  <2>3. CASE KeyCommand
    BY <2>3 DEF KeyCommand, JoyKey, JoyAxis, JoyPlug, onKeyCode, senderVars, TypeOK
  <2>4. CASE SendEvent
    BY <2>4 DEF SendEvent, senderVars, TypeOK
  <2>5. CASE UNCHANGED <<senderVars, past>>
    BY <2>5 DEF senderVars, TypeOK
  <2>6. CASE CmdSilent \/ Return \/ (\E m \in {"touch", "joystick"} : Begin(m)) \/ ReadEvent
               \/ UNCHANGED vars
    BY <2>5, <2>6 DEF CmdSilent, Ignored, Return, Begin, ReadEvent, vars
  <2> QED BY <2>2, <2>3, <2>4, <2>6 DEF Next
<1>3. pipe' \in Seq(Events) /\ Len(pipe') <= PipeCap
  <2>1. CASE SendEvent
    <3>1. todo # <<>> /\ Head(todo) \in Events
      BY <2>1, HeadTailProperties DEF SendEvent, TypeOK
    <3>2. CASE Len(pipe) < PipeCap
      <4>1. pipe' = Append(pipe, Head(todo)) /\ pipe \in Seq(Events) /\ Len(pipe) \in Nat
        BY <2>1, <3>2, LenProperties DEF SendEvent, TypeOK
      <4> QED BY <3>1, <3>2, <4>1, AppendProperties, PipeAssumption
    <3>3. CASE ~(Len(pipe) < PipeCap)
      BY <2>1, <3>3 DEF SendEvent, TypeOK
    <3> QED BY <3>2, <3>3
  <2>2. CASE ReadEvent
    <3>1. pipe # <<>> /\ pipe' = Tail(pipe) /\ pipe \in Seq(Events) /\ Len(pipe) <= PipeCap
      BY <2>2 DEF ReadEvent, TypeOK
    <3>2. Tail(pipe) \in Seq(Events) /\ Len(Tail(pipe)) = Len(pipe) - 1 /\ Len(pipe) \in Nat
      BY <3>1, HeadTailProperties, LenProperties
    <3> QED BY <3>1, <3>2, PipeAssumption
  <2>3. CASE UNCHANGED pipe
    BY <2>3 DEF TypeOK
  <2> QED BY <2>1, <2>2, <2>3, StepKinds DEF PlainStep, DownStep
<1>4. /\ rslot' \in Slots /\ rid' \in [Slots -> Nat \cup {Lifted}]
      /\ rbtn' \in {0, 1} /\ rkeys' \subseteq Keys
  <2>1. CASE ReadEvent
    <3>1. Head(pipe) \in Events
      BY <2>1, HeadTailProperties DEF ReadEvent, TypeOK
    <3> QED BY <2>1, <3>1, EventValues DEF ReadEvent, TypeOK
  <2>2. CASE UNCHANGED readerVars
    BY <2>2 DEF readerVars, TypeOK
  <2> QED BY <2>1, <2>2, StepKinds DEF PlainStep, DownStep, SendEvent
<1>5. msg' \in {"idle", "touch", "joystick", "key"} /\ ncmds' \in 0..MaxCmds
  <2>1. CASE ncmds < MaxCmds /\ ncmds' = ncmds + 1 /\ msg' \in {msg, "key"}
    BY <2>1, PipeAssumption DEF TypeOK
  <2>2. CASE ncmds' = ncmds /\ msg' \in {msg, "idle", "touch", "joystick"}
    BY <2>2 DEF TypeOK
  <2>3. TouchCommand \/ CmdSilent => ncmds < MaxCmds /\ ncmds' = ncmds + 1 /\ msg' \in {msg, "key"}
    BY DEF TouchCommand, CmdDown, CmdMove, CmdUp, CmdReset, CmdCommit, CmdSilent, NextCommand
  <2>4. KeyCommand => ncmds < MaxCmds /\ ncmds' = ncmds + 1 /\ msg' \in {msg, "key"}
    BY DEF KeyCommand, NextCommand, JoyKey, JoyAxis, JoyPlug, onKeyCode
  <2> QED BY <2>1, <2>2, <2>3, <2>4 DEF Next, Begin, Return, SendEvent, ReadEvent, vars
<1>6. IdleDone'
  <2>1. CASE SendEvent
    BY <2>1 DEF SendEvent, IdleDone
  <2> QED
  BY <2>1 DEF Next, TouchCommand, KeyCommand, CmdDown, CmdMove, CmdUp, CmdReset, CmdCommit,
     CmdSilent, NextCommand, JoyKey, JoyAxis, JoyPlug, onKeyCode, Begin, Return,
     ReadEvent, vars, IdleDone
<1> QED BY <1>1, <1>2, <1>3, <1>4, <1>5, <1>6 DEF TypeOK

\* Types of the receiver, of the pipe and of its reader, for any pipe and any
\* number of slots.  (fields of VirtualInputReceiver)
THEOREM InputTypeInvariance == Spec => []InputType
<1>1. Init => InputType
  BY SlotAssumption, PipeAssumption DEF Init, InputType, TypeOK, IdleDone, Slots
<1>2. InputType /\ [Next]_vars => InputType'
  BY NextInputType
<1> QED BY <1>1, <1>2, PTL DEF Spec

(***************************************************************************)
(* Tracking ids.  Along the pipe and the events still to be sent they      *)
(* grow, whatever was refused in between, and the reader's are older.      *)
(***************************************************************************)

\* n is above the ids so far
IdStep == {t \in Nat \X Events \X Nat :
             t[1] <= t[3] /\ (Tracks(t[2]) => t[1] <= t[2].value /\ t[2].value < t[3])}

IdsGrow ==
    \E a, b, c, d \in Nat :
      /\ \A s \in Slots : rid[s] < a
      /\ Leads(IdStep, a, pipe, b) /\ b <= c
      /\ Leads(IdStep, c, todo, d) /\ d <= mTrackingId

IdInv == InputType /\ DistinctIds /\ IdsGrow

\* Events without a tracking id change nothing here.
LEMMA PlainIds ==
    ASSUME NEW n \in Nat, NEW q \in Seq(Untracked)
    PROVE  Leads(IdStep, n, q, n)
<1> DEFINE h == [i \in 1..(Len(q) + 1) |-> n]
<1>1. Len(q) \in Nat /\ \A i \in 1..Len(q) : q[i] \in Untracked
  BY LenProperties, ElementOfSeq
<1>2. \A i \in 1..Len(q) : <<n, q[i], n>> \in IdStep
  BY <1>1 DEF IdStep, Untracked
<1>3. \A i \in 1..(Len(q) + 1) : h[i] = n
  OBVIOUS
<1> HIDE DEF h
<1>4. IsRun(IdStep, h, q)
  BY <1>1, <1>2, <1>3 DEF IsRun
<1>5. h[1] = n /\ h[Len(q) + 1] = n
  BY <1>1, <1>3
<1> QED BY <1>4, <1>5 DEF Leads

\* A contact that goes down takes the id of mTrackingId and advances it.
\* (mTrackingId++ in SendDown)
LEMMA DownIds ==
    ASSUME TypeOK, NEW slot \in Slots, SendDown(slot)
    PROVE  Leads(IdStep, mTrackingId, todo', mTrackingId + 1)
<1> DEFINE n == mTrackingId
<1>0. n \in Nat /\ n + 1 \in Nat
  BY DEF TypeOK
<1>1. PICK p, q \in Seq(Untracked) :
        todo' = p \o <<Event("SLOT", slot), Event("TRACK", n)>> \o q \o <<Axes>>
  BY DownEvents
<1>2. /\ Event("SLOT", slot) \in Events /\ Event("TRACK", n) \in Events
      /\ ~Tracks(Event("SLOT", slot)) /\ Event("TRACK", n).value = n
  BY <1>0 DEF Events, Event, Tracks
<1> DEFINE e1 == Event("SLOT", slot)
           e2 == Event("TRACK", n)
<1>3. <<n, e1, n>> \in IdStep /\ <<n, e2, n + 1>> \in IdStep
  BY <1>0, <1>2 DEF IdStep
<1>4. Leads(IdStep, n, <<e1, e2>>, n + 1)
  <2>1. <<e1>> \in Seq(Events) /\ <<e2>> \in Seq(Events) /\ <<e1, e2>> = <<e1>> \o <<e2>>
    BY <1>2
  <2>2. Leads(IdStep, n, <<e1>>, n) /\ Leads(IdStep, n, <<e2>>, n + 1)
    BY <1>3, LeadsByOne
  <2> HIDE DEF e1, e2, n
  <2> QED BY <2>1, <2>2, LeadsOn
<1>5. /\ p \in Seq(Events) /\ q \in Seq(Events) /\ <<Axes>> \in Seq(Untracked)
      /\ <<Axes>> \in Seq(Events) /\ <<e1, e2>> \in Seq(Events)
  BY <1>2, UntrackedEvents, SeqMonotonic DEF Untracked
<1> HIDE DEF n, e1, e2
<1>6. /\ Leads(IdStep, n, p, n) /\ Leads(IdStep, n + 1, q, n + 1)
      /\ Leads(IdStep, n + 1, <<Axes>>, n + 1)
  BY <1>0, <1>5, PlainIds
<1>7. p \o <<e1, e2>> \in Seq(Events) /\ Leads(IdStep, n, p \o <<e1, e2>>, n + 1)
  BY <1>4, <1>5, <1>6, LeadsOn, ConcatProperties
<1>8. /\ p \o <<e1, e2>> \o q \in Seq(Events)
      /\ Leads(IdStep, n, p \o <<e1, e2>> \o q, n + 1)
  BY <1>5, <1>6, <1>7, LeadsOn, ConcatProperties
<1>9. Leads(IdStep, n, p \o <<e1, e2>> \o q \o <<Axes>>, n + 1)
  BY <1>5, <1>6, <1>8, LeadsOn
<1> QED BY <1>1, <1>9 DEF n, e1, e2

\* Every step keeps the ids apart.
LEMMA NextIds == IdInv /\ [Next]_vars => IdInv'
<1> SUFFICES ASSUME IdInv, [Next]_vars PROVE IdInv'
  OBVIOUS
<1>1. InputType' /\ TypeOK /\ TypeOK' /\ IdleDone
  BY NextInputType DEF IdInv, InputType
<1>2. PICK a, b, c, d \in Nat :
        /\ \A s \in Slots : rid[s] < a
        /\ Leads(IdStep, a, pipe, b) /\ b <= c
        /\ Leads(IdStep, c, todo, d) /\ d <= mTrackingId
  BY DEF IdInv, IdsGrow
<1>3. mTrackingId \in Nat /\ pipe \in Seq(Events) /\ todo \in Seq(Events)
  BY <1>1 DEF TypeOK
<1>4. ASSUME UNCHANGED <<rid, pipe>>, NEW m \in Nat, NEW n \in Nat, d <= m,
             Leads(IdStep, m, todo', n), n <= mTrackingId', todo = <<>>
      PROVE  IdInv'
  <2>1. c = d
    BY <1>2, <1>4, LeadsNowhere
  <2>2. b <= m
    BY <1>2, <1>4, <2>1
  <2>3. IdsGrow'
    BY <1>2, <1>4, <2>2 DEF IdsGrow
  <2> QED BY <1>1, <1>4, <2>3 DEF IdInv, DistinctIds
<1>5. CASE PlainStep
  <2>1. Leads(IdStep, mTrackingId, todo', mTrackingId)
    BY <1>3, <1>5, PlainIds DEF PlainStep
  <2> QED BY <1>2, <1>3, <1>4, <1>5, <2>1 DEF PlainStep, readerVars
<1>6. CASE DownStep
  <2>1. PICK slot \in Slots : SendDown(slot)
    BY <1>6 DEF DownStep
  <2>2. Leads(IdStep, mTrackingId, todo', mTrackingId + 1) /\ mTrackingId' = mTrackingId + 1
    BY <1>1, <2>1, DownIds DEF SendDown
  <2>3. mTrackingId + 1 \in Nat /\ mTrackingId + 1 <= mTrackingId'
    BY <1>3, <2>2
  <2> QED BY <1>2, <1>3, <1>4, <1>6, <2>2, <2>3 DEF DownStep, readerVars
<1>7. CASE SendEvent
  <2>1. /\ todo # <<>> /\ todo' = Tail(todo) /\ UNCHANGED <<rid, mTrackingId>>
        /\ pipe' \in {pipe, Append(pipe, Head(todo))}
    BY <1>7 DEF SendEvent, readerVars, senderVars
  <2>2. PICK e : <<c, Head(todo), e>> \in IdStep /\ Leads(IdStep, e, Tail(todo), d)
    BY <1>2, <1>3, <2>1, LeadsFirst
  <2>a. /\ e \in Nat /\ c <= e /\ Head(todo) \in Events
        /\ Tracks(Head(todo)) => c <= Head(todo).value /\ Head(todo).value < e
    BY <2>2 DEF IdStep
  <2>b. Tracks(Head(todo)) => Head(todo).value \in Nat
    BY <2>a, EventValues DEF Tracks
  <2>3. e \in Nat /\ c <= e /\ <<b, Head(todo), e>> \in IdStep /\ Head(todo) \in Events
    BY <1>2, <2>a, <2>b DEF IdStep
  <2>4. Leads(IdStep, a, Append(pipe, Head(todo)), e)
    BY <1>2, <1>3, <2>3, LeadsByAppend
  <2>5. b <= e /\ e <= e
    BY <1>2, <2>3
  <2>6. IdsGrow'
    BY <1>2, <2>1, <2>2, <2>3, <2>4, <2>5 DEF IdsGrow
  <2> QED BY <1>1, <2>1, <2>6 DEF IdInv, DistinctIds
<1>8. CASE ReadEvent
  <2>1. /\ pipe # <<>> /\ pipe' = Tail(pipe) /\ UNCHANGED <<todo, mTrackingId>>
        /\ rid' = IF Head(pipe).type = "TRACK" THEN [rid EXCEPT ![rslot] = Head(pipe).value]
                                               ELSE rid
    BY <1>8 DEF ReadEvent, senderVars
  <2>2. PICK e : <<a, Head(pipe), e>> \in IdStep /\ Leads(IdStep, e, Tail(pipe), b)
    BY <1>2, <1>3, <2>1, LeadsFirst
  <2>3. /\ e \in Nat /\ a <= e
        /\ Tracks(Head(pipe)) => a <= Head(pipe).value /\ Head(pipe).value < e
        /\ Head(pipe) \in Events
    BY <2>2 DEF IdStep
  <2>4. Head(pipe).type = "TRACK" => Head(pipe).value \in Nat \cup {Lifted}
    BY <2>3, EventValues
  <2>5. rid \in [Slots -> Nat \cup {Lifted}] /\ rslot \in Slots
    BY <1>1 DEF TypeOK
  <2>6. \A s \in Slots : rid'[s] < e
    BY <1>2, <2>1, <2>3, <2>4, <2>5 DEF Tracks, Lifted
  <2>7. DistinctIds'
    BY <1>2, <2>1, <2>3, <2>4, <2>5 DEF IdInv, DistinctIds, Tracks, Lifted
  <2>8. IdsGrow'
    BY <1>2, <2>1, <2>2, <2>3, <2>6 DEF IdsGrow
  <2> QED BY <1>1, <2>7, <2>8 DEF IdInv
<1>9. CASE UNCHANGED <<senderVars, todo, pipe, past, readerVars>>
  <2>1. UNCHANGED <<rid, pipe, todo, mTrackingId>>
    BY <1>9 DEF senderVars, readerVars
  <2> QED BY <1>1, <2>1 DEF IdInv, DistinctIds, IdsGrow
<1> QED BY <1>1, <1>5, <1>6, <1>7, <1>8, <1>9, StepKinds

\* No two contacts of the reader have one tracking id, for any number of slots
\* and any pipe, whichever events it refuses.  (mTrackingId++ in SendDown)
THEOREM IdsAlwaysDistinct == Spec => []DistinctIds
<1>1. Init => DistinctIds /\ IdsGrow
  <2> SUFFICES ASSUME Init PROVE DistinctIds /\ IdsGrow
    OBVIOUS
  <2>1. DistinctIds
    BY DEF Init, DistinctIds
  <2>2. Leads(IdStep, 0, pipe, 0) /\ Leads(IdStep, 0, todo, 0)
    BY LeadsNowhere DEF Init
  <2>3. \A s \in Slots : rid[s] < 0
    BY DEF Init, Lifted
  <2>4. 0 \in Nat /\ 0 <= 0 /\ 0 <= mTrackingId
    BY DEF Init
  <2> QED BY <2>1, <2>2, <2>3, <2>4 DEF IdsGrow
<1>2. IdInv /\ [Next]_vars => IdInv'
  BY NextIds
<1>3. IdInv <=> InputType /\ DistinctIds /\ IdsGrow
  BY DEF IdInv
<1> QED BY <1>1, <1>2, <1>3, InputTypeInvariance, PTL DEF Spec

(***************************************************************************)
(* The reader's view.  As long as no event is refused, what is on its way  *)
(* leads the reader to the contacts the receiver has, and to no key.       *)
(***************************************************************************)

Readers == [slot : Slots, rid : [Slots -> Nat \cup {Lifted}], btn : {0, 1}, keys : SUBSET Keys]

\* the input device's step on an event, as in ReadEvent
Reads(r, e) ==
    [slot |-> IF e.type = "SLOT" THEN e.value ELSE r.slot,
     rid  |-> IF e.type = "TRACK" THEN [r.rid EXCEPT ![r.slot] = e.value] ELSE r.rid,
     btn  |-> IF e.type = "BTN" THEN e.value ELSE r.btn,
     keys |-> CASE e.type = "DOWN" -> r.keys \cup {e.value}
                [] e.type = "UP"   -> r.keys \ {e.value}
                [] OTHER -> r.keys]

ReadStep == {t \in Readers \X Events \X Readers : t[3] = Reads(t[1], t[2])}

Reader == [slot |-> rslot, rid |-> rid, btn |-> rbtn, keys |-> rkeys]

\* what the reader must have come to in the end
Matches(r) ==
    /\ "reset" \notin past => /\ {s \in Slots : r.rid[s] # Lifted} = enabled
                              /\ r.btn = 1 <=> enabled # {}
    /\ "held" \notin past => r.keys = {}

WillMatch ==
    "lost" \notin past => \E r \in Readers : Leads(ReadStep, Reader, pipe \o todo, r) /\ Matches(r)

\* and the count is exact until a contact is forgotten
CountExact == "reset" \notin past => mEnabledSlots = Cardinality(enabled)

ViewInv == InputType /\ CountExact /\ WillMatch

\* The reader stays within its states.
LEMMA ReadsType ==
    ASSUME NEW r \in Readers, NEW e \in Events
    PROVE  Reads(r, e) \in Readers /\ <<r, e, Reads(r, e)>> \in ReadStep
<1>1. Reads(r, e) \in Readers
  BY EventValues DEF Readers, Reads
<1> QED BY <1>1 DEF ReadStep

\* Two events in a row.
LEMMA ReadsTwo ==
    ASSUME NEW r \in Readers, NEW e \in Events, NEW f \in Events
    PROVE  /\ Reads(Reads(r, e), f) \in Readers
           /\ Leads(ReadStep, r, <<e, f>>, Reads(Reads(r, e), f))
           /\ <<e, f>> \in Seq(Events)
<1> DEFINE a == Reads(r, e)
           b == Reads(a, f)
<1>1. a \in Readers /\ <<r, e, a>> \in ReadStep
  BY ReadsType
<1>2. b \in Readers /\ <<a, f, b>> \in ReadStep
  BY <1>1, ReadsType
<1> HIDE DEF a, b
<1>3. Leads(ReadStep, r, <<e>>, a) /\ Leads(ReadStep, a, <<f>>, b)
  BY <1>1, <1>2, LeadsByOne
<1>4. /\ <<e>> \in Seq(Events) /\ <<f>> \in Seq(Events) /\ <<e, f>> \in Seq(Events)
      /\ <<e, f>> = <<e>> \o <<f>>
  BY PairIsConcat
<1>5. Leads(ReadStep, r, <<e, f>>, b)
  BY <1>3, <1>4, LeadsOn
<1> QED BY <1>2, <1>4, <1>5 DEF a, b

Holding(r, K) == [r EXCEPT !.keys = K]

\* A press or a release, and the same when the mask asks for it.
LEMMA KeyLeads ==
    ASSUME NEW r \in Readers, NEW k \in Keys, NEW mask, NEW K \in SUBSET Keys
    PROVE  /\ Holding(r, K \cup {k}) \in Readers /\ Holding(r, K \ {k}) \in Readers
           /\ Leads(ReadStep, Holding(r, K), Press(k), Holding(r, K \cup {k}))
           /\ Leads(ReadStep, Holding(r, K), Release(k), Holding(r, K \ {k}))
           /\ Leads(ReadStep, Holding(r, K), WithModifier(mask, k, Press(k)),
                    Holding(r, K \cup ({k} \cap mask)))
           /\ Leads(ReadStep, Holding(r, K), WithModifier(mask, k, Release(k)),
                    Holding(r, K \ ({k} \cap mask)))
<1> DEFINE d == [type |-> "DOWN", value |-> k]
           u == [type |-> "UP", value |-> k]
<1>1. d \in Events /\ u \in Events /\ Syn \in Events
  BY UntrackedEvents DEF Untracked
<1>2. /\ Holding(r, K) \in Readers /\ Holding(r, K \cup {k}) \in Readers
      /\ Holding(r, K \ {k}) \in Readers
  BY DEF Holding, Readers
<1>3. Reads(Reads(Holding(r, K), d), Syn) = Holding(r, K \cup {k})
  BY DEF Reads, Holding, Readers, Syn, Event
<1>4. Reads(Reads(Holding(r, K), u), Syn) = Holding(r, K \ {k})
  BY DEF Reads, Holding, Readers, Syn, Event
<1>5. /\ Leads(ReadStep, Holding(r, K), Press(k), Holding(r, K \cup {k}))
      /\ Leads(ReadStep, Holding(r, K), Release(k), Holding(r, K \ {k}))
  <2>1. Leads(ReadStep, Holding(r, K), <<d, Syn>>, Holding(r, K \cup {k}))
    BY <1>1, <1>2, <1>3, ReadsTwo
  <2>2. Leads(ReadStep, Holding(r, K), <<u, Syn>>, Holding(r, K \ {k}))
    BY <1>1, <1>2, <1>4, ReadsTwo
  <2> QED BY <2>1, <2>2 DEF Press, Release
<1>6. CASE k \in mask
  <2>1. {k} \cap mask = {k}
    BY <1>6
  <2> QED BY <1>2, <1>5, <1>6, <2>1 DEF WithModifier
<1>7. CASE k \notin mask
  <2>1. K \cup ({k} \cap mask) = K /\ K \ ({k} \cap mask) = K
    BY <1>7
  <2>2. Leads(ReadStep, Holding(r, K), <<>>, Holding(r, K))
    BY LeadsNowhere
  <2> QED BY <1>2, <1>5, <1>7, <2>1, <2>2 DEF WithModifier
<1> QED BY <1>6, <1>7

\* One more piece of what is sent.
LEMMA ReadsOn ==
    ASSUME NEW p \in Seq(Events), NEW q \in Seq(Events), NEW a, NEW b, NEW c,
           Leads(ReadStep, a, p, b), Leads(ReadStep, b, q, c)
    PROVE  p \o q \in Seq(Events) /\ Leads(ReadStep, a, p \o q, c)
BY LeadsOn, ConcatProperties

\* Every key that onKeyCode presses it releases.  (onKeyCode)
LEMMA KeyEventsLead ==
    ASSUME NEW r \in Readers, NEW mask \in SUBSET Modifiers, NEW K \in SUBSET Keys
    PROVE  \E M \in SUBSET Keys : /\ K = {} => M = {}
                                  /\ Leads(ReadStep, Holding(r, K), KeyEvents(mask), Holding(r, M))
<1> DEFINE S == {"LEFTSHIFT"} \cap mask
           C == {"LEFTCTRL"} \cap mask
           A == {"LEFTALT"} \cap mask
           K1 == K \cup S
           K2 == K1 \cup C
           K3 == K2 \cup A
           K4 == K3 \cup {"key"}
           K5 == K4 \ {"key"}
           K6 == K5 \ S
           K7 == K6 \ C
           M == K7 \ A
           W(k, events) == WithModifier(mask, k, events)
<1>1. /\ K1 \in SUBSET Keys /\ K2 \in SUBSET Keys /\ K3 \in SUBSET Keys /\ K4 \in SUBSET Keys
      /\ K5 \in SUBSET Keys /\ K6 \in SUBSET Keys /\ K7 \in SUBSET Keys /\ M \in SUBSET Keys
  BY DEF Keys, Modifiers
<1>2. K = {} => M = {}
  OBVIOUS
<1>3. \A k \in Modifiers : W(k, Press(k)) \in Seq(Events) /\ W(k, Release(k)) \in Seq(Events)
  <2>1. \A k \in Modifiers : k \in Keys
    BY DEF Keys
  <2>2. \A k \in Keys : Press(k) \in Seq(Events) /\ Release(k) \in Seq(Events)
    BY PressType, SeqMonotonic DEF Untracked
  <2> QED BY <2>1, <2>2 DEF WithModifier
<1>4. Press("key") \in Seq(Events) /\ Release("key") \in Seq(Events)
  BY PressType, SeqMonotonic DEF Untracked, Keys
<1>5. \A k \in {"LEFTSHIFT", "LEFTCTRL", "LEFTALT", "key"} : k \in Keys
  BY DEF Keys, Modifiers
<1>6. /\ Leads(ReadStep, Holding(r, K), W("LEFTSHIFT", Press("LEFTSHIFT")), Holding(r, K1))
      /\ Leads(ReadStep, Holding(r, K1), W("LEFTCTRL", Press("LEFTCTRL")), Holding(r, K2))
      /\ Leads(ReadStep, Holding(r, K2), W("LEFTALT", Press("LEFTALT")), Holding(r, K3))
  BY <1>1, <1>5, KeyLeads
<1>7. /\ Leads(ReadStep, Holding(r, K3), Press("key"), Holding(r, K4))
      /\ Leads(ReadStep, Holding(r, K4), Release("key"), Holding(r, K5))
  BY <1>1, <1>5, KeyLeads
<1>8. /\ Leads(ReadStep, Holding(r, K5), W("LEFTSHIFT", Release("LEFTSHIFT")), Holding(r, K6))
      /\ Leads(ReadStep, Holding(r, K6), W("LEFTCTRL", Release("LEFTCTRL")), Holding(r, K7))
      /\ Leads(ReadStep, Holding(r, K7), W("LEFTALT", Release("LEFTALT")), Holding(r, M))
  BY <1>1, <1>5, KeyLeads
<1> DEFINE p1 == W("LEFTSHIFT", Press("LEFTSHIFT"))
           p2 == p1 \o W("LEFTCTRL", Press("LEFTCTRL"))
           p3 == p2 \o W("LEFTALT", Press("LEFTALT"))
           p4 == p3 \o Press("key")
           p5 == p4 \o Release("key")
           p6 == p5 \o W("LEFTSHIFT", Release("LEFTSHIFT"))
           p7 == p6 \o W("LEFTCTRL", Release("LEFTCTRL"))
           p8 == p7 \o W("LEFTALT", Release("LEFTALT"))
<1>9. KeyEvents(mask) = p8
  BY DEF KeyEvents
<1>a. p1 \in Seq(Events) /\ "LEFTSHIFT" \in Modifiers /\ "LEFTCTRL" \in Modifiers /\ "LEFTALT" \in Modifiers
  BY <1>3 DEF Modifiers
<1> HIDE DEF K1, K2, K3, K4, K5, K6, K7, M, W
<1>b. p2 \in Seq(Events) /\ Leads(ReadStep, Holding(r, K), p2, Holding(r, K2))
  BY <1>3, <1>6, <1>a, ReadsOn
<1> HIDE DEF p1, p2
<1>c. p3 \in Seq(Events) /\ Leads(ReadStep, Holding(r, K), p3, Holding(r, K3))
  BY <1>3, <1>6, <1>a, <1>b, ReadsOn
<1> HIDE DEF p3
<1>d. p4 \in Seq(Events) /\ Leads(ReadStep, Holding(r, K), p4, Holding(r, K4))
  BY <1>4, <1>7, <1>c, ReadsOn
<1> HIDE DEF p4
<1>e. p5 \in Seq(Events) /\ Leads(ReadStep, Holding(r, K), p5, Holding(r, K5))
  BY <1>4, <1>7, <1>d, ReadsOn
<1> HIDE DEF p5
<1>f. p6 \in Seq(Events) /\ Leads(ReadStep, Holding(r, K), p6, Holding(r, K6))
  BY <1>3, <1>8, <1>a, <1>e, ReadsOn
<1> HIDE DEF p6
<1>g. p7 \in Seq(Events) /\ Leads(ReadStep, Holding(r, K), p7, Holding(r, K7))
  BY <1>3, <1>8, <1>a, <1>f, ReadsOn
<1> HIDE DEF p7
<1>h. p8 \in Seq(Events) /\ Leads(ReadStep, Holding(r, K), p8, Holding(r, M))
  BY <1>3, <1>8, <1>a, <1>g, ReadsOn
<1> HIDE DEF p8
<1> QED BY <1>1, <1>2, <1>9, <1>h

\* Events that leave the reader's view alone.
LEMMA PlainReads ==
    ASSUME NEW c \in Readers
    PROVE  /\ Leads(ReadStep, c, <<>>, c)
           /\ Leads(ReadStep, c, <<Syn>>, c) /\ <<Syn>> \in Seq(Events)
           /\ Leads(ReadStep, c, <<Axes>>, c) /\ <<Axes>> \in Seq(Events)
<1>1. Syn \in Events /\ Axes \in Events
  BY UntrackedEvents DEF Untracked
<1>2. Reads(c, Syn) = c /\ Reads(c, Axes) = c
  BY DEF Reads, Readers, Syn, Axes, Event
<1>3. <<c, Syn, c>> \in ReadStep /\ <<c, Axes, c>> \in ReadStep
  BY <1>1, <1>2, ReadsType
<1> QED BY <1>1, <1>3, LeadsByOne, LeadsNowhere

Button(r, b) == [slot |-> r.slot, rid |-> r.rid, btn |-> b, keys |-> r.keys]

Contact(r, s, n) == [slot |-> s, rid |-> [r.rid EXCEPT ![s] = n], btn |-> r.btn, keys |-> r.keys]

\* The touch button.
LEMMA ButtonReads ==
    ASSUME NEW c \in Readers, NEW b \in {0, 1}
    PROVE  /\ Button(c, b) \in Readers
           /\ Leads(ReadStep, c, <<Event("BTN", b)>>, Button(c, b))
           /\ <<Event("BTN", b)>> \in Seq(Events)
<1>1. Event("BTN", b) \in Events
  BY UntrackedEvents DEF Untracked
<1>2. Reads(c, Event("BTN", b)) = Button(c, b)
  BY DEF Reads, Readers, Event, Contact, Button
<1>3. <<c, Event("BTN", b), Button(c, b)>> \in ReadStep /\ Button(c, b) \in Readers
  BY <1>1, <1>2, ReadsType
<1> QED BY <1>1, <1>3, LeadsByOne

\* The slot and the tracking id of a contact.
LEMMA ContactReads ==
    ASSUME NEW c \in Readers, NEW s \in Slots, NEW n \in Nat \cup {Lifted}
    PROVE  /\ Contact(c, s, n) \in Readers
           /\ Leads(ReadStep, c, <<Event("SLOT", s), Event("TRACK", n)>>,
                    Contact(c, s, n))
           /\ <<Event("SLOT", s), Event("TRACK", n)>> \in Seq(Events)
<1>1. Event("SLOT", s) \in Events /\ Event("TRACK", n) \in Events
  BY DEF Events, Event
<1>2. Reads(Reads(c, Event("SLOT", s)), Event("TRACK", n))
        = Contact(c, s, n)
  BY DEF Reads, Readers, Event, Contact, Button
<1> QED BY <1>1, <1>2, ReadsTwo

\* What the reader makes of a contact that goes down.  (SendDown)
LEMMA DownReads ==
    ASSUME TypeOK, NEW slot \in Slots, SendDown(slot), NEW c \in Readers
    PROVE  \E d \in Readers :
             /\ Leads(ReadStep, c, todo', d)
             /\ d.keys = c.keys /\ d.rid = [c.rid EXCEPT ![slot] = mTrackingId]
             /\ d.btn = IF mEnabledSlots = 0 THEN 1 ELSE c.btn
<1> DEFINE p == IF slot \in enabled \/ mEnabledSlots >= kMaxSlot THEN ResetEvents ELSE <<>>
           t == <<Event("SLOT", slot), Event("TRACK", mTrackingId)>>
           q == IF mEnabledSlots = 0 THEN <<Event("BTN", 1)>> ELSE <<>>
           c1 == Contact(c, slot, mTrackingId)
           d == IF mEnabledSlots = 0 THEN Button(c1, 1) ELSE c1
<1>1. todo' = p \o t \o q \o <<Axes>>
  BY DEF SendDown, Sends
<1>2. Leads(ReadStep, c, p, c) /\ p \in Seq(Events)
  BY PlainReads DEF ResetEvents
<1>3. mTrackingId \in Nat \cup {Lifted}
  BY DEF TypeOK
<1>4. c1 \in Readers /\ Leads(ReadStep, c, t, c1) /\ t \in Seq(Events)
  BY <1>3, ContactReads
<1>5. /\ d.keys = c.keys /\ d.rid = [c.rid EXCEPT ![slot] = mTrackingId]
      /\ d.btn = IF mEnabledSlots = 0 THEN 1 ELSE c.btn
  BY DEF Readers, Contact, Button
<1> HIDE DEF c1
<1>6. d \in Readers /\ Leads(ReadStep, c1, q, d) /\ q \in Seq(Events)
  BY <1>4, ButtonReads, PlainReads
<1> HIDE DEF p, t, q, d
<1>7. p \o t \in Seq(Events) /\ Leads(ReadStep, c, p \o t, c1)
  BY <1>2, <1>4, ReadsOn
<1>8. p \o t \o q \in Seq(Events) /\ Leads(ReadStep, c, p \o t \o q, d)
  BY <1>6, <1>7, ReadsOn
<1>9. Leads(ReadStep, c, p \o t \o q \o <<Axes>>, d)
  BY <1>6, <1>8, PlainReads, ReadsOn
<1> QED BY <1>1, <1>5, <1>6, <1>9

\* And of one that is lifted.  (SendUp)
LEMMA UpReads ==
    ASSUME TypeOK, NEW slot \in Slots, SendUp(slot), NEW c \in Readers
    PROVE  \E d \in Readers :
             /\ Leads(ReadStep, c, todo', d)
             /\ d.keys = c.keys /\ d.rid = [c.rid EXCEPT ![slot] = Lifted]
             /\ d.btn = IF mEnabledSlots = 1 THEN 0 ELSE c.btn
<1> DEFINE t == <<Event("SLOT", slot), Event("TRACK", Lifted)>>
           q == IF mEnabledSlots = 1 THEN <<Event("BTN", 0)>> ELSE <<>>
           c1 == Contact(c, slot, Lifted)
           d == IF mEnabledSlots = 1 THEN Button(c1, 0) ELSE c1
<1>1. todo' = t \o q
  BY DEF SendUp, Sends
<1>2. c1 \in Readers /\ Leads(ReadStep, c, t, c1) /\ t \in Seq(Events)
  BY ContactReads
<1>3. /\ d.keys = c.keys /\ d.rid = [c.rid EXCEPT ![slot] = Lifted]
      /\ d.btn = IF mEnabledSlots = 1 THEN 0 ELSE c.btn
  BY DEF Readers, Contact, Button
<1> HIDE DEF c1
<1>4. d \in Readers /\ Leads(ReadStep, c1, q, d) /\ q \in Seq(Events)
  BY <1>2, ButtonReads, PlainReads
<1> HIDE DEF t, q, d
<1>5. Leads(ReadStep, c, t \o q, d)
  BY <1>2, <1>4, ReadsOn
<1> QED BY <1>1, <1>3, <1>4, <1>5

\* While no contact was forgotten, the counter tells which contact is the first
\* and which the last.  (the tests on mEnabledSlots in SendDown and SendUp)
LEMMA ExactCount ==
    ASSUME TypeOK, CountExact, "reset" \notin past
    PROVE  /\ mEnabledSlots = 0 <=> enabled = {}
           /\ \A s \in enabled : mEnabledSlots = 1 <=> enabled \ {s} = {}
<1>1. IsFiniteSet(enabled) /\ Cardinality(enabled) = mEnabledSlots /\ mEnabledSlots \in Nat
  BY ContactsFinite DEF TypeOK, CountExact
<1>2. mEnabledSlots = 0 <=> enabled = {}
  BY <1>1, FS_EmptySet
<1>3. ASSUME NEW s \in enabled PROVE mEnabledSlots = 1 <=> enabled \ {s} = {}
  <2>1. IsFiniteSet(enabled \ {s}) /\ Cardinality(enabled \ {s}) = mEnabledSlots - 1
    BY <1>1, FS_RemoveElement
  <2>2. Cardinality(enabled \ {s}) = 0 <=> enabled \ {s} = {}
    BY <2>1, FS_EmptySet
  <2> QED BY <1>1, <2>1, <2>2
<1> QED BY <1>2, <1>3

\* what a command must do to the reader, for the reader to end as the receiver is
Tells ==
    \A c \in Readers : Matches(c) =>
        \E d \in Readers : Leads(ReadStep, c, todo', d) /\ Matches(d)'

\* A contact that goes down is told to the reader, and counted.  (SendDown)
LEMMA DownTells ==
    ASSUME TypeOK, CountExact, NEW slot \in Slots, SendDown(slot)
    PROVE  Tells /\ CountExact'
<1> DEFINE reset == slot \in enabled \/ mEnabledSlots >= kMaxSlot
<1>1. /\ enabled' = (IF reset THEN {} ELSE enabled) \cup {slot}
      /\ mEnabledSlots' = mEnabledSlots + 1
      /\ past' = IF reset THEN PastReset ELSE past
  BY DEF SendDown
<1>2. "reset" \notin past' => "reset" \notin past
  BY <1>1 DEF PastReset
<1>3. ASSUME "reset" \notin past'
      PROVE  ~reset /\ slot \notin enabled /\ enabled' = enabled \cup {slot}
  <2>1. mEnabledSlots = 0 <=> enabled = {}
    BY <1>2, <1>3, ExactCount
  <2>2. ASSUME reset PROVE enabled # {}
    <3>1. mEnabledSlots >= kMaxSlot => mEnabledSlots # 0
      BY SlotAssumption DEF TypeOK
    <3> QED BY <2>1, <2>2, <3>1
  <2>3. ~reset
    BY <1>1, <1>3, <2>2 DEF PastReset
  <2> QED BY <1>1, <2>3
<1> HIDE DEF reset
<1>4. CountExact'
  <2> SUFFICES ASSUME "reset" \notin past' PROVE mEnabledSlots' = Cardinality(enabled')
    BY DEF CountExact
  <2>1. IsFiniteSet(enabled) /\ Cardinality(enabled) = mEnabledSlots
    BY <1>2, ContactsFinite DEF TypeOK, CountExact
  <2>2. Cardinality(enabled \cup {slot}) = Cardinality(enabled) + 1
    BY <1>3, <2>1, FS_AddElement
  <2> QED BY <1>1, <1>3, <2>1, <2>2
<1>5. Tells
  <2> SUFFICES ASSUME NEW c \in Readers, Matches(c)
               PROVE  \E d \in Readers : Leads(ReadStep, c, todo', d) /\ Matches(d)'
    BY DEF Tells
  <2>1. PICK d \in Readers :
          /\ Leads(ReadStep, c, todo', d)
          /\ d.keys = c.keys /\ d.rid = [c.rid EXCEPT ![slot] = mTrackingId]
          /\ d.btn = IF mEnabledSlots = 0 THEN 1 ELSE c.btn
    BY DownReads
  <2>2. "held" \notin past' => d.keys = {}
    BY <1>1, <2>1 DEF PastReset, Matches
  <2>3. ASSUME "reset" \notin past'
        PROVE  {s \in Slots : d.rid[s] # Lifted} = enabled' /\ (d.btn = 1 <=> enabled' # {})
    <3>1. {s \in Slots : c.rid[s] # Lifted} = enabled /\ (c.btn = 1 <=> enabled # {})
      BY <1>2, <2>3 DEF Matches
    <3>2. mEnabledSlots = 0 <=> enabled = {}
      BY <1>2, <2>3, ExactCount
    <3>3. c.rid \in [Slots -> Nat \cup {Lifted}] /\ mTrackingId # Lifted
      BY DEF Readers, TypeOK, Lifted
    <3>4. {s \in Slots : d.rid[s] # Lifted} = enabled \cup {slot}
      BY <2>1, <3>1, <3>3
    <3>5. d.btn = 1
      BY <2>1, <3>1, <3>2
    <3> QED BY <1>3, <2>3, <3>4, <3>5
  <2>4. Matches(d)'
    BY <2>2, <2>3 DEF Matches
  <2> QED BY <2>1, <2>4
<1> QED BY <1>4, <1>5

\* A contact that is lifted is told to the reader, and no longer counted.
\* (SendUp)
LEMMA UpTells ==
    ASSUME TypeOK, CountExact, NEW slot \in enabled, SendUp(slot)
    PROVE  Tells /\ CountExact'
<1>1. /\ enabled' = enabled \ {slot} /\ mEnabledSlots' = mEnabledSlots - 1 /\ past' = past
      /\ slot \in Slots
  BY DEF SendUp, TypeOK
<1>2. CountExact'
  <2> SUFFICES ASSUME "reset" \notin past PROVE mEnabledSlots' = Cardinality(enabled')
    BY <1>1 DEF CountExact
  <2>1. IsFiniteSet(enabled) /\ Cardinality(enabled) = mEnabledSlots
    BY ContactsFinite DEF TypeOK, CountExact
  <2>2. Cardinality(enabled \ {slot}) = Cardinality(enabled) - 1
    BY <2>1, FS_RemoveElement
  <2> QED BY <1>1, <2>1, <2>2
<1>3. Tells
  <2> SUFFICES ASSUME NEW c \in Readers, Matches(c)
               PROVE  \E d \in Readers : Leads(ReadStep, c, todo', d) /\ Matches(d)'
    BY DEF Tells
  <2>1. PICK d \in Readers :
          /\ Leads(ReadStep, c, todo', d)
          /\ d.keys = c.keys /\ d.rid = [c.rid EXCEPT ![slot] = Lifted]
          /\ d.btn = IF mEnabledSlots = 1 THEN 0 ELSE c.btn
    BY <1>1, UpReads
  <2>2. "held" \notin past' => d.keys = {}
    BY <1>1, <2>1 DEF Matches
  <2>3. ASSUME "reset" \notin past
        PROVE  {s \in Slots : d.rid[s] # Lifted} = enabled' /\ (d.btn = 1 <=> enabled' # {})
    <3>1. {s \in Slots : c.rid[s] # Lifted} = enabled /\ (c.btn = 1 <=> enabled # {})
      BY <2>3 DEF Matches
    <3>2. mEnabledSlots = 1 <=> enabled \ {slot} = {}
      BY <2>3, ExactCount
    <3>3. c.rid \in [Slots -> Nat \cup {Lifted}]
      BY DEF Readers
    <3>4. {s \in Slots : d.rid[s] # Lifted} = enabled \ {slot}
      BY <1>1, <2>1, <3>1, <3>3
    <3>5. d.btn = 1 <=> enabled \ {slot} # {}
      BY <2>1, <3>1, <3>2
    <3> QED BY <1>1, <3>4, <3>5
  <2>4. Matches(d)'
    BY <1>1, <2>2, <2>3 DEF Matches
  <2> QED BY <2>1, <2>4
<1> QED BY <1>2, <1>3

\* Every command tells the reader what it changed, and keeps the count exact.
\* (ProcessOneCommand, ProcessOneJoystickCommand and onKeyCode)
LEMMA CommandTells ==
    ASSUME TypeOK, IdleDone, CountExact, TouchCommand \/ KeyCommand
    PROVE  /\ todo = <<>> /\ UNCHANGED <<pipe, readerVars>>
           /\ ("lost" \in past' <=> "lost" \in past) /\ Tells /\ CountExact'
<1> DEFINE Told == /\ todo = <<>> /\ UNCHANGED <<pipe, readerVars>>
                   /\ ("lost" \in past' <=> "lost" \in past) /\ Tells /\ CountExact'
<1>1. \A m : NextCommand(m) => todo = <<>> /\ UNCHANGED <<pipe, readerVars>>
  BY DEF NextCommand
<1>2. ASSUME UNCHANGED <<senderVars, past>>
      PROVE  /\ CountExact'
             /\ \A c : Matches(c)' <=> Matches(c)
  BY <1>2 DEF CountExact, Matches, senderVars
<1>3. ASSUME \/ todo' = <<>> \/ todo' = <<Syn>> \/ todo' = <<Axes>>
             \/ \E s \in Slots : todo' = <<Event("SLOT", s), Axes>>,
             NEW c \in Readers
      PROVE  \E d \in Readers : /\ Leads(ReadStep, c, todo', d)
                                /\ d.rid = c.rid /\ d.btn = c.btn /\ d.keys = c.keys
  <2>1. ASSUME NEW s \in Slots
        PROVE  \E d \in Readers : /\ Leads(ReadStep, c, <<Event("SLOT", s), Axes>>, d)
                                  /\ d.rid = c.rid /\ d.btn = c.btn /\ d.keys = c.keys
    <3>1. Event("SLOT", s) \in Events /\ Axes \in Events
      BY UntrackedEvents DEF Untracked
    <3> DEFINE d == Reads(Reads(c, Event("SLOT", s)), Axes)
    <3>2. d \in Readers /\ Leads(ReadStep, c, <<Event("SLOT", s), Axes>>, d)
      BY <3>1, ReadsTwo
    <3>3. d.rid = c.rid /\ d.btn = c.btn /\ d.keys = c.keys
      BY DEF Reads, Readers, Event, Axes
    <3> HIDE DEF d
    <3> QED BY <3>2, <3>3
  <2> QED BY <1>3, <2>1, PlainReads
<1>4. ASSUME \/ todo' = <<>> \/ todo' = <<Syn>> \/ todo' = <<Axes>>
             \/ \E s \in Slots : todo' = <<Event("SLOT", s), Axes>>,
             UNCHANGED <<senderVars, past>>
      PROVE  Tells /\ CountExact'
  <2>1. ASSUME NEW c \in Readers, Matches(c)
        PROVE  \E d \in Readers : Leads(ReadStep, c, todo', d) /\ Matches(d)'
    <3>1. PICK d \in Readers : /\ Leads(ReadStep, c, todo', d)
                               /\ d.rid = c.rid /\ d.btn = c.btn /\ d.keys = c.keys
      BY <1>3, <1>4
    <3>2. Matches(d)'
      BY <1>4, <2>1, <3>1 DEF Matches, senderVars
    <3> QED BY <3>1, <3>2
  <2> QED BY <1>2, <1>4, <2>1 DEF Tells
<1>5. ASSUME NEW slot \in InputSlots, NEW inRange \in BOOLEAN, CmdDown(slot, inRange)
      PROVE  Told
  <2>1. todo = <<>> /\ UNCHANGED <<pipe, readerVars>>
    BY <1>1, <1>5 DEF CmdDown
  <2>2. CASE Ignored
    BY <1>4, <2>1, <2>2 DEF Ignored
  <2>3. CASE Accepts(slot) /\ slot < kMaxSlot /\ SendDown(slot)
    <3>1. slot \in Slots
      BY <2>3, SlotAssumption DEF Accepts, Slots, InputSlots
    <3>2. "lost" \in past' <=> "lost" \in past
      BY <2>3 DEF SendDown, PastReset
    <3> QED BY <2>1, <2>3, <3>1, <3>2, DownTells
  <2> QED BY <1>5, <2>2, <2>3 DEF CmdDown, Refused
<1>6. ASSUME NEW slot \in InputSlots, NEW inRange \in BOOLEAN, CmdMove(slot, inRange)
      PROVE  Told
  <2>1. todo = <<>> /\ UNCHANGED <<pipe, readerVars>>
    BY <1>1, <1>6 DEF CmdMove
  <2>2. CASE Ignored
    BY <1>4, <2>1, <2>2 DEF Ignored
  <2>3. CASE slot \in enabled /\ Sends(<<Event("SLOT", slot), Axes>>)
             /\ UNCHANGED <<senderVars, past>>
    BY <1>4, <2>1, <2>3 DEF Sends, TypeOK
  <2> QED BY <1>6, <2>2, <2>3 DEF CmdMove, Refused
<1>7. ASSUME NEW slot \in InputSlots, CmdUp(slot)
      PROVE  Told
  <2>1. todo = <<>> /\ UNCHANGED <<pipe, readerVars>>
    BY <1>1, <1>7 DEF CmdUp
  <2>2. CASE Ignored
    BY <1>4, <2>1, <2>2 DEF Ignored
  <2>3. CASE slot \in enabled /\ SendUp(slot)
    <3>1. "lost" \in past' <=> "lost" \in past
      BY <2>3 DEF SendUp
    <3> QED BY <2>1, <2>3, <3>1, UpTells
  <2> QED BY <1>7, <2>2, <2>3 DEF CmdUp, Refused
<1>8. ASSUME CmdReset PROVE Told
  <2>1. /\ todo = <<>> /\ UNCHANGED <<pipe, readerVars>>
        /\ enabled' = {} /\ past' = PastReset /\ todo' = ResetEvents
        /\ mEnabledSlots' = mEnabledSlots
    BY <1>1, <1>8 DEF CmdReset, Sends
  <2>2. "lost" \in past' <=> "lost" \in past
    BY <2>1 DEF PastReset
  <2>3. "reset" \notin past' => enabled = {} /\ "reset" \notin past
    BY <2>1 DEF PastReset
  <2>4. CountExact'
    BY <2>1, <2>3 DEF CountExact
  <2>5. ASSUME NEW c \in Readers, Matches(c)
        PROVE  Leads(ReadStep, c, todo', c) /\ Matches(c)'
    <3>1. Leads(ReadStep, c, todo', c)
      BY <2>1, PlainReads DEF ResetEvents
    <3>2. "held" \in past' <=> "held" \in past
      BY <2>1 DEF PastReset
    <3>3. Matches(c)'
      BY <2>1, <2>3, <2>5, <3>2 DEF Matches
    <3> QED BY <3>1, <3>3
  <2> QED BY <2>1, <2>2, <2>4, <2>5 DEF Tells
<1>9. ASSUME CmdCommit \/ JoyAxis PROVE Told
  <2>1. todo = <<>> /\ UNCHANGED <<pipe, readerVars>>
    BY <1>1, <1>9 DEF CmdCommit, JoyAxis
  <2>2. (todo' = <<Syn>> \/ todo' = <<Axes>>) /\ UNCHANGED <<senderVars, past>>
    BY <1>9 DEF CmdCommit, JoyAxis, Sends
  <2> QED BY <1>4, <2>1, <2>2
<1>10. ASSUME NEW t \in {"DOWN", "UP"}, JoyKey(t) PROVE Told
  <2> DEFINE e == [type |-> t, value |-> "key"]
  <2>1. /\ todo = <<>> /\ UNCHANGED <<pipe, readerVars>>
        /\ todo' = <<e>> /\ past' = (IF t = "DOWN" THEN past \cup {"held"} ELSE past)
        /\ UNCHANGED senderVars
    BY <1>1, <1>10 DEF JoyKey, Sends
  <2>2. CountExact'
    BY <2>1 DEF CountExact, senderVars
  <2>3. e \in Events
    BY UntrackedEvents DEF Untracked, Keys
  <2>4. ASSUME NEW c \in Readers, Matches(c)
        PROVE  \E d \in Readers : Leads(ReadStep, c, todo', d) /\ Matches(d)'
    <3> DEFINE d == Reads(c, e)
    <3>1. d \in Readers /\ Leads(ReadStep, c, <<e>>, d)
      BY <2>3, ReadsType, LeadsByOne
    <3>2. /\ d.rid = c.rid /\ d.btn = c.btn
          /\ t = "UP" => d.keys = c.keys \ {"key"}
      BY DEF Reads, Readers
    <3> HIDE DEF d
    <3>3. "held" \notin past' => d.keys = {}
      BY <2>1, <2>4, <3>2 DEF Matches
    <3>4. ("reset" \in past' <=> "reset" \in past) /\ enabled' = enabled
      BY <2>1 DEF senderVars
    <3>5. Matches(d)'
      BY <2>4, <3>2, <3>3, <3>4 DEF Matches
    <3> QED BY <2>1, <3>1, <3>5
  <2> QED BY <2>1, <2>2, <2>4 DEF Tells
<1>11. ASSUME todo = <<>>, UNCHANGED <<pipe, readerVars>>, UNCHANGED <<senderVars, past>>,
              \A c \in Readers : \E M \in SUBSET Keys :
                 /\ c.keys = {} => M = {}
                 /\ Leads(ReadStep, c, todo', Holding(c, M))
       PROVE  Told
  <2>1. ASSUME NEW c \in Readers, Matches(c)
        PROVE  \E d \in Readers : Leads(ReadStep, c, todo', d) /\ Matches(d)'
    <3>1. PICK M \in SUBSET Keys : /\ c.keys = {} => M = {}
                                   /\ Leads(ReadStep, c, todo', Holding(c, M))
      BY <1>11
    <3>2. /\ Holding(c, M) \in Readers /\ Holding(c, M).rid = c.rid
          /\ Holding(c, M).btn = c.btn /\ Holding(c, M).keys = M
      BY DEF Holding, Readers
    <3>3. Matches(Holding(c, M))'
      BY <1>11, <2>1, <3>1, <3>2 DEF Matches, senderVars
    <3> QED BY <3>1, <3>2, <3>3
  <2> QED BY <1>2, <1>11, <2>1 DEF Tells
<1>12. \A c \in Readers : Holding(c, c.keys) = c /\ c.keys \in SUBSET Keys
  BY DEF Holding, Readers
<1>13. ASSUME NEW code \in {"insert", "pullOut"}, JoyPlug(code) PROVE Told
  <2>1. /\ todo = <<>> /\ UNCHANGED <<pipe, readerVars>> /\ UNCHANGED <<senderVars, past>>
        /\ todo' = Press(code) \o Release(code)
    BY <1>1, <1>13 DEF JoyPlug, Sends
  <2>2. code \in Keys
    BY DEF Keys
  <2>3. Press(code) \in Seq(Events) /\ Release(code) \in Seq(Events)
    BY <2>2, PressType, SeqMonotonic DEF Untracked
  <2>4. ASSUME NEW c \in Readers
        PROVE  \E M \in SUBSET Keys :
                 /\ c.keys = {} => M = {}
                 /\ Leads(ReadStep, c, todo', Holding(c, M))
    <3> DEFINE K == c.keys
               L == K \cup {code}
               M == L \ {code}
    <3>1. L \in SUBSET Keys /\ M \in SUBSET Keys /\ (c.keys = {} => M = {})
      BY <1>12, <2>2
    <3>2. Leads(ReadStep, Holding(c, K), Press(code), Holding(c, L))
      BY <1>12, <2>2, KeyLeads
    <3> HIDE DEF L
    <3>3. Leads(ReadStep, Holding(c, L), Release(code), Holding(c, M))
      BY <2>2, <3>1, KeyLeads
    <3> HIDE DEF M
    <3>4. Leads(ReadStep, Holding(c, K), todo', Holding(c, M))
      BY <2>1, <2>3, <3>2, <3>3, ReadsOn
    <3> QED BY <1>12, <3>1, <3>4
  <2> QED BY <1>11, <2>1, <2>4
<1>14. ASSUME NEW mask \in SUBSET Modifiers, onKeyCode(mask) PROVE Told
  <2>1. /\ todo = <<>> /\ UNCHANGED <<pipe, readerVars>> /\ UNCHANGED <<senderVars, past>>
        /\ todo' = KeyEvents(mask)
    BY <1>14 DEF onKeyCode, IdleDone
  <2>2. \A c \in Readers : \E M \in SUBSET Keys :
                 /\ c.keys = {} => M = {}
                 /\ Leads(ReadStep, c, todo', Holding(c, M))
    BY <1>12, <2>1, KeyEventsLead
  <2> QED BY <1>11, <2>1, <2>2
<1> HIDE DEF Told
<1>15. Told
  BY <1>5, <1>6, <1>7, <1>8, <1>9, <1>10, <1>13, <1>14 DEF TouchCommand, KeyCommand
<1> QED BY <1>15 DEF Told

\* Every step keeps the reader on its way to what the receiver has.
LEMMA NextView == ViewInv /\ [Next]_vars => ViewInv'
<1> SUFFICES ASSUME ViewInv, [Next]_vars PROVE ViewInv'
  OBVIOUS
<1>1. InputType' /\ TypeOK /\ TypeOK' /\ IdleDone /\ CountExact /\ WillMatch
  BY NextInputType DEF ViewInv, InputType
<1>2. /\ pipe \in Seq(Events) /\ todo \in Seq(Events)
      /\ pipe' \in Seq(Events) /\ todo' \in Seq(Events)
  BY <1>1 DEF TypeOK
<1>3. Reader \in Readers
  BY <1>1 DEF TypeOK, Reader, Readers
<1>4. CASE TouchCommand \/ KeyCommand
  <2>1. /\ todo = <<>> /\ UNCHANGED <<pipe, readerVars>>
        /\ ("lost" \in past' <=> "lost" \in past) /\ Tells /\ CountExact'
    BY <1>1, <1>4, CommandTells
  <2>2. WillMatch'
    <3> SUFFICES ASSUME "lost" \notin past'
                 PROVE  \E r \in Readers : Leads(ReadStep, Reader', pipe' \o todo', r) /\ Matches(r)'
      BY DEF WillMatch
    <3>1. PICK c \in Readers : Leads(ReadStep, Reader, pipe \o todo, c) /\ Matches(c)
      BY <1>1, <2>1 DEF WillMatch
    <3>2. pipe \o todo = pipe /\ Reader' = Reader
      BY <1>2, <2>1, ConcatEmptySeq DEF Reader, readerVars
    <3>3. PICK d \in Readers : Leads(ReadStep, c, todo', d) /\ Matches(d)'
      BY <2>1, <3>1 DEF Tells
    <3>4. Leads(ReadStep, Reader, pipe, c)
      BY <3>1, <3>2
    <3>5. Leads(ReadStep, Reader, pipe \o todo', d)
      BY <1>2, <3>3, <3>4, ReadsOn
    <3> QED BY <2>1, <3>2, <3>3, <3>5
  <2> QED BY <1>1, <2>1, <2>2 DEF ViewInv
<1>5. CASE SendEvent
  <2>1. /\ todo # <<>> /\ todo' = Tail(todo) /\ UNCHANGED <<senderVars, readerVars>>
        /\ \/ pipe' = Append(pipe, Head(todo)) /\ past' = past
           \/ past' = past \cup {"lost"}
    BY <1>5 DEF SendEvent
  <2>2. CountExact'
    BY <1>1, <2>1 DEF CountExact, senderVars
  <2>3. WillMatch'
    <3> SUFFICES ASSUME "lost" \notin past'
                 PROVE  \E r \in Readers : Leads(ReadStep, Reader', pipe' \o todo', r) /\ Matches(r)'
      BY DEF WillMatch
    <3>1. pipe' = Append(pipe, Head(todo)) /\ past' = past
      BY <2>1
    <3>2. pipe' \o todo' = pipe \o todo
      BY <1>2, <2>1, <3>1, MoveOne
    <3>3. Reader' = Reader /\ \A r : Matches(r)' <=> Matches(r)
      BY <2>1, <3>1 DEF Reader, readerVars, Matches, senderVars
    <3> QED BY <1>1, <3>1, <3>2, <3>3 DEF WillMatch
  <2> QED BY <1>1, <2>2, <2>3 DEF ViewInv
<1>6. CASE ReadEvent
  <2>1. pipe # <<>> /\ pipe' = Tail(pipe) /\ UNCHANGED <<senderVars, todo, past>>
    BY <1>6 DEF ReadEvent
  <2>2. Reader' = Reads(Reader, Head(pipe))
    BY <1>6 DEF ReadEvent, Reader, Reads
  <2>3. CountExact'
    BY <1>1, <2>1 DEF CountExact, senderVars
  <2>4. /\ pipe \o todo \in Seq(Events) /\ pipe \o todo # <<>>
        /\ Head(pipe \o todo) = Head(pipe) /\ Tail(pipe \o todo) = Tail(pipe) \o todo
    BY <1>2, <2>1, TakeFirst
  <2>5. WillMatch'
    <3> SUFFICES ASSUME "lost" \notin past
                 PROVE  \E r \in Readers : Leads(ReadStep, Reader', pipe' \o todo', r) /\ Matches(r)'
      BY <2>1 DEF WillMatch
    <3>1. PICK c \in Readers : Leads(ReadStep, Reader, pipe \o todo, c) /\ Matches(c)
      BY <1>1 DEF WillMatch
    <3>2. PICK b : <<Reader, Head(pipe), b>> \in ReadStep /\ Leads(ReadStep, b, Tail(pipe) \o todo, c)
      BY <2>4, <3>1, LeadsFirst
    <3>3. b = Reader'
      BY <2>2, <3>2 DEF ReadStep
    <3>4. Matches(c)'
      BY <2>1, <3>1 DEF Matches, senderVars
    <3> QED BY <2>1, <3>2, <3>3, <3>4
  <2> QED BY <1>1, <2>3, <2>5 DEF ViewInv
<1>7. CASE UNCHANGED <<senderVars, todo, pipe, past, readerVars>>
  <2>1. UNCHANGED <<enabled, mEnabledSlots, todo, pipe, past, Reader>>
    BY <1>7 DEF senderVars, readerVars, Reader
  <2>2. CountExact' /\ \A r : Matches(r)' <=> Matches(r)
    BY <1>1, <2>1 DEF CountExact, Matches
  <2>3. WillMatch'
    BY <1>1, <2>1, <2>2 DEF WillMatch
  <2> QED BY <1>1, <2>2, <2>3 DEF ViewInv
<1>8. CmdSilent \/ Return \/ (\E m \in {"touch", "joystick"} : Begin(m)) \/ UNCHANGED vars
        => UNCHANGED <<senderVars, todo, pipe, past, readerVars>>
  BY DEF CmdSilent, NextCommand, Ignored, Return, Begin, vars
<1> QED BY <1>4, <1>5, <1>6, <1>7, <1>8 DEF Next

\* The view of the reader, on its way and when it has arrived.
LEMMA ViewAlways == Spec => []ViewInv
<1>1. Init => CountExact /\ WillMatch
  <2> SUFFICES ASSUME Init PROVE CountExact /\ WillMatch
    OBVIOUS
  <2>1. CountExact
    BY FS_EmptySet DEF Init, CountExact
  <2>2. Reader \in Readers /\ Matches(Reader)
    BY SlotAssumption DEF Init, Reader, Readers, Matches, Slots, Lifted
  <2>3. pipe \o todo = <<>>
    BY DEF Init
  <2>4. Leads(ReadStep, Reader, pipe \o todo, Reader)
    BY <2>3, LeadsNowhere
  <2> QED BY <2>1, <2>2, <2>4 DEF WillMatch
<1>2. ViewInv /\ [Next]_vars => ViewInv'
  BY NextView
<1>3. ViewInv <=> InputType /\ CountExact /\ WillMatch
  BY DEF ViewInv
<1> QED BY <1>1, <1>2, <1>3, InputTypeInvariance, PTL DEF Spec

\* When everything is read, the reader is where its events led it.
LEMMA QuietMatches ==
    ASSUME ViewInv, Quiet, "lost" \notin past
    PROVE  Matches(Reader)
<1>1. PICK c \in Readers : Leads(ReadStep, Reader, pipe \o todo, c) /\ Matches(c)
  BY DEF ViewInv, WillMatch
<1>2. pipe \o todo = <<>>
  BY DEF Quiet
<1>3. c = Reader
  BY <1>1, <1>2, LeadsNowhere
<1> QED BY <1>1, <1>3

\* Types of the receiver, of the pipe and of its reader.
\* (fields of VirtualInputReceiver)
THEOREM InputTypeCorrect == Spec => []TypeOK
<1>1. InputType => TypeOK
  BY DEF InputType
<1> QED BY <1>1, InputTypeInvariance, PTL

\* Once the pipe is empty the reader has the receiver's contacts, and the touch
\* button is down exactly when there is one, unless an event was refused or a
\* contact forgotten: for any number of slots, any pipe and any interleaving of
\* the reader with the commands.  (the event sequences of SendDown and SendUp)
THEOREM ReaderAlwaysAgrees == Spec => []ReaderAgrees
<1>1. ViewInv => ReaderAgrees
  <2> SUFFICES ASSUME ViewInv, Quiet, past \cap {"lost", "reset"} = {}
               PROVE  SameContacts
    BY DEF ReaderAgrees
  <2>1. "lost" \notin past /\ "reset" \notin past
    OBVIOUS
  <2>2. Matches(Reader)
    BY <2>1, QuietMatches
  <2> QED BY <2>1, <2>2 DEF Matches, Reader, SameContacts
<1> QED BY <1>1, ViewAlways, PTL

\* Once the pipe is empty no key is held, unless an event was refused or the
\* client pressed a key itself: onKeyCode releases, after any mask of
\* modifiers, every key it pressed.  (onKeyCode, cases 'i' and 'p')
THEOREM KeysAlwaysReleased == Spec => []KeysReleased
<1>1. ViewInv => KeysReleased
  <2> SUFFICES ASSUME ViewInv, Quiet, past \cap {"lost", "held"} = {}
               PROVE  rkeys = {}
    BY DEF KeysReleased
  <2>1. "lost" \notin past /\ "held" \notin past
    OBVIOUS
  <2>2. Matches(Reader)
    BY <2>1, QuietMatches
  <2> QED BY <2>1, <2>2 DEF Matches, Reader
<1> QED BY <1>1, ViewAlways, PTL
=============================================================================
