------------------------ MODULE VirtualInputReceiver ------------------------
(***************************************************************************)
(* source/virtual_input_receiver.cc: touch, joystick and keyboard commands *)
(* become input events, written one by one to a named pipe that was opened *)
(* O_NONBLOCK.  The reader of the pipe (external) is Android's input       *)
(* device; it runs at its own pace and keeps its own view of contacts and  *)
(* keys, from the events that got through.                                 *)
(*                                                                         *)
(* The five axis events of a contact (major, width, pressure, x, y) are    *)
(* one event here; a command with a coordinate or a pressure out of range  *)
(* is one whose flag inRange is FALSE.                                     *)
(***************************************************************************)
EXTENDS Integers, Sequences, FiniteSets

CONSTANTS
    kMaxSlot,      \* contacts the receiver keeps
    PipeCap,       \* events the pipe holds
    MaxCmds        \* bound: commands processed

ASSUME SlotAssumption == kMaxSlot \in Nat \ {0}
ASSUME PipeAssumption == PipeCap \in Nat /\ MaxCmds \in Nat

VARIABLES
    enabled,        \* the slots whose mContacts[slot].enabled is set
    mEnabledSlots,
    mTrackingId,
    msg,            \* the call that runs, or "idle"
    todo,           \* events its current command has yet to send
    pipe,
    past,           \* what happened so far of "lost": an event was refused; "reset":
                    \* SendReset forgot a contact; "held": a client pressed a key itself
    rslot, rid, rbtn, rkeys,   \* the reader's slot, contacts, touch button, keys
    ncmds

senderVars == <<enabled, mEnabledSlots, mTrackingId>>
readerVars == <<rslot, rid, rbtn, rkeys>>
vars == <<senderVars, msg, todo, pipe, past, readerVars, ncmds>>

Slots == 0..(kMaxSlot - 1)

\* what a command may name as its slot: one below and two above the range
InputSlots == (-1)..(kMaxSlot + 1)

Modifiers == {"LEFTSHIFT", "LEFTCTRL", "LEFTALT"}
\* a key of the keyboard or joystick, and the codes 631 and 632 of the joystick plug
Keys == Modifiers \cup {"key", "insert", "pullOut"}

Lifted == -1

Event(t, v) == [type |-> t, value |-> v]
Syn == Event("SYN", 0)
Axes == Event("AXES", 0)
Press(k) == <<[type |-> "DOWN", value |-> k], Syn>>
Release(k) == <<[type |-> "UP", value |-> k], Syn>>

Events == [type : {"SLOT"}, value : Slots] \cup [type : {"TRACK"}, value : Nat \cup {Lifted}]
            \cup [type : {"BTN"}, value : {0, 1}] \cup {Syn, Axes}
            \cup [type : {"DOWN", "UP"}, value : Keys]

TypeOK ==
    /\ enabled \subseteq Slots
    /\ mEnabledSlots \in Nat
    /\ mTrackingId \in Nat
    /\ msg \in {"idle", "touch", "joystick", "key"}
    /\ todo \in Seq(Events)
    /\ pipe \in Seq(Events) /\ Len(pipe) <= PipeCap
    /\ past \subseteq {"lost", "reset", "held"}
    /\ rslot \in Slots
    /\ rid \in [Slots -> Nat \cup {Lifted}]
    /\ rbtn \in {0, 1}
    /\ rkeys \subseteq Keys
    /\ ncmds \in 0..MaxCmds

Init ==
    /\ enabled = {} /\ mEnabledSlots = 0 /\ mTrackingId = 0
    /\ msg = "idle" /\ todo = <<>>
    /\ pipe = <<>> /\ past = {}
    /\ rslot = 0 /\ rid = [s \in Slots |-> Lifted] /\ rbtn = 0 /\ rkeys = {}
    /\ ncmds = 0

(***************************************************************************)
(* A call: onInputMessage and onJoystickMessage process the commands of a  *)
(* message in turn, onKeyCode is a single command.                         *)
(***************************************************************************)
Begin(m) ==
    /\ msg = "idle"
    /\ msg' = m
    /\ UNCHANGED <<senderVars, todo, pipe, past, readerVars, ncmds>>

\* the results of the commands are dropped, and every call returns {0, ""}
Return ==
    /\ msg # "idle" /\ todo = <<>>
    /\ msg' = "idle"
    /\ UNCHANGED <<senderVars, todo, pipe, past, readerVars, ncmds>>

NextCommand(m) ==
    /\ msg = m /\ todo = <<>> /\ ncmds < MaxCmds
    /\ ncmds' = ncmds + 1
    /\ UNCHANGED <<msg, pipe, readerVars>>

Sends(events) == todo' = events

\* a slot that ProcessOneCommand does not refuse
Accepts(slot) == 0 <= slot /\ slot <= kMaxSlot

\* nothing is sent: a function on the way returned false
Ignored == UNCHANGED <<senderVars, todo, past>>

Refused(slot, inRange) == ~(Accepts(slot) /\ inRange) /\ Ignored

(***************************************************************************)
(* Touch commands.                                                         *)
(***************************************************************************)

\* SendReset: the contacts are forgotten, mEnabledSlots is not, and the reader
\* is told nothing but a report
ResetEvents == IF enabled # {} THEN <<Syn>> ELSE <<>>
PastReset == IF enabled # {} THEN past \cup {"reset"} ELSE past

\* the counter is not kept
SendDown_Bug(slot) ==
    LET reset == slot \in enabled \/ mEnabledSlots >= kMaxSlot IN
    /\ enabled' = (IF reset THEN {} ELSE enabled) \cup {slot}
    /\ mTrackingId' = mTrackingId + 1
    /\ UNCHANGED mEnabledSlots
    /\ past' = IF reset THEN PastReset ELSE past
    /\ Sends((IF reset THEN ResetEvents ELSE <<>>)
               \o <<Event("SLOT", slot), Event("TRACK", mTrackingId), Axes>>)

\* the tracking id is not advanced
SendDown_BugId(slot) ==
    LET reset == slot \in enabled \/ mEnabledSlots >= kMaxSlot IN
    /\ enabled' = (IF reset THEN {} ELSE enabled) \cup {slot}
    /\ mEnabledSlots' = mEnabledSlots + 1
    /\ UNCHANGED mTrackingId
    /\ past' = IF reset THEN PastReset ELSE past
    /\ Sends((IF reset THEN ResetEvents ELSE <<>>)
               \o <<Event("SLOT", slot), Event("TRACK", mTrackingId), Axes>>)

SendDown(slot) ==
    LET reset == slot \in enabled \/ mEnabledSlots >= kMaxSlot
        button == IF mEnabledSlots = 0 THEN <<Event("BTN", 1)>> ELSE <<>> IN
    /\ enabled' = (IF reset THEN {} ELSE enabled) \cup {slot}
    /\ mTrackingId' = mTrackingId + 1
    /\ mEnabledSlots' = mEnabledSlots + 1
    /\ past' = IF reset THEN PastReset ELSE past
    /\ Sends((IF reset THEN ResetEvents ELSE <<>>)
               \o <<Event("SLOT", slot), Event("TRACK", mTrackingId)>>
               \o button \o <<Axes>>)

\* the button is released with every contact
SendUp_Bug(slot) ==
    /\ enabled' = enabled \ {slot}
    /\ mEnabledSlots' = mEnabledSlots - 1
    /\ UNCHANGED <<mTrackingId, past>>
    /\ Sends(<<Event("SLOT", slot), Event("TRACK", Lifted), Event("BTN", 0)>>)

SendUp(slot) ==
    LET button == IF mEnabledSlots = 1 THEN <<Event("BTN", 0)>> ELSE <<>> IN
    /\ enabled' = enabled \ {slot}
    /\ mEnabledSlots' = mEnabledSlots - 1
    /\ UNCHANGED <<mTrackingId, past>>
    /\ Sends(<<Event("SLOT", slot), Event("TRACK", Lifted)>> \o button)

\* SendDown's check lets a slot of kMaxSlot pass, as ProcessOneCommand's does
CmdDown_Bug(slot, inRange) ==
    /\ NextCommand("touch")
    /\ Refused(slot, inRange) \/ (Accepts(slot) /\ inRange /\ SendDown(slot))

\* 'd': a slot of kMaxSlot passes the check of the command and not that of
\* SendDown, whose result nobody looks at
CmdDown(slot, inRange) ==
    /\ NextCommand("touch")
    /\ \/ Refused(slot, inRange)
       \/ Accepts(slot) /\ inRange /\ slot < kMaxSlot /\ SendDown(slot)
       \/ inRange /\ slot = kMaxSlot /\ Ignored

\* 'u'
CmdUp(slot) ==
    /\ NextCommand("touch")
    /\ \/ Refused(slot, TRUE)
       \/ mEnabledSlots # 0 /\ slot \in enabled /\ SendUp(slot)
       \/ Accepts(slot) /\ (mEnabledSlots = 0 \/ slot \notin enabled)
            /\ Ignored

\* 'm'
CmdMove(slot, inRange) ==
    /\ NextCommand("touch")
    /\ \/ Refused(slot, inRange)
       \/ inRange /\ slot \in enabled
            /\ Sends(<<Event("SLOT", slot), Axes>>) /\ UNCHANGED <<senderVars, past>>
       \/ Accepts(slot) /\ inRange /\ slot \notin enabled /\ Ignored

\* 'r'
CmdReset ==
    /\ NextCommand("touch")
    /\ enabled' = {}
    /\ past' = PastReset
    /\ UNCHANGED <<mEnabledSlots, mTrackingId>>
    /\ Sends(ResetEvents)

\* 'c', in touch and joystick messages
CmdCommit ==
    /\ NextCommand("touch") \/ NextCommand("joystick")
    /\ Sends(<<Syn>>)
    /\ UNCHANGED <<senderVars, past>>

\* 'w' and unknown commands send nothing
CmdSilent ==
    /\ NextCommand("touch") \/ NextCommand("joystick")
    /\ Ignored

(***************************************************************************)
(* Joystick commands and keys.                                             *)
(***************************************************************************)

\* 'k': the client presses or releases a key itself
JoyKey(t) ==
    /\ NextCommand("joystick")
    /\ Sends(<<[type |-> t, value |-> "key"]>>)
    /\ past' = IF t = "DOWN" THEN past \cup {"held"} ELSE past
    /\ UNCHANGED senderVars

\* 'm' and 'a': an event that is no key
JoyAxis ==
    /\ NextCommand("joystick")
    /\ Sends(<<Axes>>)
    /\ UNCHANGED <<senderVars, past>>

\* 'i' and 'p': the code 631 or 632 is pressed and released
JoyPlug(code) ==
    /\ NextCommand("joystick")
    /\ Sends(Press(code) \o Release(code))
    /\ UNCHANGED <<senderVars, past>>

WithModifier(mask, k, events) == IF k \in mask THEN events ELSE <<>>

\* the modifiers stay pressed
KeyEvents_Bug(mask) ==
    WithModifier(mask, "LEFTSHIFT", Press("LEFTSHIFT"))
      \o WithModifier(mask, "LEFTCTRL", Press("LEFTCTRL"))
      \o WithModifier(mask, "LEFTALT", Press("LEFTALT"))
      \o Press("key") \o Release("key")

KeyEvents(mask) ==
    WithModifier(mask, "LEFTSHIFT", Press("LEFTSHIFT"))
      \o WithModifier(mask, "LEFTCTRL", Press("LEFTCTRL"))
      \o WithModifier(mask, "LEFTALT", Press("LEFTALT"))
      \o Press("key") \o Release("key")
      \o WithModifier(mask, "LEFTSHIFT", Release("LEFTSHIFT"))
      \o WithModifier(mask, "LEFTCTRL", Release("LEFTCTRL"))
      \o WithModifier(mask, "LEFTALT", Release("LEFTALT"))

onKeyCode(mask) ==
    /\ msg = "idle" /\ ncmds < MaxCmds
    /\ msg' = "key"
    /\ todo' = KeyEvents(mask)
    /\ ncmds' = ncmds + 1
    /\ UNCHANGED <<senderVars, pipe, past, readerVars>>

(***************************************************************************)
(* The pipe and its reader.                                                *)
(***************************************************************************)

\* write(): a full pipe refuses the event, and SendEvent's callers go on
SendEvent ==
    /\ todo # <<>>
    /\ todo' = Tail(todo)
    /\ IF Len(pipe) < PipeCap THEN pipe' = Append(pipe, Head(todo)) /\ past' = past
                              ELSE pipe' = pipe /\ past' = past \cup {"lost"}
    /\ UNCHANGED <<senderVars, msg, readerVars, ncmds>>

\* the input device takes the next event (external)
ReadEvent ==
    /\ pipe # <<>>
    /\ pipe' = Tail(pipe)
    /\ LET e == Head(pipe) IN
         /\ rslot' = IF e.type = "SLOT" THEN e.value ELSE rslot
         /\ rid' = IF e.type = "TRACK" THEN [rid EXCEPT ![rslot] = e.value] ELSE rid
         /\ rbtn' = IF e.type = "BTN" THEN e.value ELSE rbtn
         /\ rkeys' = CASE e.type = "DOWN" -> rkeys \cup {e.value}
                       [] e.type = "UP"   -> rkeys \ {e.value}
                       [] OTHER -> rkeys
    /\ UNCHANGED <<senderVars, msg, todo, past, ncmds>>

TouchCommand ==
    \/ \E slot \in InputSlots, inRange \in BOOLEAN :
         CmdDown(slot, inRange) \/ CmdMove(slot, inRange)
    \/ \E slot \in InputSlots : CmdUp(slot)
    \/ CmdReset \/ CmdCommit

KeyCommand ==
    \/ \E t \in {"DOWN", "UP"} : JoyKey(t)
    \/ JoyAxis
    \/ \E code \in {"insert", "pullOut"} : JoyPlug(code)
    \/ \E mask \in SUBSET Modifiers : onKeyCode(mask)

Next ==
    \/ \E m \in {"touch", "joystick"} : Begin(m)
    \/ TouchCommand \/ KeyCommand
    \/ CmdSilent
    \/ Return
    \/ SendEvent \/ ReadEvent

Spec == Init /\ [][Next]_vars

(***************************************************************************)
(* Properties.                                                             *)
(***************************************************************************)

\* mEnabledSlots is never less than the number of contacts that are down, so
\* that the uint32 never wraps and no contact becomes impossible to lift.
\* (SendUp returns early on mEnabledSlots == 0; SendReset forgets contacts)
CountCovers == Cardinality(enabled) <= mEnabledSlots

\* Two contacts of the reader never have one tracking id, whatever events the
\* pipe refused.  (mTrackingId++ in SendDown)
DistinctIds ==
    \A s, t \in Slots : s # t /\ rid[s] = rid[t] => rid[s] = Lifted

Quiet == todo = <<>> /\ pipe = <<>>

\* the reader's contacts and touch button are the receiver's
SameContacts == /\ {s \in Slots : rid[s] # Lifted} = enabled
                /\ rbtn = 1 <=> enabled # {}

\* Once the pipe is empty the reader sees the contacts that the receiver has,
\* and the touch button is down exactly when there is one, as long as no
\* event was refused and no contact forgotten.
\* (the event sequences of SendDown and SendUp)
ReaderAgrees == Quiet /\ past \cap {"lost", "reset"} = {} => SameContacts

\* Once the pipe is empty no key is held, as long as no event was refused and
\* the client pressed none itself: every press of onKeyCode and of the
\* joystick plug is followed by its release.  (onKeyCode, cases 'i' and 'p')
KeysReleased == Quiet /\ past \cap {"lost", "held"} = {} => rkeys = {}

\* A reset brings reader and receiver together: whatever was forgotten, the
\* reader knows when it has read all events.  (SendReset)
ResetReachesReader == Quiet /\ "lost" \notin past => SameContacts
=============================================================================
