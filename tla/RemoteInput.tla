----------------------------- MODULE RemoteInput -----------------------------
(***************************************************************************)
(* Keyboard and mouse on their way from the viewers to the host's desktop: *)
(* InputCapture (packages/viewer/src/input-capture.ts) and the tools of an *)
(* agent, the input channel, HostSession.routeInput() and InputInjector    *)
(* (packages/host/src/input-injector.ts), called by main.ts without        *)
(* waiting for the event before.                                           *)
(*                                                                         *)
(* An injection is cut where it awaits a native call: a native call takes  *)
(* effect when it is made, and what follows it runs as a task of its own.  *)
(* Positions, the wheel and the Ctrl+Alt+Del chord are left out.           *)
(***************************************************************************)
EXTENDS Naturals, Sequences, SequencesExt

CONSTANTS Human,     \* viewers with a keyboard and a mouse
          Agent,     \* viewers that call press_key and type_text
          Key,       \* keys that are not modifiers
          ModKey,    \* modifier keys, by KeyboardEvent.code
          AgentMods, \* sets of modifiers press_key is called with
          DomButton, \* MouseEvent.button values, by name
          None,      \* no key recorded
          MaxActs    \* bound on what users and agents do

Mod == {"ctrl", "alt", "shift", "meta"}

\* The order of logicalModifiers().
Rank == [ctrl |-> 1, alt |-> 2, shift |-> 3, meta |-> 4]

Left == [ctrl |-> "ControlLeft", alt |-> "AltLeft", shift |-> "ShiftLeft",
         meta |-> "MetaLeft"]

ModifierOf(k) ==
  CASE k \in {"ControlLeft", "ControlRight"} -> "ctrl"
    [] k \in {"AltLeft", "AltRight"}         -> "alt"
    [] k \in {"ShiftLeft", "ShiftRight"}     -> "shift"
    [] k \in {"MetaLeft", "MetaRight"}       -> "meta"

MapButton(b) == IF b \in {"left", "middle", "right"} THEN b ELSE "left"

ASSUME InputAssumption ==
  /\ ModKey \subseteq {"ControlLeft", "ControlRight", "AltLeft", "AltRight",
                       "ShiftLeft", "ShiftRight", "MetaLeft", "MetaRight"}
  /\ (Key \cup DomButton) \cap (ModKey \cup {"KeyV", "ControlLeft"}) = {}
  /\ \A mods \in AgentMods : \A m \in mods : m \in Mod /\ Left[m] \in ModKey
  /\ DomButton \cap Key = {} /\ "left" \in DomButton
  /\ \A k \in ModKey : Left[ModifierOf(k)] \in ModKey
  /\ None \notin ModKey
  /\ MaxActs \in Nat

Viewer == Human \cup Agent

VARIABLES
  held,      \* what a human holds down, keys and buttons
  lost,      \* what a viewer let go of without the host being told
  attached,  \* the capture's listeners are attached
  pressed,   \* InputCapture.pressed
  wire,      \* the input channel, per viewer
  allowed,   \* viewers that are authorized
  physical,  \* physicalMods: the key recorded for a modifier, or None
  transient, \* transientMods: their keys are the left ones
  tasks,     \* what is left to do of the injections under way
  down,      \* keys and buttons that are down on the host's desktop
  raced,     \* history: an event was injected into an injection under way
  misnamed,  \* history: the modifiers recorded under the one key while it is
             \*  the other that is down
  acts       \* bound

userVars == <<held, lost, attached, pressed, acts>>
hostVars == <<physical, transient, tasks, down, raced, misnamed>>
inputVars == <<userVars, wire, allowed, hostVars>>

InputInit ==
  /\ held = [v \in Human |-> {}] /\ lost = [v \in Viewer |-> {}]
  /\ attached = [v \in Human |-> TRUE]
  /\ pressed = [v \in Human |-> {}]
  /\ wire = [v \in Viewer |-> <<>>]
  /\ allowed = Viewer
  /\ physical = [m \in Mod |-> None]
  /\ transient = {}
  /\ tasks = <<>>
  /\ down = {}
  /\ raced = FALSE
  /\ misnamed = {}
  /\ acts = 0

(***************************************************************************)
(* What a human does.  Key events are heard by the document; those aimed   *)
(* at the viewer's own fields, or at another window, are not forwarded.    *)
(* mousedown is heard by the video alone, mouseup by the video and, for a  *)
(* button pressed on it, by the document.                                  *)
(***************************************************************************)
Act == acts < MaxActs /\ acts' = acts + 1

Send(v, e) == wire' = [wire EXCEPT ![v] = Append(@, e)]

ModsOf(keys) == {ModifierOf(k) : k \in keys \cap ModKey}

KeyEvent(v, t, k) == [t |-> t, key |-> k, mods |-> ModsOf(held'[v])]

KeyDown(v, k) ==
  /\ Act
  /\ held' = [held EXCEPT ![v] = @ \cup {k}]
  /\ \E onStage \in BOOLEAN :
       IF onStage /\ attached[v] THEN Send(v, KeyEvent(v, "k-down", k))
                                 ELSE UNCHANGED wire
  /\ UNCHANGED <<lost, attached, pressed, allowed, hostVars>>

KeyUp(v, k) ==
  /\ Act
  /\ k \in held[v]
  /\ held' = [held EXCEPT ![v] = @ \ {k}]
  /\ \E onStage \in BOOLEAN :
       IF onStage /\ attached[v]
         THEN Send(v, KeyEvent(v, "k-up", k)) /\ UNCHANGED lost
         ELSE lost' = [lost EXCEPT ![v] = @ \cup {k}] /\ UNCHANGED wire
  /\ UNCHANGED <<attached, pressed, allowed, hostVars>>

MouseDown(v, b, onVideo) ==
  /\ Act
  /\ b \notin held[v]
  /\ held' = [held EXCEPT ![v] = @ \cup {b}]
  /\ IF onVideo /\ attached[v]
       THEN /\ pressed' = [pressed EXCEPT ![v] = @ \cup {b}]
            /\ Send(v, [t |-> "m-down", button |-> MapButton(b)])
       ELSE UNCHANGED <<pressed, wire>>
  /\ UNCHANGED <<lost, attached, allowed, hostVars>>

\* A mutant: only the video listens to mouseup.
MouseUpOnVideo(v, b, onVideo) ==
  /\ Act
  /\ b \in held[v]
  /\ held' = [held EXCEPT ![v] = @ \ {b}]
  /\ IF attached[v] /\ onVideo
       THEN /\ pressed' = [pressed EXCEPT ![v] = @ \ {b}]
            /\ Send(v, [t |-> "m-up", button |-> MapButton(b)])
       ELSE UNCHANGED <<pressed, wire>>
  /\ UNCHANGED <<lost, attached, allowed, hostVars>>

MouseUp(v, b, onVideo) ==
  /\ Act
  /\ b \in held[v]
  /\ held' = [held EXCEPT ![v] = @ \ {b}]
  /\ IF attached[v] /\ (onVideo \/ b \in pressed[v])
       THEN /\ pressed' = [pressed EXCEPT ![v] = @ \ {b}]
            /\ Send(v, [t |-> "m-up", button |-> MapButton(b)])
       ELSE UNCHANGED <<pressed, wire>>
  /\ UNCHANGED <<lost, attached, allowed, hostVars>>

\* The stage goes away, or its effect runs again: a drag is forgotten.
Detach(v) ==
  /\ Act
  /\ attached[v]
  /\ attached' = [attached EXCEPT ![v] = FALSE]
  /\ lost' = [lost EXCEPT ![v] = @ \cup pressed[v]]
  /\ pressed' = [pressed EXCEPT ![v] = {}]
  /\ UNCHANGED <<held, wire, allowed, hostVars>>

Attach(v) ==
  /\ ~attached[v]
  /\ attached' = [attached EXCEPT ![v] = TRUE]
  /\ UNCHANGED <<held, lost, pressed, acts, wire, allowed, hostVars>>

(***************************************************************************)
(* What an agent does: press_key is a pair of events that carry modifiers  *)
(* without keys of their own, type_text is a clipboard event.              *)
(***************************************************************************)
PressKeyTool(v, k, mods) ==
  /\ Act
  /\ wire' = [wire EXCEPT ![v] = @ \o <<[t |-> "k-down", key |-> k, mods |-> mods],
                                        [t |-> "k-up", key |-> k, mods |-> mods]>>]
  /\ UNCHANGED <<held, lost, attached, pressed, allowed, hostVars>>

TypeTextTool(v) ==
  /\ Act
  /\ Send(v, [t |-> "clipboard"])
  /\ UNCHANGED <<held, lost, attached, pressed, allowed, hostVars>>

Released(events) ==
  {e.key : e \in {f \in Range(events) : f.t = "k-up"}}
    \cup {e.button : e \in {f \in Range(events) : f.t = "m-up"}}

\* A viewer leaves, or is denied: what it still sends goes nowhere, and the
\* host lets go of nothing.
Leave(v) ==
  /\ v \in allowed
  /\ allowed' = allowed \ {v}
  /\ wire' = [wire EXCEPT ![v] = <<>>]
  /\ lost' = [lost EXCEPT ![v] = @ \cup (IF v \in Human THEN held[v] ELSE {})
                                   \cup Released(wire[v])]
  /\ UNCHANGED <<held, attached, pressed, acts, hostVars>>

(***************************************************************************)
(* The injector.  A task is what is left of an injection at an await:      *)
(*   press: the modifiers of a k-down not visited yet, then its key;       *)
(*   look:  a k-up that has released its key and has yet to look at the    *)
(*          transient modifiers;                                           *)
(*   sweep: the transient modifiers it found and has not visited yet;      *)
(*   calls: native calls still to be made, whatever the tables say.        *)
(* Each operator runs one segment; `others' are the remaining tasks.       *)
(***************************************************************************)
IsDown(m) == physical[m] # None \/ m \in transient

\* applyTransientModifiers(): the next one that is not down, then the key.
PressStep(task, others) ==
  LET need == {m \in task.todo : ~IsDown(m)}
  IN  /\ \/ /\ need = {}
            /\ down' = down \cup {task.key}
            /\ tasks' = others
            /\ UNCHANGED transient
         \/ \E m \in need :
              /\ \A n \in need : Rank[m] <= Rank[n]
              /\ transient' = transient \cup {m}
              /\ down' = down \cup {Left[m]}
              /\ tasks' = Append(others, [task EXCEPT !.todo = {n \in @ : Rank[n] > Rank[m]}])
      /\ UNCHANGED <<physical, misnamed>>

\* The task of a sweep, if it has anything left to visit.
Sweep(todo, others) ==
  IF todo = {} THEN others ELSE Append(others, [op |-> "sweep", todo |-> todo])

\* A mutant: what has been promoted meanwhile is released all the same.
SweepStepUnchecked(todo, others) ==
  /\ \/ todo = {} /\ tasks' = others /\ UNCHANGED <<transient, down>>
     \/ \E m \in todo :
          /\ transient' = transient \ {m}
          /\ down' = down \ {Left[m]}
          /\ tasks' = Sweep(todo \ {m}, others)
  /\ UNCHANGED <<physical, misnamed>>

\* releaseTransientModifiers(), up to a modifier that is not physically held.
\* Which comes first depends on the order in which they were pressed.
SweepStep(todo, others) ==
  LET free == {m \in todo : physical[m] = None}
  IN  /\ \/ /\ free = {}
            /\ transient' = transient \ todo
            /\ tasks' = others
            /\ UNCHANGED down
         \/ \E m \in free, passed \in SUBSET (todo \ free) :
              /\ transient' = transient \ (passed \cup {m})
              /\ down' = down \ {Left[m]}
              /\ tasks' = Sweep(todo \ (passed \cup {m}), others)
      /\ UNCHANGED <<physical, misnamed>>

CallStep(calls, others) ==
  /\ down' = IF Head(calls)[1] = "press" THEN down \cup {Head(calls)[2]}
                                         ELSE down \ {Head(calls)[2]}
  /\ tasks' = IF Tail(calls) = <<>> THEN others
              ELSE Append(others, [op |-> "calls", calls |-> Tail(calls)])
  /\ UNCHANGED <<physical, transient, misnamed>>

\* A modifier's own key-down: recorded under the key the viewer used, which
\* is pressed unless the modifier is down already, by whichever key.
PressModifier(k) ==
  LET m == ModifierOf(k)
  IN  /\ transient' = transient \ {m}
      /\ physical' = IF physical[m] # None THEN physical
                                           ELSE [physical EXCEPT ![m] = k]
      /\ down' = IF IsDown(m) THEN down ELSE down \cup {k}
      /\ misnamed' = IF m \in transient /\ k # Left[m] THEN misnamed \cup {m} ELSE misnamed
      /\ UNCHANGED tasks

\* A mutant: only a modifier that was pressed on its own behalf is released.
ReleaseModifierPhysical(k) ==
  LET m == ModifierOf(k)
  IN  /\ down' = down \ {physical[m]}
      /\ physical' = [physical EXCEPT ![m] = None]
      /\ transient' = transient \ {m}
      /\ UNCHANGED <<tasks, misnamed>>

\* A modifier's own key-up: releases the key that is recorded.
ReleaseModifier(k) ==
  LET m == ModifierOf(k)
  IN  /\ down' = down \ (IF physical[m] # None THEN {physical[m]}
                         ELSE IF m \in transient THEN {Left[m]} ELSE {})
      /\ physical' = [physical EXCEPT ![m] = None]
      /\ transient' = transient \ {m}
      /\ UNCHANGED <<tasks, misnamed>>

\* inject() and paste() up to their first await.
Inject(e) ==
  CASE e.t = "k-down" /\ e.key \in ModKey -> PressModifier(e.key)
    [] e.t = "k-down" /\ e.key \in Key ->
         PressStep([op |-> "press", key |-> e.key, todo |-> e.mods], tasks)
    [] e.t = "k-up" /\ e.key \in ModKey -> ReleaseModifier(e.key)
    [] e.t = "k-up" /\ e.key \in Key ->
         /\ down' = down \ {e.key}
         /\ tasks' = Append(tasks, [op |-> "look"])
         /\ UNCHANGED <<physical, transient, misnamed>>
    [] e.t = "m-down" ->
         /\ tasks' = Append(tasks, [op |-> "calls", calls |-> <<<<"press", e.button>>>>])
         /\ UNCHANGED <<physical, transient, down, misnamed>>
    [] e.t = "m-up" ->
         /\ tasks' = Append(tasks, [op |-> "calls", calls |-> <<<<"release", e.button>>>>])
         /\ UNCHANGED <<physical, transient, down, misnamed>>
    [] e.t = "clipboard" ->
         CallStep(<<<<"press", "ControlLeft">>, <<"press", "KeyV">>,
                    <<"release", "KeyV">>, <<"release", "ControlLeft">>>>, tasks)

\* The channel delivers, routeInput() drops what is not authorized, and
\* main.ts calls the injector whatever is under way.
Deliver(v) ==
  /\ wire[v] # <<>>
  /\ wire' = [wire EXCEPT ![v] = Tail(@)]
  /\ IF v \in allowed
       THEN Inject(Head(wire[v])) /\ raced' = (raced \/ tasks # <<>>)
       ELSE UNCHANGED hostVars
  /\ UNCHANGED <<userVars, allowed>>

\* A native call returned: the task that awaited it goes on.
Resume(i) ==
  /\ i \in DOMAIN tasks
  /\ LET task   == tasks[i]
         others == RemoveAt(tasks, i)
     IN  CASE task.op = "press" -> PressStep(task, others)
           [] task.op = "look"  -> SweepStep(transient, others)
           [] task.op = "sweep" -> SweepStep(task.todo, others)
           [] task.op = "calls" -> CallStep(task.calls, others)
  /\ UNCHANGED <<userVars, wire, allowed, raced>>

InputNext ==
  \/ \E v \in Human :
       \/ \E k \in Key \cup ModKey : KeyDown(v, k) \/ KeyUp(v, k)
       \/ \E b \in DomButton, onVideo \in BOOLEAN :
            MouseDown(v, b, onVideo) \/ MouseUp(v, b, onVideo)
       \/ Detach(v) \/ Attach(v)
  \/ \E v \in Agent :
       \/ \E k \in Key, mods \in AgentMods : PressKeyTool(v, k, mods)
       \/ TypeTextTool(v)
  \/ \E v \in Viewer : Leave(v) \/ Deliver(v)
  \/ \E i \in DOMAIN tasks : Resume(i)

InputSpec == InputInit /\ [][InputNext]_inputVars

-----------------------------------------------------------------------------

NativeCall == {"press", "release"} \X (Key \cup ModKey \cup DomButton \cup {"KeyV", "ControlLeft"})

Task == [op : {"press"}, key : Key, todo : SUBSET Mod] \cup [op : {"look"}]
        \cup [op : {"sweep"}, todo : SUBSET Mod] \cup [op : {"calls"}, calls : Seq(NativeCall)]

Event == [t : {"k-down", "k-up"}, key : Key \cup ModKey, mods : SUBSET Mod]
         \cup [t : {"m-down", "m-up"}, button : DomButton] \cup [t : {"clipboard"}]

InputTypeOK ==
  /\ held \in [Human -> SUBSET (Key \cup ModKey \cup DomButton)]
  /\ lost \in [Viewer -> SUBSET (Key \cup ModKey \cup DomButton)]
  /\ attached \in [Human -> BOOLEAN]
  /\ pressed \in [Human -> SUBSET DomButton]
  /\ wire \in [Viewer -> Seq(Event)]
  /\ allowed \subseteq Viewer
  /\ physical \in [Mod -> ModKey \cup {None}]
  /\ transient \subseteq Mod
  /\ \A m \in transient : physical[m] = None
  /\ tasks \in Seq(Task)
  /\ raced \in BOOLEAN
  /\ misnamed \subseteq Mod
  /\ acts \in 0 .. MaxActs

\* A paste still has to release its Ctrl.
Pasting == \E i \in DOMAIN tasks : /\ tasks[i].op = "calls"
                                   /\ <<"release", "ControlLeft">> \in Range(tasks[i].calls)

(***************************************************************************)
(* No modifier key is down that the injector does not know of, at any      *)
(* await of any interleaving: such a key would stay down, and turn every   *)
(* key anyone presses into a shortcut.  The one way to lose sight of a key *)
(* is the promotion of a modifier under its right key, while it is the     *)
(* left one that was pressed for it.                                       *)
(***************************************************************************)
NoStrayModifier ==
  \A m \in Mod : \A k \in down \cap ModKey : ModifierOf(k) = m =>
    \/ physical[m] = k
    \/ m \in transient \cup misnamed /\ k = Left[m]
    \/ Pasting /\ k = "ControlLeft"

(***************************************************************************)
(* The shape of the state (a modifier is physical or transient, never both) *)
(* and the modifiers in it.                                                *)
(***************************************************************************)
InputInv == InputTypeOK /\ NoStrayModifier

(***************************************************************************)
(* A modifier that is held by its own key stays down until its own key-up, *)
(* through any other key's release (the synthetic Ctrl of a paste aside).  *)
(***************************************************************************)
HeldUntilOwnUp ==
  [][\A m \in Mod :
       physical[m] # None /\ physical'[m] = physical[m] /\ physical[m] \in down
         => physical[m] \in down' \/ Pasting]_inputVars

(***************************************************************************)
(* Nothing is stuck: when all events have been delivered one at a time,    *)
(* whatever is down on the host is held down by a viewer, or its release   *)
(* was never sent; the left key of a modifier that was promoted under its  *)
(* right one aside.                                                        *)
(***************************************************************************)
Has(v) == lost[v] \cup (IF v \in Human THEN held[v] ELSE {})

HeldBySomeone(x) ==
  \E v \in Viewer :
    \/ x \in Has(v)
    \/ x \in ModKey /\ ModifierOf(x) \in ModsOf(Has(v))
    \/ x \in ModKey /\ lost[v] \cap Key # {}
    \/ \E b \in Has(v) \cap DomButton : MapButton(b) = x

AtRest == tasks = <<>> /\ \A v \in Viewer : wire[v] = <<>>

Misnamed(x) == \E m \in misnamed : x = Left[m]

NothingStuck == AtRest /\ ~raced => \A x \in down : HeldBySomeone(x) \/ Misnamed(x)
=============================================================================
