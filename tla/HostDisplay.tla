------------------------------ MODULE HostDisplay ------------------------------
(***************************************************************************)
(* Where a viewer's pointer lands: the session of HostCapture, whose       *)
(* switches tell the main process which source is shared                   *)
(* (`ss:set-active-display' in packages/host/src/main.ts), the geometry    *)
(* the injector is given for it (packages/host/src/input-injector.ts), and *)
(* the arithmetic from a normalized point to a pixel of the virtual        *)
(* desktop (packages/host/src/monitor.ts).                                 *)
(*                                                                         *)
(* The messages arrive in order, but each looks its source up on its own   *)
(* and the answers come in any order.  The displays stay as they are.      *)
(* Lengths are in pixels; a scale is in percent, so that a scaled length   *)
(* is a number of hundredths, and a pointer is a number of Grid-ths.       *)
(***************************************************************************)
EXTENDS HostCapture, Integers

CONSTANTS Layout,    \* display -> [scale, x, y]; for each axis its logical
                     \*  extent, and its origin in pixels, as
                     \*  screen.dipToScreenPoint() tells it
          DisplayOf, \* source -> its display, Nothing for a window
          Primary,   \* the display whose size the injector falls back to
          Nothing,   \* null
          Grid       \* the steps of a normalized coordinate from 0 to 1

Display == DOMAIN Layout

\* A display has a pixel; the primary one is where the desktop begins.
ASSUME DisplayAssumption ==
  /\ \A d \in Display :
       /\ Layout[d].scale \in Nat
       /\ \A a \in {"x", "y"} : /\ Layout[d][a].extent \in Nat
                               /\ Layout[d][a].origin \in Int
                               /\ Layout[d][a].extent * Layout[d].scale >= 100
  /\ \A a \in {"x", "y"} : Layout[Primary][a].origin = 0
  /\ DisplayOf \in [Source -> Display \cup {Nothing}] /\ Nothing \notin Display
  /\ Primary \in Display
  /\ Grid \in Nat \ {0}

VARIABLES
  lookups,  \* source -> how many lookups for it have not been answered
  geometry, \* the injector's displayGeometry
  raced     \* history: since the lookups last came to rest, one was made
            \*  while another source was being looked up

displayVars == <<lookups, geometry, raced>>
allVars == <<vars, displayVars>>

Quiet == [s \in Source |-> 0]

\* startSession() names its source before it starts the session.
DisplayInit ==
  /\ Init
  /\ lookups = [Quiet EXCEPT ![Initial] = 1]
  /\ geometry = Nothing
  /\ raced = FALSE

----------------------------------------------------------------------------
(* The active display *)

\* n messages for source s, and the lookups they start.
SetActiveDisplay(s, n) ==
  /\ lookups' = [lookups EXCEPT ![s] = @ + n]
  /\ raced' = (lookups # Quiet /\ (raced \/ \E r \in Source \ {s} : lookups[r] > 0))
  /\ UNCHANGED geometry

\* Mutant: the session does not tell of the switches viewers ask for.
AnnouncePicks(w) ==
  IF phase'[w] = "done" /\ w \in Pick
  THEN SetActiveDisplay(chosen[w], 1)
  ELSE UNCHANGED displayVars

\* onActiveDisplay() at the end of a switch, and once more in changeSource()
\* when the operator's pick returns.
Announce(w) ==
  IF phase'[w] = "done"
  THEN SetActiveDisplay(chosen[w], IF w \in Pick THEN 2 ELSE 1)
  ELSE UNCHANGED displayVars

\* A screen has a display; a window is not among the screens.
LookedUp(s) ==
  /\ lookups[s] > 0
  /\ lookups' = [lookups EXCEPT ![s] = @ - 1]
  /\ geometry' = DisplayOf[s]
  /\ UNCHANGED <<vars, raced>>

DisplayNext ==
  \/ /\ \/ \E v \in Viewer : ViewerJoins(v) \/ Authorize(v) \/ ViewerLeaves(v)
        \/ \E w \in Switch : CaptureFails(w) \/ \E s \in Source : RequestSwitch(w, s)
        \/ Stop
     /\ UNCHANGED displayVars
  \/ \E w \in Switch : Captured(w) /\ Announce(w)
  \/ \E v \in Viewer : Swapped(v) /\ Announce(Head(queue[v]))
  \/ \E w \in Switch : PickAgain(w) /\ SetActiveDisplay(active, 1)
  \/ \E s \in Source : LookedUp(s)

DisplaySpec == DisplayInit /\ [][DisplayNext]_allVars

----------------------------------------------------------------------------
(* The arithmetic, for one axis a \in {"x", "y"} *)

\* Math.round() of p / q.
Round(p, q) == (2 * p + q) \div (2 * q)

Clamp(n) == IF n < 0 THEN 0 ELSE IF n > Grid THEN Grid ELSE n

\* The physical extent in hundredths, and the true physical origin.
PhysicalRect(d, a) ==
  [extent |-> Layout[d][a].extent * Layout[d].scale, origin |-> Layout[d][a].origin]

\* The last pixel's coordinate may be a fraction; the rounded step may exceed it.
Along(n, extent) ==
  LET last == extent - 100
      step == 100 * Round(Clamp(n) * last, 100 * Grid)
  IN IF step > last THEN last ELSE step

PhysicalPoint(n, rect) == Round(100 * rect.origin + Along(n, rect.extent), 100)

\* resolvePoint(): without a geometry, pixels of the primary display.
ResolvePoint(n, a) ==
  IF geometry # Nothing
  THEN PhysicalPoint(n, PhysicalRect(geometry, a))
  ELSE PhysicalPoint(n, [PhysicalRect(Primary, a) EXCEPT !.origin = 0])

----------------------------------------------------------------------------
(* Safety *)

\* The display as Electron describes it, whose scaled extent may end in the
\* middle of a pixel.
OnDisplay(p, d, a) ==
  LET from == p - Layout[d][a].origin
  IN 0 <= from /\ 100 * from < Layout[d][a].extent * Layout[d].scale

\* Nothing is under way or was cut short, and no lookup was overtaken.
Settled ==
  /\ ~protected /\ \A w \in Switch : phase[w] \notin {"swap", "abandoned"}
  /\ lookups = Quiet /\ ~raced

(***************************************************************************)
(* monitor.ts:11, pointer coordinates are translated "into the correct     *)
(* VIRTUAL-DESKTOP pixel coordinates for the *shared* display": in a       *)
(* settled `open' session every point a viewer sends, off the edge or not, *)
(* lands on the display of the track it is looking at, whoever switched,   *)
(* in whatever order; on the primary one when that is a window.            *)
(***************************************************************************)
PointerLandsOnScreen ==
  Settled =>
    \A v \in ToSet(conns), a \in {"x", "y"}, n \in -1 .. Grid + 1 :
      LET screen == DisplayOf[SourceOf(Head(senders[v]))]
      IN OnDisplay(ResolvePoint(n, a), IF screen = Nothing THEN Primary ELSE screen, a)

=============================================================================
