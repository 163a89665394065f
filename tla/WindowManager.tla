--------------------------- MODULE WindowManager ---------------------------
(***************************************************************************)
(* WindowManager (loader/pm_types.rs): the windows of a Presentation       *)
(* Manager program, the stack of its frames and dialogs, the active frame  *)
(* and the marks that ask for a new picture of the desktop.  All of it is  *)
(* behind window_mgr; an operator here is what one method does while the   *)
(* lock is held.                                                           *)
(*                                                                         *)
(* Handles are numbered from 1; 0 is no window.  Geometry, text, styles    *)
(* and parents are left out: wherever the code tests them the model        *)
(* chooses.                                                                *)
(***************************************************************************)
EXTENDS Naturals, Sequences, FiniteSets, SequencesExt

CONSTANT MaxWindows      \* bound on the windows a process makes

ASSUME WindowAssumption == MaxWindows \in Nat

VARIABLES windows,           \* never removed: a handle is an index
          frame_to_client,
          z_order,           \* from the bottom-most to the top-most
          focused_hwnd,
          capture_hwnd,
          dirty              \* whether the set of changed windows is not empty

wmVars == <<windows, frame_to_client, z_order, focused_hwnd, capture_hwnd, dirty>>

Classes == {"frame", "client", "dialog"}
Hwnds   == DOMAIN windows
Frames  == DOMAIN frame_to_client
Stacked == Range(z_order)

WindowManagerInit ==
  /\ windows = <<>>
  /\ frame_to_client = <<>>
  /\ z_order = <<>>
  /\ focused_hwnd = 0
  /\ capture_hwnd = 0
  /\ dirty = FALSE

\* OS2Window.  visible is only read of a window on the stack.
Window(class, visible) == [class |-> class, visible |-> visible]

RoomFor(n)        == Len(windows) + n <= MaxWindows
create_window(ws) == windows' = windows \o ws

client_to_frame(h) ==
  IF \E f \in Frames : frame_to_client[f] = h THEN CHOOSE f \in Frames : frame_to_client[f] = h ELSE h

\* Where push_msg sends what is meant for a frame.
Client(h) == IF h \in Frames THEN frame_to_client[h] ELSE h

\* Which windows are marked is never read, only whether any is.
mark_dirty == dirty' = TRUE

\* Vec::retain: the places that are kept, and the windows at them in order.
Kept(h)    == {i \in DOMAIN z_order : z_order[i] # h}
Nth(K, j)  == CHOOSE i \in K : Cardinality({k \in K : k <= i}) = j
Without(h) == [j \in 1 .. Cardinality(Kept(h)) |-> z_order[Nth(Kept(h), j)]]

\* Mutant: a new order marks nothing.
MarkNothing(z) == UNCHANGED dirty

mark_all_dirty(z) == dirty' = (dirty \/ z # <<>>)
Restacked(z)   == z_order' = z /\ mark_all_dirty(z)
z_push_top(h)  == Restacked(Append(Without(h), h))
z_push_bottom(h) == Restacked(<<h>> \o Without(h))

z_insert_behind(h, behind) ==
  LET z == Without(h)
  IN  IF behind \in Range(z)
      THEN \E i \in DOMAIN z : z[i] = behind /\ Restacked(InsertAt(z, i, h))
      ELSE Restacked(Append(z, h))

TopOf(z) == IF z = <<>> THEN 0 ELSE Last(z)

\* Mutant: focus stays with the window that leaves the stack.
RemoveKeepsFocus(h) == Restacked(Without(h)) /\ UNCHANGED focused_hwnd

z_remove(h) ==
  /\ Restacked(Without(h))
  /\ focused_hwnd' = IF focused_hwnd = h THEN TopOf(Without(h)) ELSE focused_hwnd

\* The point of a click is left out: any visible window of the stack may be
\* the first one under it, or none.
z_hit_test == {h \in Stacked : windows[h].visible}

WindowsOK ==
  /\ windows \in Seq([class : Classes, visible : BOOLEAN])
  /\ Frames \subseteq Hwnds /\ Range(frame_to_client) \subseteq Hwnds
  /\ Stacked \subseteq Hwnds
  /\ {focused_hwnd, capture_hwnd} \subseteq {0} \cup Hwnds
  /\ dirty \in BOOLEAN

\* The stack holds each of its windows once and every frame that is not
\* destroyed, and nothing else but dialogs; the active window is on it.
\* Keyboard input, the picture and the next click all go by these two
\* fields, which a dozen calls and the events of the user change.
StackMatches ==
  /\ \A i, j \in DOMAIN z_order : z_order[i] = z_order[j] => i = j
  /\ Frames \subseteq Stacked
  /\ \A h \in Stacked \ Frames : windows[h].class = "dialog"
  /\ focused_hwnd \in {0} \cup Stacked
=============================================================================
