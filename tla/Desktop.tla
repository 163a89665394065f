------------------------------ MODULE Desktop ------------------------------
(***************************************************************************)
(* The desktop of a Presentation Manager program: the guest's window calls *)
(* (loader/pm_win.rs), its drawing calls (loader/pm_gpi.rs), the channel   *)
(* of GUI messages they feed (gui/message.rs) and the main thread, which   *)
(* empties the channel, polls the user's events and composites the picture *)
(* (gui/renderer.rs, gui/sdl2_renderer.rs).                                *)
(*                                                                         *)
(* A guest call is one step for each time it takes window_mgr.  The main   *)
(* thread composites in two: it copies the stack with the lock held, and   *)
(* clears the marks with the lock held again after it has drawn.           *)
(*                                                                         *)
(* The messages that calls and events post to the guest's queues are Pm's; *)
(* calls and events that do nothing else (controls, keys, the mouse over a *)
(* window) are there.                                                      *)
(***************************************************************************)
EXTENDS WindowManager

CONSTANTS Threads,       \* guest threads
          MaxChannel     \* bound on the messages in the channel

ASSUME DesktopAssumption == MaxChannel \in Nat

VARIABLES gui_rx,        \* the channel
          pc,            \* where the main thread is in its loop
          drag,          \* the window under drag_state or resize_state, or 0
          boxes,         \* guest threads inside WinMessageBox
          exit_requested,
          changed        \* history: no, yes, late: what a composite reads has
                         \* changed since the last one read it, or while it drew

guiVars     == <<gui_rx, pc, drag>>
deskVars    == <<wmVars, guiVars, boxes, exit_requested, changed>>

DesktopInit ==
  /\ WindowManagerInit
  /\ gui_rx = <<>> /\ pc = "drain" /\ drag = 0
  /\ boxes = {}
  /\ exit_requested = FALSE
  /\ changed = "no"

----------------------------------------------------------------------------
(* The guest's calls.                                                      *)

\* A GUIMessage.  The window it names only says whose pixels change.
Pixels   == <<"pixels">>     \* CreateWindow, ResizeWindow, ShowWindow, Draw..., SetMouseCapture
Announce == <<"present">>    \* PresentBuffer

\* GUISender::send: the channel is gone once the main thread left its loop.
Open       == pc # "closed"
send(msgs) == gui_rx' = IF Open THEN gui_rx \o msgs ELSE gui_rx
HasRoom    == Len(gui_rx) < MaxChannel

\* What a composite reads: the visible windows, which of them is active, and
\* which are below which.
Visible    == {i \in DOMAIN z_order : windows[z_order[i]].visible}
Covered(i) == {z_order[j] : j \in {k \in Visible : k < i}}
Picture    == {<<z_order[i], z_order[i] = focused_hwnd, Covered(i)>> : i \in Visible}

Drawing == pc \in {"presenting", "exposing", "ticking"}

Watch == changed' = IF Picture' = Picture \/ changed = "late" THEN changed
                    ELSE IF Drawing THEN "late" ELSE "yes"

\* A call that changes the windows and no state of the main thread's.
Sends(msgs) == send(msgs) /\ Watch /\ UNCHANGED <<pc, drag, boxes, exit_requested>>

\* The call's WM_CREATE, sent to the client before it returns, is Vcpu's.
WinCreateStdWindow(visible) ==
  LET f == Len(windows) + 1
  IN
  /\ RoomFor(2) /\ HasRoom
  /\ create_window(<<Window("frame", visible), Window("client", FALSE)>>)
  /\ frame_to_client' = [h \in Frames \cup {f} |-> IF h = f THEN f + 1 ELSE frame_to_client[h]]
  /\ z_push_top(f)
  /\ focused_hwnd' = f
  /\ UNCHANGED capture_hwnd
  /\ Sends(<<Pixels>>)

\* A dialog goes on top of the stack and is not made active.
create_dialog_from_template ==
  LET d == Len(windows) + 1
  IN
  /\ RoomFor(1)
  /\ create_window(<<Window("dialog", TRUE)>>)
  /\ z_push_top(d)
  /\ UNCHANGED <<frame_to_client, focused_hwnd, capture_hwnd>>
  /\ Sends(<<>>)

\* The dialog procedure returned and the dialog was dismissed meanwhile.
DismissedDialogReturns(d) ==
  /\ windows[d].class = "dialog" /\ HasRoom
  /\ z_remove(d)
  /\ UNCHANGED <<windows, frame_to_client, capture_hwnd>>
  /\ Sends(<<Announce>>)

ShownOrHidden(h, show) ==
  IF windows[h].class \in {"frame", "dialog"} THEN [windows EXCEPT ![h].visible = show] ELSE windows

WinShowWindow(h, show) ==
  /\ HasRoom
  /\ windows' = ShownOrHidden(h, show)
  /\ mark_dirty
  /\ UNCHANGED <<frame_to_client, z_order, focused_hwnd, capture_hwnd>>
  /\ Sends(<<Pixels>>)

\* Only a frame leaves anything behind to clean; the window itself stays.
WinDestroyWindow(h) ==
  /\ h \in Frames /\ HasRoom
  /\ z_remove(h)
  /\ frame_to_client' = [f \in Frames \ {h} |-> frame_to_client[f]]
  /\ UNCHANGED <<windows, capture_hwnd>>
  /\ Sends(<<Pixels>>)

WinSetActiveWindow(h) ==
  LET f == client_to_frame(h)
  IN
  /\ f \in Frames
  /\ focused_hwnd' = f
  /\ z_push_top(f)
  /\ UNCHANGED <<windows, frame_to_client, capture_hwnd>>
  /\ Sends(<<>>)

\* SWP_ZORDER, for a frame: to the top, to the bottom, or behind another.
SWP_ZORDER(h) == \/ z_push_top(h) \/ z_push_bottom(h)
                 \/ \E b \in Hwnds \ {h} : z_insert_behind(h, b)

\* One flag of the call at a time.  Moving and sizing change what is left out.
WinSetWindowPos(h, fl) ==
  /\ HasRoom
  /\ windows' = IF fl \in {"SWP_SHOW", "SWP_HIDE"} THEN ShownOrHidden(h, fl = "SWP_SHOW") ELSE windows
  /\ \/ fl = "SWP_ZORDER" /\ h \in Frames /\ SWP_ZORDER(h) /\ UNCHANGED focused_hwnd
     \/ fl = "SWP_ACTIVATE" /\ h \in Frames /\ z_push_top(h) /\ focused_hwnd' = h
     \/ fl \in {"SWP_SIZE", "SWP_SHOW", "SWP_HIDE"} /\ mark_dirty /\ UNCHANGED <<z_order, focused_hwnd>>
  /\ UNCHANGED <<frame_to_client, capture_hwnd>>
  /\ Sends(IF fl \in {"SWP_ZORDER", "SWP_ACTIVATE"} THEN <<>> ELSE <<Pixels>>)

WinSetWindowText(h) ==
  /\ mark_dirty
  /\ UNCHANGED <<windows, frame_to_client, z_order, focused_hwnd, capture_hwnd>>
  /\ Sends(<<>>)

WinInvalidateRect(h) ==
  /\ mark_dirty
  /\ UNCHANGED <<windows, frame_to_client, z_order, focused_hwnd, capture_hwnd>>
  /\ Sends(<<>>)

\* Destroying the window does not give the capture back.
WinSetCapture(h) ==
  /\ HasRoom
  /\ capture_hwnd' = h
  /\ UNCHANGED <<windows, frame_to_client, z_order, focused_hwnd, dirty>>
  /\ Sends(<<Pixels>>)

\* The drawing calls, on the frame of a presentation space's window.
Draw    == HasRoom /\ UNCHANGED wmVars /\ Sends(<<Pixels>>)
Present == HasRoom /\ UNCHANGED wmVars /\ Sends(<<Announce>>)

GpiBox          == Draw
GpiLine         == Draw
GpiCharStringAt == Draw
GpiCharString   == Draw
GpiErase        == Draw
GpiFullArc      == Draw
WinFillRect     == Draw
WinEndPaint     == Present
WinUpdateWindow == Present

\* The picture dispatch_builtin_control draws of a dialog, or of a menu.
PaintControl == HasRoom /\ UNCHANGED wmVars /\ Sends(<<Pixels, Announce>>)

DrawingCall ==
  \/ GpiBox \/ GpiLine \/ GpiCharStringAt \/ GpiCharString \/ GpiErase \/ GpiFullArc
  \/ WinFillRect \/ WinEndPaint \/ WinUpdateWindow

\* Without the main thread the call answers MBID_OK by itself.
WinMessageBox(t) ==
  /\ t \notin boxes /\ HasRoom /\ Open
  /\ boxes' = boxes \cup {t}
  /\ send(<<<<"box", t>>>>)
  /\ UNCHANGED <<wmVars, pc, drag, exit_requested, changed>>

\* recv fails when the sender was dropped with the channel.
BoxDropped(t) ==
  /\ t \in boxes /\ pc = "closed"
  /\ boxes' = boxes \ {t}
  /\ UNCHANGED <<wmVars, guiVars, exit_requested, changed>>

DosExit == /\ ~exit_requested /\ exit_requested' = TRUE
           /\ UNCHANGED <<wmVars, guiVars, boxes, changed>>

----------------------------------------------------------------------------
(* The main thread: run_pm_loop.                                           *)

\* composite_and_present, first half: with no mark and no drag there is
\* nothing to do; otherwise the stack is copied.
Composite(marks, dragging, during, after) ==
  IF marks \/ dragging
  THEN pc' = during /\ changed' = "no"
  ELSE pc' = after /\ UNCHANGED changed

\* Second half: the copy is drawn and presented, and the marks are cleared,
\* those made since the copy too.
FinishPicture ==
  /\ Drawing
  /\ pc' = CASE pc = "presenting" -> "drain" [] pc = "exposing" -> "poll" [] OTHER -> "polled"
  /\ dirty' = FALSE
  /\ UNCHANGED <<windows, frame_to_client, z_order, focused_hwnd, capture_hwnd,
                 gui_rx, drag, boxes, exit_requested, changed>>

\* Messages that change the pixels of a frame buffer, which are left out,
\* or nothing: positions and visibility are read from the window itself.
BufferMessage(m) ==
  /\ m = Pixels
  /\ UNCHANGED <<wmVars, pc, boxes, changed>>

PresentBuffer(m) ==
  /\ m = Announce
  /\ mark_dirty
  /\ Composite(TRUE, drag # 0, "presenting", "drain")
  /\ UNCHANGED <<windows, frame_to_client, z_order, focused_hwnd, capture_hwnd, boxes>>

\* Mutant: the answer is not sent back.
BoxUnanswered(m) == m[1] = "box" /\ UNCHANGED <<wmVars, pc, boxes, changed>>

\* The box is modal for the main thread too: it waits for the user's answer.
ShowMessageBox(m) ==
  /\ m[1] = "box"
  /\ boxes' = boxes \ {m[2]}
  /\ UNCHANGED <<wmVars, pc, changed>>

handle_message ==
  /\ pc = "drain" /\ gui_rx # <<>>
  /\ gui_rx' = Tail(gui_rx)
  /\ LET m == Head(gui_rx)
     IN  BufferMessage(m) \/ PresentBuffer(m) \/ ShowMessageBox(m)
  /\ UNCHANGED <<drag, exit_requested>>

poll_events ==
  /\ pc = "drain" /\ gui_rx = <<>>
  /\ pc' = "poll"
  /\ UNCHANGED <<wmVars, gui_rx, drag, boxes, exit_requested, changed>>

\* The channel goes with the loop, and the senders of answers in it.
Leave == pc' = "closed" /\ gui_rx' = <<>>

Event == pc = "poll" /\ UNCHANGED <<gui_rx, boxes>>

\* The desktop window is closed: the program is told and the loop is left.
QuitEvent ==
  /\ pc = "poll"
  /\ exit_requested' = TRUE
  /\ Leave
  /\ UNCHANGED <<wmVars, drag, boxes, changed>>

\* The window under the mouse: the captured one, or the first hit.
Targets == IF capture_hwnd # 0 THEN {capture_hwnd} ELSE z_hit_test

\* The window follows the mouse.
DragMotion ==
  /\ Event
  /\ drag # 0
  /\ mark_dirty
  /\ UNCHANGED <<windows, frame_to_client, z_order, focused_hwnd, capture_hwnd, pc, drag, exit_requested, changed>>

\* A click activates the frame; on the title bar, the system menu or the
\* border it starts a drag or a resize, anywhere else it is the program's.
MouseButtonDown(h, grabs) ==
  LET f == client_to_frame(h)
  IN
  /\ Event
  /\ h \in Targets
  /\ grabs => windows[h].class = "frame"
  /\ IF f \in Frames /\ focused_hwnd # f THEN focused_hwnd' = f /\ z_push_top(f)
                                         ELSE UNCHANGED <<focused_hwnd, z_order, dirty>>
  /\ drag' = IF grabs THEN h ELSE drag
  /\ UNCHANGED <<windows, frame_to_client, capture_hwnd, pc, exit_requested>>
  /\ Watch

\* The end of a drag or a resize; the drag is over when the picture is made,
\* so it is made for the marks alone.
MouseButtonUp ==
  /\ Event
  /\ drag # 0 /\ drag' = 0
  /\ Composite(dirty, FALSE, "exposing", "poll")
  /\ UNCHANGED <<wmVars, exit_requested>>

ExposedEvent ==
  /\ Event
  /\ Composite(dirty, drag # 0, "exposing", "poll")
  /\ UNCHANGED <<wmVars, drag, exit_requested>>

\* After the events, every 16 ms: a picture if there is need.
Tick ==
  /\ Event
  /\ Composite(dirty, drag # 0, "ticking", "polled")
  /\ UNCHANGED <<wmVars, drag, exit_requested>>

EndRound ==
  /\ pc = "polled"
  /\ IF exit_requested THEN Leave ELSE pc' = "drain" /\ UNCHANGED gui_rx
  /\ UNCHANGED <<wmVars, drag, boxes, exit_requested, changed>>

UserEvent == \/ QuitEvent \/ DragMotion \/ MouseButtonUp \/ ExposedEvent
             \/ \E h \in Hwnds, grabs \in BOOLEAN : MouseButtonDown(h, grabs)

MainThread == FinishPicture \/ handle_message \/ poll_events \/ Tick \/ EndRound

WindowCall ==
  \/ \E visible \in BOOLEAN : WinCreateStdWindow(visible)
  \/ create_dialog_from_template
  \/ \E h \in Hwnds : \/ DismissedDialogReturns(h) \/ WinDestroyWindow(h) \/ WinSetActiveWindow(h)
                      \/ \E show \in BOOLEAN : WinShowWindow(h, show)
                      \/ \E fl \in {"SWP_ZORDER", "SWP_ACTIVATE", "SWP_SIZE", "SWP_SHOW", "SWP_HIDE"} : WinSetWindowPos(h, fl)
                      \/ WinSetWindowText(h) \/ WinInvalidateRect(h)
  \/ PaintControl
  \/ \E h \in {0} \cup {c \in Hwnds : windows[c].class = "client"} : WinSetCapture(h)
  \/ DrawingCall

GuestStep ==
  \/ WindowCall
  \/ \E t \in Threads : WinMessageBox(t) \/ BoxDropped(t)
  \/ DosExit

DesktopNext == GuestStep \/ MainThread \/ UserEvent

\* The main thread is scheduled, the events it collects in one poll are
\* finitely many and the user answers a message box; a guest thread whose
\* answer was dropped goes on.
DesktopFairness == /\ WF_deskVars(MainThread) /\ SF_deskVars(Tick)
                   /\ \A t \in Threads : WF_deskVars(BoxDropped(t))

DesktopSpec == DesktopInit /\ [][DesktopNext]_deskVars /\ DesktopFairness

----------------------------------------------------------------------------
\* The type invariant.
DesktopTypeOK ==
  /\ WindowsOK
  /\ pc \in {"drain", "presenting", "poll", "exposing", "ticking", "polled", "closed"}
  /\ drag \in {0} \cup Hwnds
  /\ boxes \subseteq Threads
  /\ changed \in {"no", "yes", "late"}

\* A change of the stack, of a window's visibility or of the active window
\* that leaves something to show keeps a mark until a picture has it, so
\* that no composite is skipped that would show it.  Changes made while the
\* main thread draws are the exception: it clears their marks unseen.
MarkedUntilShown ==
  changed = "yes" /\ Picture # {} => dirty

\* A program inside WinMessageBox gets an answer: the user's, or MBID_OK
\* when the main thread leaves its loop with the request still unread.
MessageBoxReturns == \A t \in Threads : t \in boxes ~> t \notin boxes
=============================================================================
