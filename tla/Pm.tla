--------------------------------- MODULE Pm ---------------------------------
(***************************************************************************)
(* The messages of a Presentation Manager program: the queues and window   *)
(* procedures of loader/pm_win.rs, the controls the loader implements      *)
(* itself (dispatch_builtin_control in loader/mod.rs), the modal dialog    *)
(* loop, whose procedure runs as a guest callback (loader/vcpu.rs), the    *)
(* timer threads, and the user's events, which the main thread posts       *)
(* (gui/sdl2_renderer.rs).                                                 *)
(*                                                                         *)
(* A call is one step per use of window_mgr.  The lock itself is state     *)
(* only where a thread keeps it while it waits: when it joins a timer      *)
(* thread.  A condition variable needs no state: every wait is cut short   *)
(* after 100 ms and looks again.                                           *)
(*                                                                         *)
(* A timer, (hwnd, id) in the code, is started and stopped by one thread   *)
(* and is named by that thread.                                            *)
(***************************************************************************)
EXTENDS Naturals, Sequences, FiniteSets, SequencesExt

CONSTANTS Threads,      \* guest threads
          Pumps,        \* those that make a queue and windows and run procedures
          Timers,       \* those that use a timer
          MaxQueues,    \* bound on the message queues made
          MaxWindows,   \* bound on the windows made
          MaxMessages,  \* bound on the messages in a queue
          MaxFrames     \* bound on the callbacks a thread is inside

ASSUME PmAssumption == /\ {MaxQueues, MaxWindows, MaxMessages, MaxFrames} \subseteq Nat
                       /\ MaxMessages > 1 /\ Pumps \cup Timers \subseteq Threads

VARIABLES windows,         \* OS2Windows by handle
          msg_queues,      \* PM_MsgQueues by handle
          tid_to_hmq,      \* the queue of a thread, or 0
          at,              \* what a thread is doing
          callback_stack,  \* the callbacks a thread is inside, outermost first
          timers,          \* a thread's timer: listed, running flag, host thread
          window_mgr,      \* who joins with the lock held, or "free"
          main,            \* the main thread: loop, stopping, gone
          exit_requested

pmState == <<windows, msg_queues, tid_to_hmq>>
runState == <<at, callback_stack>>
pmVars  == <<pmState, runState, timers, window_mgr, main, exit_requested>>

Classes == {"client", "#Dialog", "WC_BUTTON", "#Menu"}
Kinds   == {"WM_QUIT", "WM_TIMER", "WM_PAINT", "WM_CLOSE", "WM_COMMAND",
            "WM_BUTTON1DOWN", "WM_BUTTON1UP", "WM_INITDLG"}
Hwnds   == DOMAIN windows
Guest   == <<"guest">>

PmInit ==
  /\ windows = <<>> /\ msg_queues = <<>>
  /\ tid_to_hmq = [t \in Threads |-> 0]
  /\ at = [t \in Threads |-> Guest]
  /\ callback_stack = [t \in Threads |-> <<>>]
  /\ timers = [t \in Timers |-> [listed |-> FALSE, running |-> FALSE, thread |-> "over"]]
  /\ window_mgr = "free" /\ main = "loop" /\ exit_requested = FALSE

----------------------------------------------------------------------------
(* Windows, queues and posting.                                            *)

\* A thread that may make a call.
Running(t) == at[t] = Guest /\ window_mgr = "free"

\* A window of a thread; menus are made without a queue.
OS2Window(class, t) ==
  [class |-> class, hmq |-> IF class = "#Menu" THEN 0 ELSE tid_to_hmq[t],
   pfn_wp |-> class \in {"client", "#Dialog"}, dismissed |-> FALSE, open_item |-> FALSE]

\* The queue of the window, or of any thread that has one.
find_hmq_for_hwnd(h) ==
  IF windows[h].hmq # 0 THEN {windows[h].hmq} ELSE {tid_to_hmq[t] : t \in Threads} \ {0}

Queued(qs, q, msgs) == [qs EXCEPT ![q] = @ \o msgs]
HasRoom(q, n)       == Len(msg_queues[q]) + n <= MaxMessages

Posted(h, kinds) ==
  LET msgs == [i \in DOMAIN kinds |-> <<h, kinds[i]>>]
  IN  \/ find_hmq_for_hwnd(h) = {} /\ UNCHANGED msg_queues
      \/ \E q \in find_hmq_for_hwnd(h) :
            HasRoom(q, Len(kinds)) /\ msg_queues' = Queued(msg_queues, q, msgs)

create_mq(t) ==
  /\ Running(t) /\ Len(msg_queues) < MaxQueues
  /\ msg_queues' = Append(msg_queues, <<>>)
  /\ tid_to_hmq' = [tid_to_hmq EXCEPT ![t] = Len(msg_queues) + 1]
  /\ UNCHANGED <<windows, runState, timers, window_mgr, main, exit_requested>>

\* A program makes its queue, then its main window, then the others.
InOrder(t, class) == tid_to_hmq[t] # 0 /\ (windows = <<>>) = (class = "client")

\* WinCreateStdWindow's client, a control, a menu: made, then asked to paint.
\* The two uses of window_mgr are one step: nobody knows the handle between.
WinCreateWindow(t, class) ==
  /\ Running(t) /\ Len(windows) < MaxWindows
  /\ class # "#Dialog" /\ InOrder(t, class) /\ HasRoom(tid_to_hmq[t], 1)
  /\ windows' = Append(windows, OS2Window(class, t))
  /\ msg_queues' = Queued(msg_queues, tid_to_hmq[t], <<<<Len(windows) + 1, "WM_PAINT">>>>)
  /\ UNCHANGED <<tid_to_hmq, runState, timers, window_mgr, main, exit_requested>>

\* WinPostMsg, WinInvalidateRect (WM_PAINT).
WinPostMsg(t, h, kind) ==
  /\ Running(t) /\ Posted(h, <<kind>>)
  /\ UNCHANGED <<windows, tid_to_hmq, runState, timers, window_mgr, main, exit_requested>>

\* The user's input.  push_msg looks for the client of a frame: there is one here.
push_msg(h, kind) ==
  /\ main = "loop" /\ window_mgr = "free"
  /\ Posted(h, <<kind>>)
  /\ UNCHANGED <<windows, tid_to_hmq, runState, timers, window_mgr, main, exit_requested>>

post_wm_quit(h) == Posted(h, <<"WM_QUIT">>)

----------------------------------------------------------------------------
(* The message loop of a thread and the window procedures.                 *)

Enter(t, frame)   == callback_stack' = [callback_stack EXCEPT ![t] = Append(@, frame)]
Deeper(t)         == Len(callback_stack[t]) < MaxFrames
\* The message the procedure of the innermost callback was called with.
Handling(t)       == Last(callback_stack[t]).msg
InProc(t)         == callback_stack[t] # <<>>

\* WinGetMsg reads the queue of its thread; the guest then dispatches what it
\* got.  A round of its loop is one step.
WinGetMsg(t) ==
  /\ Running(t)
  /\ tid_to_hmq[t] # 0
  /\ at' = [at EXCEPT ![t] = <<"getmsg", tid_to_hmq[t]>>]
  /\ UNCHANGED <<pmState, callback_stack, timers, window_mgr, main, exit_requested>>

GetMsgReturns(t) ==
  /\ at[t][1] = "getmsg"
  /\ LET q == at[t][2]
         m == Head(msg_queues[q])
     IN  \/ exit_requested /\ at' = [at EXCEPT ![t] = Guest] /\ UNCHANGED msg_queues
         \/ /\ ~exit_requested /\ msg_queues[q] # <<>>
            /\ at' = [at EXCEPT ![t] = IF m[2] = "WM_QUIT" THEN Guest ELSE <<"dispatch", m>>]
            /\ msg_queues' = [msg_queues EXCEPT ![q] = Tail(@)]
  /\ UNCHANGED <<windows, tid_to_hmq, callback_stack, timers, window_mgr, main, exit_requested>>

\* The controls without a procedure of their own.  A click lands on an item or
\* not: the menu bar opens, closes or passes on a command; a dialog passes on
\* the command of its button; a button tells its parent.
MenuClicked(h) ==
  \/ windows' = [windows EXCEPT ![h].open_item = ~@] /\ UNCHANGED msg_queues
  \/ /\ windows[h].open_item
     /\ windows' = [windows EXCEPT ![h].open_item = FALSE]
     /\ \E c \in Hwnds : windows[c].class = "client" /\ Posted(c, <<"WM_COMMAND">>)
  \/ UNCHANGED <<windows, msg_queues>>

DialogClicked(h) ==
  /\ UNCHANGED windows
  /\ Posted(h, <<"WM_COMMAND">>) \/ UNCHANGED msg_queues

ButtonReleased(h) ==
  /\ UNCHANGED windows
  /\ \E p \in Hwnds : windows[p].pfn_wp /\ Posted(p, <<"WM_COMMAND">>)

dispatch_builtin_control(h, kind) ==
  \/ windows[h].class = "#Menu" /\ kind = "WM_BUTTON1DOWN" /\ MenuClicked(h)
  \/ windows[h].class = "#Dialog" /\ kind = "WM_BUTTON1DOWN" /\ DialogClicked(h)
  \/ windows[h].class = "WC_BUTTON" /\ kind = "WM_BUTTON1UP" /\ ButtonReleased(h)
  \/ /\ <<windows[h].class, kind>> \notin {<<"#Menu", "WM_BUTTON1DOWN">>,
          <<"#Dialog", "WM_BUTTON1DOWN">>, <<"WC_BUTTON", "WM_BUTTON1UP">>}
     /\ UNCHANGED <<windows, msg_queues>>

Sent(t, m) ==
  \/ windows[m[1]].pfn_wp /\ Deeper(t)
     /\ Enter(t, [kind |-> "PmCallback", msg |-> m, dlg |-> 0, hmq |-> 0])
     /\ UNCHANGED <<windows, msg_queues>>
  \/ /\ ~windows[m[1]].pfn_wp
     /\ dispatch_builtin_control(m[1], m[2])
     /\ UNCHANGED callback_stack

WinDispatchMsg(t) ==
  /\ at[t][1] = "dispatch" /\ window_mgr = "free"
  /\ Sent(t, at[t][2])
  /\ at' = [at EXCEPT ![t] = Guest]
  /\ UNCHANGED <<tid_to_hmq, timers, window_mgr, main, exit_requested>>

WinSendMsg(t, h, kind) ==
  /\ Running(t)
  /\ Sent(t, <<h, kind>>)
  /\ UNCHANGED <<tid_to_hmq, at, timers, window_mgr, main, exit_requested>>

\* A procedure hands what it was called with to WinDefWindowProc.
WinDefWindowProc(t) ==
  /\ Running(t) /\ InProc(t)
  /\ LET h == Handling(t)[1]
         k == Handling(t)[2]
         menus == {m \in Hwnds : windows[m].class = "#Menu"}
     IN  \/ k = "WM_CLOSE" /\ post_wm_quit(h) /\ UNCHANGED windows
         \/ k = "WM_BUTTON1DOWN" /\ \E m \in menus : dispatch_builtin_control(m, k)
  /\ UNCHANGED <<tid_to_hmq, runState, timers, window_mgr, main, exit_requested>>

----------------------------------------------------------------------------
(* Dialogs.                                                                *)

Dismissed(h) == [windows EXCEPT ![h].dismissed = TRUE]

WinDismissDlg(t, h) ==
  /\ Running(t) /\ windows[h].class = "#Dialog"
  /\ windows' = Dismissed(h)
  /\ UNCHANGED <<msg_queues, tid_to_hmq, runState, timers, window_mgr, main, exit_requested>>

WinDefDlgProc(t) ==
  /\ Running(t) /\ InProc(t)
  /\ LET h == Handling(t)[1]
         k == Handling(t)[2]
     IN  \/ k = "WM_BUTTON1DOWN" /\ dispatch_builtin_control(h, k)
         \/ k \in {"WM_COMMAND", "WM_CLOSE"} /\ windows' = Dismissed(h) /\ UNCHANGED msg_queues
  /\ UNCHANGED <<tid_to_hmq, runState, timers, window_mgr, main, exit_requested>>

\* WinDlgBox and WinLoadDlg make the dialog, let go of the lock, and then post
\* its first messages; WinDlgBox goes on to its loop.
WinLoadDlg(t, call) ==
  /\ Running(t) /\ Len(windows) < MaxWindows /\ InOrder(t, "#Dialog")
  /\ windows' = Append(windows, OS2Window("#Dialog", t))
  /\ at' = [at EXCEPT ![t] = <<call, Len(windows) + 1>>]
  /\ UNCHANGED <<msg_queues, tid_to_hmq, callback_stack, timers, window_mgr, main, exit_requested>>

DlgRunLoop(d, q) == <<"dialog", d, q>>

DlgStarted(t) ==
  /\ at[t][1] \in {"WinDlgBox", "WinLoadDlg"} /\ window_mgr = "free"
  /\ LET d == at[t][2]
         q == windows[d].hmq
     IN  /\ HasRoom(q, 2)
         /\ msg_queues' = Queued(msg_queues, q, <<<<d, "WM_INITDLG">>, <<d, "WM_PAINT">>>>)
         /\ at' = [at EXCEPT ![t] = IF @[1] = "WinDlgBox" THEN DlgRunLoop(d, q) ELSE Guest]
  /\ UNCHANGED <<windows, tid_to_hmq, callback_stack, timers, window_mgr, main, exit_requested>>

WinProcessDlg(t, d) ==
  /\ Running(t)
  /\ \E q \in find_hmq_for_hwnd(d) : at' = [at EXCEPT ![t] = DlgRunLoop(d, q)]
  /\ windows[d].pfn_wp
  /\ UNCHANGED <<pmState, callback_stack, timers, window_mgr, main, exit_requested>>

\* Mutant: the loop does not look whether the dialog was dismissed.
LeavesUndismissed(d, q) == exit_requested \/ (msg_queues[q] # <<>> /\ Head(msg_queues[q])[2] = "WM_QUIT")

\* One round of setup_dlg_dispatch: it leaves when the dialog was dismissed, at
\* shutdown and on WM_QUIT; it paints; any other message of the queue, whatever
\* its window, goes to the dialog's procedure.
DlgLeaves(d, q) == \/ windows[d].dismissed \/ exit_requested
                   \/ msg_queues[q] # <<>> /\ Head(msg_queues[q])[2] = "WM_QUIT"

setup_dlg_dispatch(t) ==
  /\ at[t][1] = "dialog" /\ window_mgr = "free"
  /\ LET d == at[t][2]
         q == at[t][3]
         m == Head(msg_queues[q])
     IN  \/ /\ DlgLeaves(d, q)
            /\ msg_queues' = IF windows[d].dismissed \/ exit_requested THEN msg_queues
                             ELSE [msg_queues EXCEPT ![q] = Tail(@)]
            /\ at' = [at EXCEPT ![t] = Guest]
            /\ UNCHANGED callback_stack
         \/ /\ ~DlgLeaves(d, q) /\ msg_queues[q] # <<>>
            /\ msg_queues' = [msg_queues EXCEPT ![q] = Tail(@)]
            /\ \/ m[2] = "WM_PAINT" /\ UNCHANGED <<at, callback_stack>>
               \/ /\ m[2] # "WM_PAINT" /\ Deeper(t)
                  /\ at' = [at EXCEPT ![t] = Guest]
                  /\ Enter(t, [kind |-> "DlgRunLoop", msg |-> m, dlg |-> d, hmq |-> q])
  /\ UNCHANGED <<windows, tid_to_hmq, timers, window_mgr, main, exit_requested>>

\* CALLBACK_RET_TRAP: a procedure returns to whoever had it called.
CallbackReturns(t) ==
  /\ Running(t) /\ InProc(t)
  /\ LET f == Last(callback_stack[t])
     IN  at' = IF f.kind = "DlgRunLoop" /\ ~windows[f.dlg].dismissed
               THEN [at EXCEPT ![t] = DlgRunLoop(f.dlg, f.hmq)] ELSE at
  /\ callback_stack' = [callback_stack EXCEPT ![t] = Front(@)]
  /\ UNCHANGED <<pmState, timers, window_mgr, main, exit_requested>>

----------------------------------------------------------------------------
(* Timers.                                                                 *)

TimerOver(t) == timers[t].thread = "over"
Unlisted(t)  == [timers EXCEPT ![t].listed = FALSE, ![t].running = FALSE]

Spawned(t)   == [timers EXCEPT ![t].running = TRUE, ![t].thread = "sleeping"]

\* WinStartTimer joins the thread of the timer it replaces with the lock held,
\* starts the new one without it, and takes it again to list it.
WinStartTimer(t) ==
  /\ Running(t)
  /\ \/ /\ timers[t].listed
        /\ timers' = Unlisted(t) /\ window_mgr' = t
        /\ at' = [at EXCEPT ![t] = <<"restart">>]
     \/ /\ ~timers[t].listed
        /\ timers' = Spawned(t)
        /\ at' = [at EXCEPT ![t] = <<"list">>]
        /\ UNCHANGED window_mgr
  /\ UNCHANGED <<pmState, callback_stack, main, exit_requested>>

RestartJoined(t) ==
  /\ at[t] = <<"restart">> /\ TimerOver(t)
  /\ window_mgr' = "free"
  /\ timers' = Spawned(t)
  /\ at' = [at EXCEPT ![t] = <<"list">>]
  /\ UNCHANGED <<pmState, callback_stack, main, exit_requested>>

TimerListed(t) ==
  /\ at[t] = <<"list">> /\ window_mgr = "free"
  /\ timers' = [timers EXCEPT ![t].listed = TRUE]
  /\ at' = [at EXCEPT ![t] = Guest]
  /\ UNCHANGED <<pmState, callback_stack, window_mgr, main, exit_requested>>

\* Mutant: WinStopTimer does not join.
StopsAtOnce(t) ==
  /\ Running(t) /\ timers[t].listed
  /\ timers' = Unlisted(t)
  /\ UNCHANGED <<pmState, runState, window_mgr, main, exit_requested>>

\* WinStopTimer lets go of the lock before it joins.
WinStopTimer(t) ==
  /\ Running(t) /\ timers[t].listed
  /\ timers' = Unlisted(t)
  /\ at' = [at EXCEPT ![t] = <<"join">>]
  /\ UNCHANGED <<pmState, callback_stack, window_mgr, main, exit_requested>>

StopJoined(t) ==
  /\ at[t] = <<"join">> /\ TimerOver(t)
  /\ at' = [at EXCEPT ![t] = Guest]
  /\ UNCHANGED <<pmState, callback_stack, timers, window_mgr, main, exit_requested>>

\* The thread of a timer looks at its flag after it slept, and then takes the lock.
TimerWakes(t) ==
  /\ timers[t].thread = "sleeping"
  /\ timers' = [timers EXCEPT ![t].thread = IF timers[t].running THEN "awake" ELSE "over"]
  /\ UNCHANGED <<pmState, runState, window_mgr, main, exit_requested>>

TimerFires(t) ==
  /\ timers[t].thread = "awake" /\ window_mgr = "free"
  /\ \E h \in Hwnds : windows[h].class = "client" /\ Posted(h, <<"WM_TIMER">>)
  /\ timers' = [timers EXCEPT ![t].thread =
                  IF timers[t].running /\ ~exit_requested THEN "sleeping" ELSE "over"]
  /\ UNCHANGED <<windows, tid_to_hmq, runState, window_mgr, main, exit_requested>>

----------------------------------------------------------------------------
(* The end.                                                                *)

DosExit(t) ==
  /\ Running(t) /\ ~exit_requested
  /\ exit_requested' = TRUE
  /\ UNCHANGED <<pmState, runState, timers, window_mgr, main>>

\* main: the event loop ends, by the user or by exit_requested, and every
\* timer is stopped and joined with the lock held.
stop_all_timers ==
  /\ main = "loop" /\ window_mgr = "free"
  /\ main' = "stopping" /\ window_mgr' = "main" /\ exit_requested' = TRUE
  /\ timers' = [t \in Timers |-> [timers[t] EXCEPT !.listed = FALSE,
                                     !.running = @ /\ ~timers[t].listed]]
  /\ UNCHANGED <<pmState, runState>>

ProcessExits ==
  /\ main = "stopping"
  /\ \A t \in Timers : timers[t].running \/ TimerOver(t)
  /\ main' = "gone" /\ window_mgr' = "free"
  /\ UNCHANGED <<pmState, runState, timers, exit_requested>>

----------------------------------------------------------------------------
\* Nothing of the process runs once main has left.
PmNext ==
  /\ main # "gone"
  /\ \/ \E t \in Pumps :
          \/ create_mq(t) \/ WinGetMsg(t) \/ GetMsgReturns(t) \/ WinDispatchMsg(t)
          \/ WinDefWindowProc(t) \/ WinDefDlgProc(t) \/ CallbackReturns(t)
          \/ \E c \in Classes : WinCreateWindow(t, c)
          \/ \E h \in Hwnds : WinProcessDlg(t, h)
          \/ \E h \in Hwnds : WinSendMsg(t, h, "WM_BUTTON1UP")
          \/ \E c \in {"WinDlgBox", "WinLoadDlg"} : WinLoadDlg(t, c)
          \/ DlgStarted(t) \/ setup_dlg_dispatch(t)
     \/ \E t \in Threads :
          \/ \E h \in Hwnds : WinDismissDlg(t, h) \/ WinPostMsg(t, h, "WM_QUIT")
          \/ DosExit(t)
     \/ \E t \in Timers :
          \/ WinStartTimer(t) \/ RestartJoined(t) \/ TimerListed(t)
          \/ WinStopTimer(t) \/ StopJoined(t) \/ TimerWakes(t) \/ TimerFires(t)
     \/ \E h \in Hwnds : \E k \in {"WM_CLOSE", "WM_BUTTON1DOWN"} : push_msg(h, k)
     \/ stop_all_timers \/ ProcessExits

\* A thread waiting in the loader looks again every 100 ms.
PmFairness == /\ WF_pmVars(main # "gone" /\ ProcessExits)
              /\ \A t \in Threads : /\ WF_pmVars(GetMsgReturns(t))
                                 /\ WF_pmVars(setup_dlg_dispatch(t))
              /\ \A t \in Timers : /\ WF_pmVars(StopJoined(t))
                                  /\ WF_pmVars(RestartJoined(t))
                                  /\ WF_pmVars(TimerWakes(t))
                                  /\ WF_pmVars(TimerFires(t))

PmSpec == PmInit /\ [][PmNext]_pmVars /\ PmFairness

----------------------------------------------------------------------------
(* Properties.                                                             *)

\* Every queued message names a window that exists, and a thread only waits on
\* a queue that was made (the lookups of WinGetMsg and of the dialog loop).
PmTypeOK ==
  /\ \A q \in DOMAIN msg_queues : \A i \in DOMAIN msg_queues[q] :
        msg_queues[q][i] \in Hwnds \X Kinds
  /\ \A t \in Threads :
       /\ tid_to_hmq[t] \in 0..Len(msg_queues)
       /\ at[t][1] = "dispatch" => at[t][2] \in Hwnds \X Kinds
       /\ at[t][1] = "getmsg" => at[t][2] \in DOMAIN msg_queues
       /\ at[t][1] = "dialog" => at[t][2] \in Hwnds /\ at[t][3] \in DOMAIN msg_queues
       /\ \A i \in DOMAIN callback_stack[t] : callback_stack[t][i].msg[1] \in Hwnds
  /\ \A h \in Hwnds : windows[h].hmq \in 0..Len(msg_queues)
  /\ window_mgr \in Threads \cup {"free", "main"}

\* WinStopTimer and WinStartTimer return only when the host thread of the timer
\* they took out of the table is over: no WM_TIMER of a stopped timer comes after.
TimerQuiet ==
  \A t \in Timers : at[t] = Guest /\ main = "loop" /\ ~timers[t].listed => TimerOver(t)

\* Everybody waits: the thread of a timer for window_mgr, and its holder for the
\* end of that thread.  WinStartTimer and stop_all_timers can bring this about.
Stuck == window_mgr # "free" /\ \E t \in Timers : timers[t].thread = "awake"

\* A thread in a modal dialog loop comes out of it once the dialog is dismissed,
\* by whichever thread, and at shutdown, unless a timer is joined under the lock.
DialogEnds ==
  \A t \in Threads :
    (at[t][1] = "dialog" /\ (windows[at[t][2]].dismissed \/ exit_requested))
       ~> (at[t][1] # "dialog" \/ Stuck \/ main = "gone")
=============================================================================
