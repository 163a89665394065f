------------------------------ MODULE Console -------------------------------
(***************************************************************************)
(* A text program at its console: the VIO calls that write the screen      *)
(* (loader/viocalls.rs), the calls that read the keyboard                  *)
(* (loader/kbdcalls.rs and DosRead of handle 0 in loader/doscalls.rs), the *)
(* text window's loop (gui/text_renderer.rs), and the built-in command     *)
(* interpreter (loader/cmd.rs), which the program runs in its own thread   *)
(* or which is the program.                                                *)
(*                                                                         *)
(* With sdl2_mode the keys come from the window, through kbd_queue; else   *)
(* from the terminal, which the first read puts in raw mode.  An escape    *)
(* sequence of the terminal is one key.  What a command line says is       *)
(* chosen when it is entered.                                              *)
(***************************************************************************)
EXTENDS Vio, FiniteSets

CONSTANTS Sizes,     \* the modes VioSetMode is asked for: <<rows, columns>>
          MaxKeys,   \* bound on the keys typed ahead
          MaxLine,   \* bound on the characters in a line that is edited
          HistorySize

ASSUME ConsoleAssumption ==
  /\ {MaxKeys, MaxLine, HistorySize} \subseteq Nat /\ HistorySize > 0
  /\ Sizes \subseteq (Nat \ {0}) \X (Nat \ {0})

VARIABLES sdl2_mode, program,   \* how the process was started
          screen, keys,
          raw_mode,             \* the terminal is in raw mode
          stdin_pending_lf, stdin_cooked_chars,
          at,                   \* what the program's thread is doing
          count,                \* characters KbdStringIn has
          line, history, hist_idx,
          output_sink, input_source,
          todo,                 \* segments of the pipeline left to run
          exit_requested, over  \* over: the process has ended

startVars == <<sdl2_mode, program>>
cookedVars == <<stdin_pending_lf, stdin_cooked_chars>>
editVars  == <<line, history, hist_idx>>
shellVars == <<output_sink, input_source, todo>>
endVars   == <<exit_requested, over>>
consoleVars == <<startVars, screen, keys, raw_mode, cookedVars, at, count,
                 editVars, shellVars, endVars>>

Keys  == {"a", "h", "cr", "bs", "esc", "up", "down"}
Chars == {"a", "h"}
Reads == {"KbdCharIn", "KbdStringIn", "DosRead", "read_line"}

ConsoleInit ==
  /\ sdl2_mode \in BOOLEAN /\ program \in {"guest", "CMD.EXE"}
  /\ \E z \in Sizes : screen = new(z[1], z[2])
  /\ keys = <<>> /\ raw_mode = FALSE
  /\ stdin_pending_lf = FALSE /\ stdin_cooked_chars = 0
  /\ at = (IF program = "guest" THEN "guest" ELSE "interactive_loop") /\ count = 0
  /\ line = <<>> /\ history = <<>> /\ hist_idx = 0
  /\ output_sink = "Vio" /\ input_source = "Kbd" /\ todo = <<>>
  /\ exit_requested = FALSE /\ over = FALSE

Guest == at = "guest" /\ ~over

----------------------------------------------------------------------------
(* VIOCALLS.  Each runs whole under console_mgr.                           *)

Shows(s) == /\ Guest /\ screen' = s
            /\ UNCHANGED <<startVars, keys, raw_mode, cookedVars, at, count,
                           editVars, shellVars, endVars>>

\* Also DosWrite to handles 1 and 2 when the window is used.
vio_wrt_tty == \E text \in {<<"a">>, <<"h">>, <<"lf">>, <<"bs">>} : Shows(write_tty(screen, text))

vio_set_cur_pos == \E r \in 0 .. screen.rows, c \in 0 .. screen.cols : Shows(set_cursor_pos(screen, r, c))

\* The columns of the region are not used.
vio_scroll_up == \E top, bottom \in 0 .. screen.rows, n \in 0 .. 1 :
                   Shows(scroll_up(screen, top, bottom, n, "a"))

vio_scroll_dn == \E top, bottom \in 0 .. screen.rows, n \in 0 .. 1 :
                   Shows(scroll_down(screen, top, bottom, n, "a"))

vio_wrt_char_str_att == \E r \in 0 .. screen.rows, c \in 0 .. screen.cols :
                          Shows(write_char_str_att(screen, r, c, <<"h", "a">>))

vio_wrt_n_cell == \E r \in 0 .. screen.rows, c \in 0 .. screen.cols, n \in 0 .. 2 :
                    Shows(write_n_cell(screen, r, c, "h", n))

vio_set_mode == \E z \in Sizes : Shows(resize(screen, z[1], z[2]))

----------------------------------------------------------------------------
(* The keyboard.                                                           *)

\* A key pressed in the window, or bytes typed at the terminal.
KeyDown ==
  /\ ~over /\ Len(keys) < MaxKeys
  /\ \E k \in Keys : keys' = Append(keys, k)
  /\ UNCHANGED <<startVars, screen, raw_mode, cookedVars, at, count, editVars,
                 shellVars, endVars>>

enable_raw_mode == raw_mode' = (raw_mode \/ ~sdl2_mode)

Begin(call) ==
  /\ Guest /\ at' = call /\ count' = 0
  /\ enable_raw_mode
  /\ UNCHANGED <<startVars, screen, keys, cookedVars, editVars, shellVars, endVars>>

kbd_char_in == Begin("KbdCharIn")
kbd_string_in == Begin("KbdStringIn")

\* The LF owed after a CR is given out before any key.
dos_read_stdin ==
  \/ ~stdin_pending_lf /\ Begin("DosRead")
  \/ /\ Guest /\ stdin_pending_lf /\ stdin_pending_lf' = FALSE
     /\ UNCHANGED <<startVars, screen, keys, raw_mode, stdin_cooked_chars, at, count,
                    editVars, shellVars, endVars>>

\* Mutant: a read waits for a key whatever happens.
WaitsOn(call) == call /= "DosRead"

\* The calls that leave their loop when the process is shutting down.
shutting_down(call) == call \in Reads

\* A read goes back to the program with what it has, or with an error.
ReadShutDown ==
  /\ at \in Reads \ {"read_line"} /\ ~over
  /\ exit_requested /\ shutting_down(at)
  /\ at' = "guest" /\ count' = 0
  /\ UNCHANGED <<startVars, screen, keys, raw_mode, cookedVars, editVars, shellVars, endVars>>

Took(k) == ~over /\ keys /= <<>> /\ k = Head(keys) /\ keys' = Tail(keys)

\* A key for KbdCharIn, or IO_NOWAIT and none.
CharInReturns ==
  /\ at = "KbdCharIn" /\ at' = "guest"
  /\ \/ \E k \in Keys : Took(k)
     \/ ~over /\ keys = <<>> /\ UNCHANGED keys
  /\ UNCHANGED <<startVars, screen, raw_mode, cookedVars, count, editVars, shellVars, endVars>>

\* KbdStringIn reads the terminal even when the keys come from the window.
StringInKey ==
  /\ at = "KbdStringIn" /\ ~sdl2_mode
  /\ \E k \in Keys :
       /\ Took(k)
       /\ \/ /\ k = "cr" /\ at' = "guest" /\ count' = 0 /\ UNCHANGED screen
          \/ /\ k = "bs" /\ UNCHANGED at
             /\ count' = IF count > 0 THEN count - 1 ELSE 0
             /\ screen' = IF count > 0 THEN write_tty(screen, Erase) ELSE screen
          \/ /\ k \in Chars
             /\ screen' = write_tty(screen, <<k>>)
             /\ at' = IF count + 1 < MaxLine THEN at ELSE "guest"
             /\ count' = IF count + 1 < MaxLine THEN count + 1 ELSE 0
          \/ /\ k \in {"esc", "up", "down"} /\ UNCHANGED <<at, count, screen>>
  /\ UNCHANGED <<startVars, raw_mode, cookedVars, editVars, shellVars, endVars>>

\* DosRead of handle 0: one character a call.  At the terminal the echo is the
\* terminal's; in the window it goes through the screen, and a backspace at the
\* start of the line is dropped.
Enter == /\ stdin_pending_lf' = TRUE
         /\ stdin_cooked_chars' = IF sdl2_mode THEN 0 ELSE stdin_cooked_chars
         /\ screen' = IF sdl2_mode THEN write_tty(screen, <<"cr", "lf">>) ELSE screen
         /\ at' = "guest"

Backspace ==
  \/ /\ sdl2_mode /\ stdin_cooked_chars = 0
     /\ UNCHANGED <<cookedVars, screen, at>>
  \/ /\ sdl2_mode /\ stdin_cooked_chars > 0
     /\ stdin_cooked_chars' = stdin_cooked_chars - 1
     /\ screen' = write_tty(screen, Erase)
     /\ at' = "guest" /\ UNCHANGED stdin_pending_lf
  \/ ~sdl2_mode /\ at' = "guest" /\ UNCHANGED <<cookedVars, screen>>

\* The count is cut at its bound: a program that reads on meets it only with
\* Enter or Backspace.
Character(k) ==
  /\ ~sdl2_mode \/ k \notin Chars \/ stdin_cooked_chars < MaxLine
  /\ IF sdl2_mode /\ k \in Chars
     THEN /\ stdin_cooked_chars' = stdin_cooked_chars + 1
          /\ screen' = write_tty(screen, <<k>>)
     ELSE UNCHANGED <<stdin_cooked_chars, screen>>
  /\ at' = "guest" /\ UNCHANGED stdin_pending_lf

ReadStdinKey ==
  /\ at = "DosRead"
  /\ \E k \in Keys : /\ Took(k)
                     /\ \/ k = "cr" /\ Enter
                        \/ k = "bs" /\ Backspace
                        \/ k \notin {"cr", "bs"} /\ Character(k)
  /\ UNCHANGED <<startVars, raw_mode, count, editVars, shellVars, endVars>>

----------------------------------------------------------------------------
(* The command interpreter: the line editor.                               *)

Commands  == {"ECHO", "CLS", "EXIT", "script", "program"}
Pipelines == {<<c>> : c \in Commands} \cup {<<c, "ECHO">> : c \in {"ECHO", "EXIT", "program"}}

\* What a String holds of a byte above 0x7F is two bytes long.
ByteLen(l) == Len(l) + Cardinality({i \in DOMAIN l : l[i] = "h"})

\* DosExecPgm of CMD.EXE.
run_builtin_cmd ==
  /\ Guest /\ at' = "interactive_loop"
  /\ history' = <<>> /\ line' = <<>> /\ hist_idx' = 0
  /\ output_sink' = "Vio" /\ input_source' = "Kbd" /\ todo' = <<>>
  /\ UNCHANGED <<startVars, screen, keys, raw_mode, cookedVars, count, endVars>>

\* The shell returns: to the program that ran it, to the window's loop, or to
\* process::exit.
LeaveShell ==
  /\ at' = (IF program = "guest" THEN "guest" ELSE "done")
  /\ exit_requested' = (exit_requested \/ (program /= "guest" /\ sdl2_mode))
  /\ over' = (program /= "guest" /\ ~sdl2_mode)
  /\ line' = <<>> /\ history' = <<>> /\ hist_idx' = 0

interactive_loop ==
  /\ at = "interactive_loop" /\ ~over
  /\ \/ /\ exit_requested /\ LeaveShell
        /\ UNCHANGED <<screen, raw_mode>>
     \/ /\ ~exit_requested /\ at' = "read_line"
        /\ line' = <<>> /\ hist_idx' = Len(history)
        /\ screen' = write_tty(screen, <<"a">>)
        /\ enable_raw_mode
        /\ UNCHANGED <<history, endVars>>
  /\ UNCHANGED <<startVars, keys, cookedVars, count, shellVars>>

ReadLineShutDown ==
  /\ at = "read_line" /\ ~over /\ exit_requested /\ shutting_down(at)
  /\ LeaveShell
  /\ UNCHANGED <<startVars, screen, keys, raw_mode, cookedVars, count, shellVars>>

\* Esc, Up and Down rub the line out, byte by byte, and write the new one.
replace_input(new_line) ==
  /\ screen' = write_tty(screen, Erasing(ByteLen(line)) \o new_line)
  /\ line' = new_line

EditKey(k) ==
  \/ /\ k = "bs" /\ UNCHANGED hist_idx
     /\ IF line = <<>> THEN UNCHANGED <<line, screen>>
        ELSE line' = Front(line) /\ screen' = write_tty(screen, Erase)
  \/ k = "esc" /\ replace_input(<<>>) /\ hist_idx' = Len(history)
  \/ /\ k = "up" /\ hist_idx > 0
     /\ hist_idx' = hist_idx - 1 /\ replace_input(history[hist_idx])
  \/ /\ k = "down" /\ hist_idx < Len(history)
     /\ hist_idx' = hist_idx + 1
     /\ replace_input(IF hist_idx + 1 < Len(history) THEN history[hist_idx + 2] ELSE <<>>)
  \/ /\ (k = "up" /\ hist_idx = 0) \/ (k = "down" /\ hist_idx = Len(history))
     /\ UNCHANGED <<line, screen, hist_idx>>
  \/ /\ k \in Chars /\ Len(line) < MaxLine
     /\ line' = Append(line, k) /\ screen' = write_tty(screen, <<k>>)
     /\ UNCHANGED hist_idx

read_line ==
  /\ at = "read_line"
  /\ \E k \in Keys : Took(k) /\ EditKey(k)
  /\ UNCHANGED <<startVars, raw_mode, cookedVars, at, count, history, shellVars, endVars>>

history_push(l) ==
  history' = IF history /= <<>> /\ Last(history) = l THEN history
             ELSE Append(IF Len(history) >= HistorySize THEN Tail(history) ELSE history, l)

----------------------------------------------------------------------------
(* The command interpreter: pipelines.                                     *)

\* Mutant: the output is redirected before the input file is known to exist.
RedirectedFirst(out, in) == /\ output_sink' = (IF out = "bad" THEN "Vio" ELSE out)
                            /\ input_source' = (IF "bad" \in {out, in} THEN "Kbd" ELSE in)

\* Both redirections are made before either is applied.
Redirected(out, in) == /\ output_sink' = (IF "bad" \in {out, in} THEN "Vio" ELSE out)
                       /\ input_source' = (IF "bad" \in {out, in} THEN "Kbd" ELSE in)

NewLine == <<"cr", "lf">>

\* Enter: nothing to do, a redirection that fails, or a pipeline to run.
execute_line ==
  /\ at = "read_line" /\ Took("cr")
  /\ \/ /\ line = <<>> /\ at' = "interactive_loop"
        /\ screen' = write_tty(screen, NewLine)
        /\ UNCHANGED <<history, shellVars>>
     \/ /\ line /= <<>> /\ history_push(line)
        /\ \E p \in Pipelines, out \in {"Vio", "File", "bad"}, in \in {"Kbd", "Lines", "bad"} :
             /\ Redirected(out, in)
             /\ IF "bad" \in {out, in}
                THEN /\ at' = "interactive_loop" /\ todo' = <<>>
                     /\ screen' = write_tty(screen, NewLine \o <<"a">> \o NewLine)
                ELSE /\ at' = "execute_pipeline" /\ todo' = p
                     /\ screen' = write_tty(screen, NewLine)
  /\ line' = <<>> /\ hist_idx' = 0
  /\ UNCHANGED <<startVars, raw_mode, cookedVars, count, endVars>>

\* The first segment of two writes into a buffer, the last into the sink.
SegmentSink == IF Len(todo) = 1 THEN output_sink ELSE "Buffer"

write_sink(sink, text) ==
  screen' = IF sink = "Vio" THEN write_tty(screen, text) ELSE screen

\* The captured output of a segment is the input of the next.
NextSegment == /\ todo' = Tail(todo)
               /\ input_source' = IF Len(todo) > 1 THEN "Lines" ELSE input_source
               /\ UNCHANGED output_sink

\* CLS clears the screen wherever the output goes, and a script's shell is a
\* new one, whose output goes to the screen.
execute_segment ==
  /\ at = "execute_pipeline" /\ ~over /\ todo /= <<>>
  /\ LET c == Head(todo)
     IN  \/ /\ c = "ECHO" /\ write_sink(SegmentSink, <<"a">> \o NewLine)
            /\ NextSegment /\ UNCHANGED at
         \/ /\ c = "CLS" /\ screen' = Cleared(screen)
            /\ NextSegment /\ UNCHANGED at
         \/ /\ c = "script" /\ write_sink("Vio", <<"a">> \o NewLine)
            /\ NextSegment /\ UNCHANGED at
         \/ /\ c = "program" /\ at' = "spawn_external"
            /\ UNCHANGED <<screen, shellVars>>
         \/ /\ c = "EXIT" /\ todo' = <<>> /\ at' = "exit"
            /\ UNCHANGED <<screen, output_sink, input_source>>
  /\ UNCHANGED <<startVars, keys, raw_mode, cookedVars, count, editVars, endVars>>

\* The program's output is relayed, and the shell waits for its end.
ChildWrites ==
  /\ at = "spawn_external" /\ ~over
  /\ SegmentSink = "Vio" /\ screen' = write_tty(screen, <<"a">>)
  /\ UNCHANGED <<startVars, keys, raw_mode, cookedVars, at, count, editVars, shellVars, endVars>>

ChildEnds ==
  /\ at = "spawn_external" /\ ~over /\ at' = "execute_pipeline"
  /\ NextSegment
  /\ UNCHANGED <<startVars, screen, keys, raw_mode, cookedVars, count, editVars, endVars>>

RestoreDefaults ==
  /\ at \in {"execute_pipeline", "exit"} /\ ~over /\ todo = <<>>
  /\ output_sink' = "Vio" /\ input_source' = "Kbd" /\ UNCHANGED todo
  /\ IF at = "exit" THEN LeaveShell
     ELSE at' = "interactive_loop" /\ UNCHANGED <<editVars, endVars>>
  /\ UNCHANGED <<startVars, screen, keys, raw_mode, cookedVars, count>>

----------------------------------------------------------------------------
(* The end of the process.                                                 *)

\* Ctrl+Esc, the window's close button, or another thread's DosExit.
RequestExit ==
  /\ ~exit_requested /\ ~over /\ exit_requested' = TRUE
  /\ UNCHANGED <<startVars, screen, keys, raw_mode, cookedVars, at, count, editVars,
                 shellVars, over>>

disable_raw_mode == raw_mode' = FALSE

\* The window's loop sees the request and the main thread ends the process.
run_text_loop ==
  /\ sdl2_mode /\ exit_requested /\ ~over
  /\ over' = TRUE /\ disable_raw_mode
  /\ UNCHANGED <<startVars, screen, keys, cookedVars, at, count, editVars, shellVars,
                 exit_requested>>

\* Without a window the program's thread is the main thread.
setup_and_run_cli ==
  /\ ~sdl2_mode /\ Guest
  /\ over' = TRUE /\ disable_raw_mode
  /\ UNCHANGED <<startVars, screen, keys, cookedVars, at, count, editVars, shellVars,
                 exit_requested>>

----------------------------------------------------------------------------

VioNext == \/ vio_wrt_tty \/ vio_set_cur_pos \/ vio_scroll_up \/ vio_scroll_dn
           \/ vio_wrt_char_str_att \/ vio_wrt_n_cell \/ vio_set_mode

KbdNext == \/ KeyDown \/ kbd_char_in \/ kbd_string_in \/ dos_read_stdin
           \/ ReadShutDown \/ CharInReturns \/ StringInKey \/ ReadStdinKey

ShellNext == \/ run_builtin_cmd \/ interactive_loop \/ ReadLineShutDown \/ read_line
             \/ execute_line \/ execute_segment \/ ChildWrites \/ ChildEnds
             \/ RestoreDefaults

ConsoleNext == VioNext \/ KbdNext \/ ShellNext
               \/ RequestExit \/ run_text_loop \/ setup_and_run_cli

\* Every wait for a key is cut short after 50 ms at most and looks at the exit
\* flag; the shell and the window's loop run on.  The child is not the code's.
ConsoleFairness ==
  /\ WF_consoleVars(ReadShutDown \/ ReadLineShutDown)
  /\ WF_consoleVars(interactive_loop \/ execute_segment \/ RestoreDefaults)

----------------------------------------------------------------------------
(* Properties.                                                             *)

\* Type invariant: the cursor stays on the screen and the buffer has a cell for
\* every place of it, through scrolling, wrapping and VioSetMode; the history
\* index of the line editor stays within the history.
ConsoleTypeOK ==
  /\ <<screen.rows, screen.cols>> \in Sizes
  /\ screen.row < screen.rows /\ screen.col < screen.cols
  /\ DOMAIN screen.cells = 1 .. screen.rows * screen.cols
  /\ keys \in Seq(Keys) /\ line \in Seq(Chars) /\ history \in Seq(Seq(Chars))
  /\ Len(history) <= HistorySize /\ hist_idx \in 0 .. Len(history)
  /\ output_sink \in {"Vio", "File"} /\ input_source \in {"Kbd", "Lines"}

\* The two vectors of the screen agree: what a cell shows is what the byte kept
\* for it decodes to, whatever was written, scrolled or resized
\* (VioManager.buffer and VioManager.raw_bytes).
CellsDecode ==
  \A i \in DOMAIN screen.cells : screen.cells[i].ch = decode_vio_byte(screen.cells[i].raw)

\* A program that put the terminal in raw mode leaves it as it found it
\* (disable_raw_mode before every process::exit that ends a guest program).
TerminalRestored == over /\ program = "guest" => ~raw_mode

\* Back at its prompt the shell reads the keyboard and writes the screen, whether
\* the last line ran, failed half way or named a file that is not there
\* (execute_pipeline).
SinksRestored == at = "read_line" => output_sink = "Vio" /\ input_source = "Kbd"

\* What is changed for a while is put back: the terminal for the host, the sinks
\* for the next line of the shell.
PutBack == TerminalRestored /\ SinksRestored

\* Once the end of the process is requested no read of the keyboard holds the
\* program's thread: it is back in the guest, or in a child the shell runs, or
\* the process is over.
ReadsEnd == exit_requested ~> (over \/ at \in {"guest", "spawn_external", "done"})

=============================================================================
