------------------------------- MODULE Media --------------------------------
(***************************************************************************)
(* The multimedia calls of loader/mmpm.rs.  mmpm_mgr holds the MCI devices *)
(* of the process; MCI_PLAY takes its lock four times, and the watcher     *)
(* thread of a play with MCI_NOTIFY takes it once more when the sound is   *)
(* over.  SDL gives the sounds and the tones of DosBeep their audio        *)
(* devices and uses a number again once it is closed.  Of the samples and  *)
(* the position it matters whether there is something left to play; the    *)
(* volume, and the calls that only read (MCI_STATUS, mciGetLastError) or   *)
(* refuse (MCI_RECORD), are left out.                                      *)
(***************************************************************************)
EXTENDS Naturals, Sequences, FiniteSetsExt

CONSTANTS MciThread,     \* guest threads that send MCI commands
          LastDevice,    \* the device number after which they start again (u16::MAX)
          MaxAudio,      \* audio devices SDL can have open
          MaxWatchers    \* bound on the plays with MCI_NOTIFY

ASSUME MediaAssumption == LastDevice \in Nat \ {0} /\ {MaxAudio, MaxWatchers} \subseteq Nat

VARIABLES devices, next_device_id,
          open_audio,    \* the audio devices SDL has open
          watchers,      \* the watcher threads, in the order of their plays
          playing        \* what each guest thread is doing

mediaVars == <<devices, next_device_id, open_audio, watchers, playing>>

Idle == [at |-> "idle", dev |-> 0, audio |-> 0]

MediaInit == /\ devices = <<>> /\ next_device_id = 1
             /\ open_audio = {} /\ watchers = <<>>
             /\ playing = [t \in MciThread |-> Idle]

Put(f, d, v)  == [x \in DOMAIN f \cup {d} |-> IF x = d THEN v ELSE f[x]]
Less(f, d)    == [x \in DOMAIN f \ {d} |-> f[x]]
Does(t, call) == playing' = [playing EXCEPT ![t] = call]

\* The flag that mci_stop, a new play and Drop share with the watcher is set.
Cancelled(d) ==
  IF devices[d].notify_cancel = 0 THEN watchers
  ELSE [watchers EXCEPT ![devices[d].notify_cancel].cancel = TRUE]

Closed(d) == open_audio \ {devices[d].audio_dev}

\* SDL gives the least number that is not open.
FreeAudio == {a \in 1 .. MaxAudio : a \notin open_audio /\ \A b \in 1 .. a - 1 : b \in open_audio}

----------------------------------------------------------------------------
(* The calls, and the ones that take the lock once.                        *)

Calls(t, calls, numbers) ==
  /\ playing[t] = Idle
  /\ \E call \in calls, d \in numbers : Does(t, [at |-> call, dev |-> d, audio |-> 0])
  /\ UNCHANGED <<devices, next_device_id, open_audio, watchers>>

\* The program may pass any number; 0, which is no device's, is refused by all
\* of them.  MCI_PLAY with MCI_FROM seeks first.
mci_send_command(t) ==
  Calls(t, {"close", "stop", "seek", "play", "from"}, 1 .. LastDevice)

\* A name stands for any device that has it, and for 0 if there is none.
mci_resolve_alias == DOMAIN devices

\* The lock is free again between the search for the name and the call.
mci_send_string(t) == Calls(t, {"close", "stop", "seek", "play"}, mci_resolve_alias)

\* impl Drop for MciDevice.
Drop(d) == watchers' = Cancelled(d) /\ open_audio' = Closed(d)

\* After LastDevice the numbers start again, and a device that still has the
\* number is dropped.  (A device opened without a file never plays: left out.)
mci_open_internal ==
  /\ devices' = Put(devices, next_device_id, [mode |-> "Stopped", audio_dev |-> 0,
                                              notify_cancel |-> 0, left |-> "sound"])
  /\ next_device_id' = IF next_device_id = LastDevice THEN 1 ELSE next_device_id + 1
  /\ IF next_device_id \in DOMAIN devices THEN Drop(next_device_id)
     ELSE UNCHANGED <<watchers, open_audio>>

\* The number the program is told is the one before the one that is next when
\* the lock is taken again: it may be any, and so may the one the program uses.
mci_open(t) ==
  /\ playing[t] = Idle
  /\ mci_open_internal
  /\ UNCHANGED playing

mci_close(t) ==
  /\ playing[t].at = "close"
  /\ LET d == playing[t].dev
     IN  IF d \in DOMAIN devices THEN Drop(d) /\ devices' = Less(devices, d)
         ELSE UNCHANGED <<watchers, open_audio, devices>>
  /\ Does(t, Idle)
  /\ UNCHANGED next_device_id

\* Mutant: the number of the audio device is kept.
StopKeepsNumber(d) ==
  IF d \notin DOMAIN devices THEN UNCHANGED <<devices, watchers, open_audio>>
  ELSE /\ Drop(d)
       /\ devices' = [devices EXCEPT ![d].mode = "Stopped", ![d].notify_cancel = 0]

Stops(d) ==
  IF d \notin DOMAIN devices THEN UNCHANGED <<devices, watchers, open_audio>>
  ELSE /\ Drop(d)
       /\ devices' = [devices EXCEPT ![d].mode = "Stopped", ![d].notify_cancel = 0,
                                     ![d].audio_dev = 0]

mci_stop(t) ==
  /\ playing[t].at = "stop"
  /\ Stops(playing[t].dev) /\ Does(t, Idle)
  /\ UNCHANGED next_device_id

\* Nothing is left to play after the end of the file; a seek back brings it back.
mci_seek_to(t) ==
  /\ playing[t].at \in {"seek", "from"}
  /\ LET d == playing[t].dev
     IN  IF d \in DOMAIN devices
         THEN \E left \in {"sound", "end"} : devices' = [devices EXCEPT ![d].left = left]
         ELSE UNCHANGED devices
  /\ Does(t, IF playing[t].at = "seek" THEN Idle ELSE [playing[t] EXCEPT !.at = "play"])
  /\ UNCHANGED <<next_device_id, open_audio, watchers>>

\* DosBeep: a tone has an audio device of its own until it is over.
beep_tone(t) ==
  /\ \/ /\ playing[t] = Idle
        /\ \E a \in FreeAudio : /\ open_audio' = open_audio \cup {a}
                                /\ Does(t, [Idle EXCEPT !.at = "beep", !.audio = a])
     \/ /\ playing[t].at = "beep"
        /\ open_audio' = open_audio \ {playing[t].audio} /\ Does(t, Idle)
  /\ UNCHANGED <<devices, next_device_id, watchers>>

----------------------------------------------------------------------------
(* MCI_PLAY.                                                               *)

\* First section: what to play is copied out; there may be none of it left after
\* the position of the device.
mci_play(t) ==
  /\ playing[t].at = "play"
  /\ LET d == playing[t].dev
     IN  Does(t, IF d \notin DOMAIN devices THEN Idle
                 ELSE [playing[t] EXCEPT
                         !.at = IF devices[d].left = "end" THEN "empty" ELSE "copied"])
  /\ UNCHANGED <<devices, next_device_id, open_audio, watchers>>

\* Second section: the watcher of an earlier play is told that it is over.  A
\* play from the end returns here.
PlaySupersedes(t) ==
  /\ playing[t].at \in {"empty", "copied"}
  /\ LET d == playing[t].dev
     IN  IF d \in DOMAIN devices
         THEN /\ watchers' = Cancelled(d)
              /\ devices' = [devices EXCEPT ![d].notify_cancel = 0]
         ELSE UNCHANGED <<watchers, devices>>
  /\ Does(t, IF playing[t].at = "empty" THEN Idle ELSE [playing[t] EXCEPT !.at = "cleared"])
  /\ UNCHANGED <<next_device_id, open_audio>>

\* SDL opens an audio device and gets the samples, or refuses.
PlayOpensAudio(t) ==
  /\ playing[t].at = "cleared"
  /\ \/ Does(t, Idle) /\ UNCHANGED open_audio
     \/ \E a \in FreeAudio : /\ open_audio' = open_audio \cup {a}
                             /\ Does(t, [playing[t] EXCEPT !.at = "opened", !.audio = a])
  /\ UNCHANGED <<devices, next_device_id, watchers>>

\* Third section: the device gets the audio device, and the one it had is
\* closed.  If the device was closed meanwhile nobody closes the audio device.
\* The call waits, leaves a watcher behind or returns, as its flags say.
PlayUpdates(t) ==
  /\ playing[t].at = "opened"
  /\ LET d == playing[t].dev
     IN  IF d \in DOMAIN devices
         THEN /\ open_audio' = Closed(d)
              /\ devices' = [devices EXCEPT ![d].audio_dev = playing[t].audio,
                                            ![d].mode = "Playing"]
         ELSE UNCHANGED <<open_audio, devices>>
  /\ \E flag \in {"none", "wait", "notify"} :
       Does(t, IF flag = "none" THEN Idle ELSE [playing[t] EXCEPT !.at = flag, !.audio = 0])
  /\ UNCHANGED <<next_device_id, watchers>>

\* MCI_WAIT: the queue is empty, or the time the sound takes is up.
PlayWaited(t) ==
  /\ playing[t].at = "wait"
  /\ Stops(playing[t].dev) /\ Does(t, Idle)
  /\ UNCHANGED next_device_id

\* Fourth section, MCI_NOTIFY: the flag is stored with the device and the
\* watcher starts.
PlayWatched(t) ==
  /\ playing[t].at = "notify" /\ Len(watchers) < MaxWatchers
  /\ watchers' = Append(watchers, [dev |-> playing[t].dev, cancel |-> FALSE,
                                   at |-> "polling", posted |-> "nothing"])
  /\ devices' = IF playing[t].dev \in DOMAIN devices
                THEN [devices EXCEPT ![playing[t].dev].notify_cancel = Len(watchers) + 1]
                ELSE devices
  /\ Does(t, Idle)
  /\ UNCHANGED <<next_device_id, open_audio>>

----------------------------------------------------------------------------
(* The watcher thread.                                                     *)

Ended(posted) == [dev |-> 0, cancel |-> FALSE, at |-> "ended", posted |-> posted]

WatcherSuperseded(w) ==
  /\ watchers[w].at = "polling" /\ watchers[w].cancel
  /\ watchers' = [watchers EXCEPT ![w] = Ended("SUPERSEDED")]
  /\ UNCHANGED <<devices, next_device_id, open_audio, playing>>

\* The queue is empty, the audio device is closed, or an hour has passed.
WatcherLeaves(w) ==
  /\ watchers[w].at = "polling" /\ ~watchers[w].cancel
  /\ watchers' = [watchers EXCEPT ![w].at = "left"]
  /\ UNCHANGED <<devices, next_device_id, open_audio, playing>>

\* The flag is looked at once more; a watcher cancelled since says nothing.
WatcherChecks(w) ==
  /\ watchers[w].at = "left"
  /\ watchers' = [watchers EXCEPT ![w] = IF watchers[w].cancel THEN Ended("nothing")
                                               ELSE [watchers[w] EXCEPT !.at = "cleaning"]]
  /\ UNCHANGED <<devices, next_device_id, open_audio, playing>>

\* Mutant: without the device there is nothing to do.
CleansSilently(w) ==
  LET d == watchers[w].dev
  IN  /\ watchers' = [watchers EXCEPT ![w] =
                        Ended(IF d \in DOMAIN devices THEN "SUCCESSFUL" ELSE "nothing")]
      /\ devices' = IF d \in DOMAIN devices
                    THEN [devices EXCEPT ![d].audio_dev = 0, ![d].mode = "Stopped",
                                         ![d].notify_cancel = 0] ELSE devices
      /\ open_audio' = IF d \in DOMAIN devices THEN Closed(d) ELSE open_audio

\* Whatever the device plays now is stopped, and the window is told.
Cleans(w) ==
  LET d == watchers[w].dev
  IN  /\ watchers' = [watchers EXCEPT ![w] = Ended("SUCCESSFUL")]
      /\ devices' = IF d \in DOMAIN devices
                    THEN [devices EXCEPT ![d].audio_dev = 0, ![d].mode = "Stopped",
                                         ![d].notify_cancel = 0] ELSE devices
      /\ open_audio' = IF d \in DOMAIN devices THEN Closed(d) ELSE open_audio

WatcherCleans(w) ==
  /\ watchers[w].at = "cleaning" /\ Cleans(w)
  /\ UNCHANGED <<next_device_id, playing>>

----------------------------------------------------------------------------

Watching(w) == \/ WatcherSuperseded(w) \/ WatcherLeaves(w)
               \/ WatcherChecks(w) \/ WatcherCleans(w)

MediaNext ==
  \/ \E t \in MciThread :
       \/ mci_send_command(t) \/ mci_send_string(t)
       \/ mci_open(t) \/ mci_close(t) \/ mci_stop(t)
       \/ mci_seek_to(t) \/ beep_tone(t)
       \/ mci_play(t) \/ PlaySupersedes(t) \/ PlayOpensAudio(t)
       \/ PlayUpdates(t) \/ PlayWaited(t) \/ PlayWatched(t)
  \/ \E w \in DOMAIN watchers : Watching(w)

\* A watcher polls every 50 ms and gives up after an hour.
MediaFairness == \A w \in 1 .. MaxWatchers : WF_mediaVars(w \in DOMAIN watchers /\ Watching(w))

----------------------------------------------------------------------------
(* Properties.                                                             *)

\* An MCI device says it is playing exactly while it has an audio device, that
\* audio device is open, and no other MCI device has it: two plays, a stop, a
\* close and a watcher that ends late never leave a device with a number that
\* SDL has closed or given to another sound or tone (audio_dev of MciDevice).
SoundOwned ==
  /\ \A d \in DOMAIN devices :
       /\ (devices[d].mode = "Playing") = (devices[d].audio_dev /= 0)
       /\ devices[d].audio_dev \in open_audio \cup {0}
  /\ \A d, e \in DOMAIN devices :
       d /= e /\ devices[d].audio_dev /= 0 => devices[d].audio_dev /= devices[e].audio_dev
  /\ \A t \in MciThread : playing[t].at = "beep" =>
       /\ playing[t].audio \in open_audio
       /\ \A d \in DOMAIN devices : devices[d].audio_dev /= playing[t].audio

\* A play with MCI_NOTIFY that nothing supersedes ends with its MM_MCINOTIFY
\* message, even if the device was closed before the watcher started
\* (the watcher thread of mci_play_with_notify).
PlayNotified ==
  \A w \in 1 .. MaxWatchers :
    (w \in DOMAIN watchers /\ watchers[w].at = "polling")
      ~> (w \in DOMAIN watchers /\ (watchers[w].posted /= "nothing" \/ watchers[w].cancel))

=============================================================================
