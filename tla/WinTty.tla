------------------------------- MODULE WinTty -------------------------------
(***************************************************************************)
(* Reading the console on Windows, win/tty.c: in raw mode a wait on the    *)
(* console's input, in line mode a thread that blocks in ReadConsole.      *)
(* Stopping interrupts either by writing a record to the console's input;  *)
(* for a line it first takes uv_tty_output_lock, which the reading thread  *)
(* then releases, so that no handle writes to the screen meanwhile.        *)
(*                                                                         *)
(* One handle reads; another one of the loop writes.  The steps of a call  *)
(* are those the reading thread can come between; a read callback is two   *)
(* steps (ttpc = "callback", or "line" for that of a line).  Failures of   *)
(* the console are left out, but for those of a handle that is closed.     *)
(***************************************************************************)
EXTENDS Naturals, Sequences, FiniteSets

CONSTANTS MaxKeys,       \* bound: lines the user enters
          MaxReadStarts  \* bound: reads started and modes set

VARIABLES
  tflags,       \* reading, read_pending, raw, cancellation_pending, closing, closed
  console,      \* the handle to the console: open, closed
  tactive,      \* activecnt
  treqs,        \* reqs_pending
  line_buffer,  \* read_line_buffer has a length: the read under way is a line's
  half_key,     \* last_key_len > 0
  posted_read,  \* the read request is posted to the loop
  raw_wait,     \* read_raw_wait is registered
  rpc,          \* uv_tty_line_read_thread: none, start, enter, blocked, after
  status,       \* uv__read_console_status
  output_lock,  \* uv_tty_output_lock
  input,        \* records in the console's input: enter, return (written), null (written)
  ttpc,         \* where the loop's thread is
  call, base,   \* the call that stops a read, and where it came from: loop, callback
  mistaken,     \* history: a read of keys was cancelled as if it were a line's
  keys, tstarts \* counts for the bounds

ttyVars == <<tflags, console, tactive, treqs, line_buffer, half_key, posted_read, raw_wait,
             rpc, status, output_lock, input, ttpc, call, base, mistaken, keys, tstarts>>
readVars == <<treqs, line_buffer, posted_read, raw_wait>>
handleVars == <<tflags, console, tactive, readVars, half_key>>
threadVars == <<rpc, status, output_lock>>
loopVars == <<ttpc, call, base, mistaken>>
boundVars == <<keys, tstarts>>

Init ==
  /\ tflags = {} /\ console = "open" /\ tactive = 0 /\ treqs = 0
  /\ line_buffer = FALSE /\ half_key = FALSE /\ posted_read = FALSE /\ raw_wait = FALSE
  /\ rpc = "none" /\ status = "not_started" /\ output_lock = 1 /\ input = <<>>
  /\ ttpc = "loop" /\ call = "none" /\ base = "loop" /\ mistaken = FALSE /\ keys = 0 /\ tstarts = 0

InProgram == ttpc \in {"loop", "callback", "line"}
Reading == "reading" \in tflags

-----------------------------------------------------------------------------
(* Starting. *)

\* uv_tty_queue_read, with fl the flags: the wait, or the thread.
QueueRead(fl) ==
  IF "raw" \in fl
    THEN raw_wait' = TRUE /\ line_buffer' = FALSE /\ UNCHANGED <<rpc, status>>
    ELSE rpc' = "start" /\ status' = "not_started" /\ line_buffer' = TRUE /\ UNCHANGED raw_wait

\* Variant of ReadStartFrom: a read that is still pending is not looked at.
ReadStartAnew(fl) ==
  /\ tactive' = tactive + 1 /\ tflags' = fl \cup {"reading", "read_pending"}
  /\ treqs' = treqs + 1 /\ QueueRead(fl) /\ UNCHANGED posted_read

\* uv_tty_read_start, with fl the flags: a read still pending serves, and so do keys
\* left over from a callback that stopped reading half-way.
ReadStartFrom(fl) ==
  /\ tactive' = tactive + 1 /\ tflags' = fl \cup {"reading", "read_pending"}
  /\ IF "read_pending" \in fl THEN UNCHANGED <<readVars, rpc, status>>
     ELSE IF half_key
       THEN /\ posted_read' = TRUE /\ treqs' = treqs + 1
            /\ UNCHANGED <<line_buffer, raw_wait, rpc, status>>
       ELSE treqs' = treqs + 1 /\ QueueRead(fl) /\ UNCHANGED posted_read

ReadStart ==
  /\ InProgram /\ ~Reading /\ "closing" \notin tflags /\ tstarts < MaxReadStarts
  /\ tstarts' = tstarts + 1
  /\ ReadStartFrom(tflags)
  /\ UNCHANGED <<console, half_key, output_lock, input, loopVars, keys>>

-----------------------------------------------------------------------------
(* Stopping: uv_tty_read_stop and uv__cancel_read_console. *)

\* Where call c goes on when the read was stopped, having come from at.
After(c, at) == CASE c = "stop" -> at [] c = "mode" -> "switch" [] c = "close" -> "close"

\* uv_tty_read_stop in call c: nothing is written to a console that is closed.  The
\* flags tell keys from a line here, so that a pending read of keys whose handle is not
\* raw any more, or that only serves a half-delivered key, is mistaken for a line's.
StopFrom(c) ==
  /\ tflags' = tflags \ {"reading"} /\ tactive' = tactive - 1
  /\ call' = c /\ base' = ttpc
  /\ ttpc' = IF "read_pending" \in tflags /\ {"raw", "cancellation_pending"} \cap tflags = {}
               THEN "lock" ELSE After(c, ttpc)
  /\ mistaken' = (mistaken \/ (ttpc' = "lock" /\ ~line_buffer))
  /\ input' = IF {"read_pending", "raw"} \subseteq tflags /\ console' = "open"
                THEN Append(input, "null") ELSE input
  /\ UNCHANGED <<readVars, half_key, threadVars>>

ReadStop == InProgram /\ Reading /\ UNCHANGED console /\ StopFrom("stop") /\ UNCHANGED boundVars

CancelLock ==
  /\ ttpc = "lock" /\ output_lock = 1
  /\ output_lock' = 0 /\ ttpc' = "trap"
  /\ UNCHANGED <<handleVars, rpc, status, input, call, base, mistaken, boundVars>>

\* Variant of CancelTrap: the lock is left to a thread that does not read.
CancelTrapKeeps ==
  /\ ttpc = "trap"
  /\ status' = "trap_requested"
  /\ IF status = "in_progress"
       THEN ttpc' = "write" /\ UNCHANGED <<tflags, output_lock>>
       ELSE /\ ttpc' = After(call, base)
            /\ tflags' = tflags \cup {"cancellation_pending"} /\ UNCHANGED output_lock
  /\ UNCHANGED <<console, tactive, readVars, half_key, rpc, input, call, base, mistaken,
                 boundVars>>

\* The exchange tells whether the thread is in ReadConsole and will release the lock.
CancelTrap ==
  /\ ttpc = "trap"
  /\ status' = "trap_requested"
  /\ IF status = "in_progress"
       THEN ttpc' = "write" /\ UNCHANGED <<tflags, output_lock>>
       ELSE /\ output_lock' = output_lock + 1 /\ ttpc' = After(call, base)
            /\ tflags' = tflags \cup {"cancellation_pending"}
  /\ UNCHANGED <<console, tactive, readVars, half_key, rpc, input, call, base, mistaken,
                 boundVars>>

\* The Return that makes ReadConsole return.  A failure to write it leaves the read
\* unmarked.
CancelWrite ==
  /\ ttpc = "write"
  /\ ttpc' = After(call, base)
  /\ IF console = "open"
       THEN /\ input' = Append(input, "return")
            /\ tflags' = tflags \cup {"cancellation_pending"}
       ELSE UNCHANGED <<input, tflags>>
  /\ UNCHANGED <<console, tactive, readVars, half_key, threadVars, call, base, mistaken,
                 boundVars>>

-----------------------------------------------------------------------------
(* The reading thread, the wait, and the user at the keyboard. *)

\* Variant of ThreadStart: a trap that was set first is overwritten.
ThreadStartBlind ==
  /\ rpc = "start"
  /\ status' = "in_progress" /\ rpc' = "enter"
  /\ UNCHANGED <<handleVars, output_lock, input, loopVars, boundVars>>

\* A thread that finds a trap does not read.
ThreadStart ==
  /\ rpc = "start"
  /\ status' = "in_progress"
  /\ IF status = "trap_requested" THEN rpc' = "none" /\ posted_read' = TRUE
                                  ELSE rpc' = "enter" /\ UNCHANGED posted_read
  /\ UNCHANGED <<tflags, console, tactive, treqs, line_buffer, half_key, raw_wait, output_lock,
                 input, loopVars, boundVars>>

\* ReadConsole fails at once on a handle that is closed.
ThreadEnters ==
  /\ rpc = "enter"
  /\ rpc' = IF console = "open" THEN "blocked" ELSE "after"
  /\ UNCHANGED <<handleVars, status, output_lock, input, loopVars, boundVars>>

\* ReadConsole returns with a line, the user's or the one that was written.
ConsoleReturns ==
  /\ rpc = "blocked"
  /\ \E i \in 1..Len(input) :
       /\ input[i] # "null" /\ \A j \in 1..(i - 1) : input[j] = "null"
       /\ input' = SubSeq(input, i + 1, Len(input))
  /\ rpc' = "after"
  /\ UNCHANGED <<handleVars, status, output_lock, loopVars, boundVars>>

\* Variant of ThreadEnd: the lock is left to the thread that took it.
ThreadEndKeeps ==
  /\ rpc = "after"
  /\ status' = "completed" /\ rpc' = "none" /\ posted_read' = TRUE
  /\ UNCHANGED <<tflags, console, tactive, treqs, line_buffer, half_key, raw_wait, output_lock,
                 input, loopVars, boundVars>>

\* A thread that was trapped meanwhile releases the lock, and posts.
ThreadEnd ==
  /\ rpc = "after"
  /\ status' = "completed" /\ rpc' = "none" /\ posted_read' = TRUE
  /\ output_lock' = IF status = "trap_requested" THEN output_lock + 1 ELSE output_lock
  /\ UNCHANGED <<tflags, console, tactive, treqs, line_buffer, half_key, raw_wait, input,
                 loopVars, boundVars>>

\* uv_tty_post_raw_read: the wait is over when there is input.
RawWaitEnds ==
  /\ raw_wait /\ input # <<>>
  /\ raw_wait' = FALSE /\ posted_read' = TRUE
  /\ UNCHANGED <<tflags, console, tactive, treqs, line_buffer, half_key, threadVars, input,
                 loopVars, boundVars>>

UserEnters ==
  /\ keys < MaxKeys
  /\ keys' = keys + 1 /\ input' = Append(input, "enter")
  /\ UNCHANGED <<handleVars, threadVars, loopVars, tstarts>>

-----------------------------------------------------------------------------
(* The loop: uv_process_tty_read_req tells lines from keys by the buffer. *)

\* Up to the callback: a line, or nothing when the read was cancelled.  (One that
\* failed keeps its mark, on a handle that is closing.)
ProcessLine ==
  /\ ttpc = "loop" /\ posted_read /\ line_buffer
  /\ posted_read' = FALSE /\ line_buffer' = FALSE
  /\ tflags' = tflags \ {"read_pending", "cancellation_pending"}
  /\ ttpc' = "line"
  /\ UNCHANGED <<console, tactive, treqs, half_key, raw_wait, threadVars, input, call, base,
                 mistaken, boundVars>>

\* Keys are taken only while the handle reads and is raw, here up to the first, which
\* the callback may take half of; other records are ignored.
ProcessRaw ==
  /\ ttpc = "loop" /\ posted_read /\ ~line_buffer
  /\ posted_read' = FALSE
  /\ tflags' = tflags \ {"read_pending"}
  /\ LET taken == IF {"reading", "raw"} \subseteq tflags /\ ~half_key
                    THEN {i \in 1..Len(input) : \A j \in 1..(i - 1) : input[j] = "null"} ELSE {}
         key == half_key \/ \E i \in taken : input[i] # "null"
     IN  /\ input' = [i \in 1..(Len(input) - Cardinality(taken)) |-> input[i + Cardinality(taken)]]
         /\ IF key /\ {"reading", "raw"} \subseteq tflags
              THEN ttpc' = "callback" /\ half_key' \in BOOLEAN
              ELSE ttpc' = "rest" /\ UNCHANGED half_key
  /\ UNCHANGED <<console, tactive, treqs, line_buffer, raw_wait, threadVars, call, base,
                 mistaken, boundVars>>

\* Variant of ProcessRest: a read that the callback started is not looked at.
ProcessRestAgain ==
  /\ ttpc \in {"callback", "line", "rest"} /\ ttpc' = "loop"
  /\ half_key' = (half_key /\ ~(ttpc = "callback" /\ Reading))
  /\ IF Reading
       THEN QueueRead(tflags) /\ tflags' = tflags \cup {"read_pending"} /\ UNCHANGED treqs
       ELSE treqs' = treqs - 1 /\ UNCHANGED <<tflags, line_buffer, raw_wait, rpc, status>>
  /\ UNCHANGED <<console, tactive, posted_read, output_lock, input, call, base, mistaken,
                 boundVars>>

\* After the callback, which for keys is given the rest of the key while the handle
\* reads: one request less, and another read.
ProcessRest ==
  /\ ttpc \in {"callback", "line", "rest"} /\ ttpc' = "loop"
  /\ half_key' = (half_key /\ ~(ttpc = "callback" /\ Reading))
  /\ IF Reading /\ "read_pending" \notin tflags
       THEN QueueRead(tflags) /\ tflags' = tflags \cup {"read_pending"} /\ UNCHANGED treqs
       ELSE treqs' = treqs - 1 /\ UNCHANGED <<tflags, line_buffer, raw_wait, rpc, status>>
  /\ UNCHANGED <<console, tactive, posted_read, output_lock, input, call, base, mistaken,
                 boundVars>>

-----------------------------------------------------------------------------
(* The other calls. *)

\* uv_tty_set_mode stops a handle that reads first.
SetMode ==
  /\ InProgram /\ "closing" \notin tflags /\ tstarts < MaxReadStarts
  /\ tstarts' = tstarts + 1
  /\ IF Reading
       THEN UNCHANGED console /\ StopFrom("mode")
       ELSE /\ ttpc' = "switch" /\ call' = "none" /\ base' = ttpc /\ UNCHANGED mistaken
            /\ UNCHANGED <<handleVars, threadVars, input>>
  /\ UNCHANGED keys

\* The mode is changed under the lock, and reading is started again.
SwitchMode ==
  LET fl == IF "raw" \in tflags THEN tflags \ {"raw"} ELSE tflags \cup {"raw"}
  IN  /\ ttpc = "switch" /\ output_lock = 1
      /\ ttpc' = base
      /\ IF call = "mode"
           THEN ReadStartFrom(fl)
           ELSE tflags' = fl /\ UNCHANGED <<tactive, readVars, rpc, status>>
      /\ UNCHANGED <<console, half_key, output_lock, input, call, base, mistaken, boundVars>>

\* uv_tty_write on the other handle: at once, under the lock; here when it has to wait.
Write ==
  /\ InProgram /\ output_lock = 0
  /\ ttpc' = "output" /\ call' = "none" /\ base' = ttpc
  /\ UNCHANGED <<mistaken, handleVars, threadVars, input, boundVars>>
WriteGoesOn ==
  /\ ttpc = "output" /\ output_lock = 1
  /\ ttpc' = base
  /\ UNCHANGED <<handleVars, threadVars, input, call, base, mistaken, boundVars>>

\* uv_tty_close closes the console, and then stops the read.
Close ==
  /\ InProgram /\ "closing" \notin tflags
  /\ console' = "closed"
  /\ IF Reading THEN StopFrom("close")
                ELSE /\ ttpc' = "close" /\ call' = "close" /\ base' = ttpc /\ UNCHANGED mistaken
                     /\ UNCHANGED <<tflags, tactive, readVars, half_key, threadVars, input>>
  /\ UNCHANGED boundVars
CloseRest ==
  /\ ttpc = "close"
  /\ tflags' = tflags \cup {"closing"} /\ ttpc' = base
  /\ UNCHANGED <<console, tactive, readVars, half_key, threadVars, input, call, base,
                 mistaken, boundVars>>

\* Variant of Endgame: requests are not waited for.
EndgameAtOnce ==
  /\ ttpc = "loop" /\ "closing" \in tflags /\ "closed" \notin tflags
  /\ tflags' = tflags \cup {"closed"}
  /\ UNCHANGED <<console, tactive, readVars, half_key, threadVars, input, loopVars, boundVars>>

\* uv_tty_endgame, wanted by uv_tty_close or by the last request.
Endgame ==
  /\ ttpc = "loop" /\ "closing" \in tflags /\ "closed" \notin tflags /\ treqs = 0
  /\ tflags' = tflags \cup {"closed"}
  /\ UNCHANGED <<console, tactive, readVars, half_key, threadVars, input, loopVars, boundVars>>

Program == ReadStart \/ ReadStop \/ SetMode \/ Write \/ Close
LoopGoesOn ==
  \/ CancelLock \/ CancelTrap \/ CancelWrite \/ SwitchMode \/ WriteGoesOn \/ CloseRest
  \/ ProcessLine \/ ProcessRaw \/ ProcessRest \/ Endgame
ReadingEnds == ThreadStart \/ ThreadEnters \/ ConsoleReturns \/ ThreadEnd \/ RawWaitEnds

Next == Program \/ LoopGoesOn \/ ReadingEnds \/ UserEnters

\* The threads run; the user need not enter anything.
Fairness == WF_ttyVars(LoopGoesOn) /\ WF_ttyVars(ReadingEnds)
Spec == Init /\ [][Next]_ttyVars /\ Fairness

-----------------------------------------------------------------------------
\* The lock is free, or held by the loop's thread, or by a thread that is still to
\* see that it was trapped; it is never released twice.
TtyLockHeld ==
  /\ output_lock \in {0, 1}
  /\ output_lock = 1 \/ ttpc = "trap"
       \/ (status = "trap_requested" /\ rpc \in {"enter", "blocked", "after"})

\* uv__cancel_read_console says of the lock that "it will be the ReadConsole thread's
\* responsibility to release the lock": so it is, as long as no read of keys was
\* cancelled as if it were a line's.  Then no thread may be there to release it.
TtyLockReleased == mistaken \/ TtyLockHeld

\* A read that is pending is under way in one place, none is otherwise, and the close
\* callback finds nothing under way.
TtyReadsOnce ==
  LET places == {x \in {"thread"} : rpc # "none"} \cup {x \in {"wait"} : raw_wait}
                  \cup {x \in {"posted"} : posted_read}
  IN  /\ Cardinality(places) = IF "read_pending" \in tflags THEN 1 ELSE 0
      /\ "closed" \in tflags => places = {} /\ tactive = 0

\* The console was closed under the read, so nothing was written to end it, and the
\* user has pressed no key that does.
AwaitsUser ==
  /\ console = "closed"
  /\ \/ /\ rpc = "blocked" /\ "cancellation_pending" \notin tflags
        /\ \A i \in 1..Len(input) : input[i] = "null"
     \/ raw_wait /\ input = <<>>

\* The loop's thread gets the lock it waits for, a read that is stopped ends although
\* nobody presses a key, and a handle that is closed is done.
ReadStopped == "read_pending" \in tflags /\ ~Reading
Waits == ttpc \in {"lock", "switch", "output"} \/ "closing" \in tflags \/ ReadStopped
Waited ==
  \/ "closed" \in tflags
  \/ InProgram /\ "closing" \notin tflags /\ ~ReadStopped
TtyGoesOn == Waits ~> Waited \/ AwaitsUser \/ mistaken
=============================================================================
