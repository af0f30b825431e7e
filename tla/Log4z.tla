-------------------------------- MODULE Log4z --------------------------------
(***************************************************************************)
(* The logger the service, the client and the test application link,       *)
(* src/anCRS/log4z/log4z.cpp: threads that log, the queue between them and *)
(* the log thread, the free list of LogData blocks, changes of a logger's  *)
(* settings, and start and stop.  One logger (the main one) is modelled;   *)
(* rolling a file by day or size writes the same lines to another index of *)
(* the same file name and is left out.                                     *)
(***************************************************************************)
EXTENDS Naturals, Sequences, FiniteSets, Functions

CONSTANTS Threads,     \* the threads that log
          Blocks,      \* bound: addresses malloc can return
          Paths,       \* values of the logger's path
          MaxLogs,     \* bound: messages of each thread
          MaxChanges,  \* bound: changes of settings
          FreeLimit    \* blocks the free list keeps (200)

None == "none"

VARIABLES
  _runing,       \* set by the log thread, cleared by stop()
  _enable, _level, _path, _outfile,   \* the logger's settings
  _handle,       \* the path of the open file, or None
  _logs,         \* the queue, under _logLock
  _logsCache,    \* what the log thread has swapped out of it
  _freeLogDatas, \* the free list, under _freeLock
  heap,          \* blocks malloc has handed out
  data,          \* what each block holds
  app,           \* where each logging thread is, and the block it has
  count,         \* messages each thread has begun
  changes,       \* changes of settings so far
  log,           \* where the log thread is
  main,          \* where the thread that starts and stops the logger is
  \* history:
  wrote,         \* the messages written, with their files
  durable,       \* how many of them have been flushed
  discarded,     \* messages taken from the queue and not written
  owed,          \* messages queued when stop() began
  pushed,        \* messages in the order they were queued
  queued_path,   \* the path as of the last change queued
  due            \* for each message, queued_path when it was queued

vars == <<_runing, _enable, _level, _path, _outfile, _handle, _logs, _logsCache,
          _freeLogDatas, heap, data, app, count, changes, log, main, wrote, durable,
          discarded, owed, pushed, queued_path, due>>

settings == <<_enable, _level, _path, _outfile, _handle>>
blocks == <<_logs, _logsCache, _freeLogDatas, heap, data>>
history == <<wrote, durable, discarded, owed, pushed, queued_path, due>>

Hello == <<None, 1>>   \* the log thread's own first message
Empty == [type |-> None]
Idle == [pc |-> "idle", level |-> 0, block |-> None]

Messages == (Threads \X (1..MaxLogs)) \cup {Hello}

Init ==
  /\ _runing = FALSE
  /\ _enable = TRUE /\ _level = 0 /\ _outfile = TRUE /\ _handle = None
  /\ _path = CHOOSE p \in Paths : TRUE
  /\ queued_path = _path
  /\ _logs = <<>> /\ _logsCache = <<>> /\ _freeLogDatas = <<>> /\ heap = {}
  /\ data = [b \in Blocks |-> Empty]
  /\ app = [t \in Threads |-> Idle]
  /\ count = [t \in Threads |-> 0] /\ changes = 0
  /\ log = "none" /\ main = "init"
  /\ wrote = <<>> /\ durable = 0 /\ discarded = {} /\ owed = {} /\ pushed = <<>>
  /\ due = [m \in Messages |-> None]

-----------------------------------------------------------------------------
\* makeLogData: the last block of the free list, else one that malloc chooses.
Block == IF _freeLogDatas # <<>> THEN _freeLogDatas[Len(_freeLogDatas)]
                                 ELSE CHOOSE b \in Blocks : b \notin heap

Make(contents) ==
  /\ IF _freeLogDatas # <<>>
       THEN _freeLogDatas' = SubSeq(_freeLogDatas, 1, Len(_freeLogDatas) - 1) /\ heap' = heap
       ELSE Blocks \ heap # {} /\ heap' = heap \cup {Block} /\ UNCHANGED _freeLogDatas
  /\ data' = [data EXCEPT ![Block] = contents]

\* Variant of Free: a block beyond the limit stays in the list.
FreeTwice(b) ==
  /\ _freeLogDatas' = Append(_freeLogDatas, b)
  /\ heap' = IF Len(_freeLogDatas) < FreeLimit THEN heap ELSE heap \ {b}
  /\ data' = [data EXCEPT ![b] = Empty]

\* freeLogData: back to the free list while that is short, else to the heap.
\* (What a free block still holds is never read.)
Free(b) ==
  /\ data' = [data EXCEPT ![b] = Empty]
  /\ IF Len(_freeLogDatas) < FreeLimit
       THEN _freeLogDatas' = Append(_freeLogDatas, b) /\ heap' = heap
       ELSE heap' = heap \ {b} /\ UNCHANGED _freeLogDatas

Passes(level) == _runing /\ _enable /\ level >= _level

-----------------------------------------------------------------------------
(* A thread logs: prePushLog, makeLogData and pushLog, of the LOG macros.  *)

PrePushLog(t, level) ==
  /\ app[t].pc = "idle" /\ count[t] < MaxLogs
  /\ Passes(level)
  /\ count' = [count EXCEPT ![t] = @ + 1]
  /\ app' = [app EXCEPT ![t] = [Idle EXCEPT !.pc = "make", !.level = level]]
  /\ UNCHANGED <<_runing, settings, blocks, changes, log, main, history>>

MakeLogData(t) ==
  /\ app[t].pc = "make"
  /\ Make([type |-> "log", level |-> app[t].level, msg |-> <<t, count[t]>>])
  /\ app' = [app EXCEPT ![t] = [@ EXCEPT !.pc = "push", !.block = Block]]
  /\ UNCHANGED <<_runing, settings, _logs, _logsCache, count, changes, log, main, history>>

\* pushLog tests again, outside the lock: discard, or go on to the queue.
PushLogTest(t) ==
  /\ app[t].pc = "push"
  /\ IF Passes(data[app[t].block].level)
       THEN app' = [app EXCEPT ![t].pc = "append"] /\ UNCHANGED <<_freeLogDatas, heap, data>>
       ELSE Free(app[t].block) /\ app' = [app EXCEPT ![t] = Idle]
  /\ UNCHANGED <<_runing, settings, _logs, _logsCache, count, changes, log, main, history>>

PushLogAppend(t) ==
  /\ app[t].pc = "append"
  /\ _logs' = Append(_logs, app[t].block)
  /\ app' = [app EXCEPT ![t] = Idle]
  /\ pushed' = Append(pushed, <<t, count[t]>>)
  /\ due' = [due EXCEPT ![<<t, count[t]>>] = queued_path]
  /\ UNCHANGED <<_runing, settings, _logsCache, _freeLogDatas, heap, data, count, changes, log,
                 main, wrote, durable, discarded, owed, queued_path>>

-----------------------------------------------------------------------------
(* Settings, changed by the thread that starts and stops the logger:       *)
(* enableLogger, setLoggerLevel and setLoggerPath, through hotChange.      *)

\* onHotChange.
Apply(type, value) ==
  /\ _enable' = IF type = "enable" THEN value = 1 ELSE _enable
  /\ _level' = IF type = "level" THEN value ELSE _level
  /\ _path' = IF type = "path" THEN value ELSE _path

\* Switching a logger on and lowering its level take effect at once, and so
\* does every change while the log thread is not running.
AtOnce(type, value) ==
  ~_runing \/ (type = "enable" /\ value = 1) \/ (type = "level" /\ value <= _level)

Change(type, value) ==
  /\ main \in {"init", "started"}
  /\ changes < MaxChanges /\ changes' = changes + 1
  /\ queued_path' = IF type = "path" THEN value ELSE queued_path
  /\ \/ /\ AtOnce(type, value)
        /\ Apply(type, value)
        /\ UNCHANGED <<blocks, _outfile, _handle>>
     \/ /\ ~AtOnce(type, value)
        /\ Make([type |-> type, value |-> value])
        /\ _logs' = Append(_logs, Block)
        /\ UNCHANGED <<settings, _logsCache>>
  /\ UNCHANGED <<_runing, app, count, log, main, wrote, durable, discarded, owed, pushed, due>>

ChangeSettings ==
  \/ \E v \in 0..1 : Change("enable", v)
  \/ \E v \in 0..1 : Change("level", v)
  \/ \E v \in Paths : Change("path", v)

-----------------------------------------------------------------------------
(* start and stop.                                                         *)

\* start(): create the thread, then wait for it for ten milliseconds at most.
Start ==
  /\ main = "init"
  /\ main' = "starting" /\ log' = "begin"
  /\ UNCHANGED <<_runing, settings, blocks, app, count, changes, history>>

StartReturns ==
  /\ main = "starting"
  /\ main' = "started"
  /\ UNCHANGED <<_runing, settings, blocks, app, count, changes, log, history>>

InQueue == {data[b].msg : b \in {c \in Range(_logs \o _logsCache) : data[c].type = "log"}}

\* Variant of Stop: the thread is not told.
StopQuietly ==
  /\ main \in {"started", "stopped"}
  /\ IF _runing THEN main' = "joining" /\ owed' = InQueue
                ELSE main' = "stopped" /\ UNCHANGED owed
  /\ UNCHANGED <<_runing, settings, blocks, app, count, changes, log, wrote, durable, discarded,
                 pushed, queued_path, due>>

\* stop(), called by the program and again by the static destructor; it does
\* nothing when the log thread has not got as far as setting _runing.
Stop ==
  /\ main \in {"started", "stopped"}
  /\ IF _runing THEN main' = "joining" /\ owed' = InQueue
                ELSE main' = "stopped" /\ UNCHANGED owed
  /\ _runing' = FALSE
  /\ UNCHANGED <<settings, blocks, app, count, changes, log, wrote, durable, discarded, pushed,
                 queued_path, due>>

StopJoin ==
  /\ main = "joining" /\ log = "gone"
  /\ main' = "delete"
  /\ UNCHANGED <<_runing, settings, blocks, app, count, changes, log, history>>

\* The free list is emptied without its lock.
StopDelete ==
  /\ main = "delete"
  /\ IF _freeLogDatas = <<>>
       THEN main' = "stopped" /\ UNCHANGED <<_freeLogDatas, heap>>
       ELSE /\ heap' = heap \ {_freeLogDatas[Len(_freeLogDatas)]}
            /\ _freeLogDatas' = SubSeq(_freeLogDatas, 1, Len(_freeLogDatas) - 1)
            /\ UNCHANGED main
  /\ UNCHANGED <<_runing, settings, _logs, _logsCache, data, app, count, changes, log, history>>

-----------------------------------------------------------------------------
(* The log thread, run().                                                  *)

\* It sets _runing, logs that it has started and posts the semaphore.
RunBegin ==
  /\ log = "begin"
  /\ _runing' = TRUE
  /\ log' = "pop"
  /\ IF _enable
       THEN /\ Make([type |-> "log", level |-> 1, msg |-> Hello])
            /\ _logs' = Append(_logs, Block)
            /\ pushed' = Append(pushed, Hello)
            /\ due' = [due EXCEPT ![Hello] = queued_path]
       ELSE UNCHANGED <<_logs, _freeLogDatas, heap, data, pushed, due>>
  /\ UNCHANGED <<settings, _logsCache, app, count, changes, main, wrote, durable, discarded, owed,
                 queued_path>>

\* popLog: the whole queue becomes the cache when that is empty.
PopSwap ==
  /\ log = "pop" /\ _logsCache = <<>> /\ _logs # <<>>
  /\ _logsCache' = _logs /\ _logs' = <<>>
  /\ UNCHANGED <<_runing, settings, _freeLogDatas, heap, data, app, count, changes, log, main,
                 history>>

\* Variant of PopChange: the file stays open.
PopChangeOpen ==
  /\ log = "pop" /\ _logsCache # <<>> /\ data[Head(_logsCache)].type # "log"
  /\ Apply(data[Head(_logsCache)].type, data[Head(_logsCache)].value)
  /\ _logsCache' = Tail(_logsCache)
  /\ Free(Head(_logsCache))
  /\ UNCHANGED <<_runing, _outfile, _handle, _logs, app, count, changes, log, main, wrote,
                 durable, discarded, owed, pushed, queued_path, due>>

\* A change of settings: apply it, close the file, free the block.
PopChange ==
  /\ log = "pop" /\ _logsCache # <<>> /\ data[Head(_logsCache)].type # "log"
  /\ Apply(data[Head(_logsCache)].type, data[Head(_logsCache)].value)
  /\ _handle' = None /\ durable' = Len(wrote)
  /\ _logsCache' = Tail(_logsCache)
  /\ Free(Head(_logsCache))
  /\ UNCHANGED <<_runing, _outfile, _logs, app, count, changes, log, main, wrote, discarded,
                 owed, pushed, queued_path, due>>

\* A message: discarded by the settings of the moment, or written to the open
\* file, opened first if need be.  When that fails the logger gives up files.
PopMessage ==
  /\ log = "pop" /\ _logsCache # <<>>
  /\ LET d == data[Head(_logsCache)] IN
       /\ d.type = "log"
       /\ \/ /\ ~_enable \/ d.level < _level \/ ~_outfile
             /\ discarded' = discarded \cup {d.msg}
             /\ UNCHANGED <<_outfile, _handle, wrote>>
          \/ /\ _enable /\ d.level >= _level /\ _outfile
             /\ _handle' = IF _handle = None THEN _path ELSE _handle
             /\ wrote' = Append(wrote, <<d.msg, _handle'>>)
             /\ UNCHANGED <<_outfile, discarded>>
          \/ /\ _enable /\ d.level >= _level /\ _outfile /\ _handle = None
             /\ _outfile' = FALSE
             /\ discarded' = discarded \cup {d.msg}
             /\ UNCHANGED <<_handle, wrote>>
  /\ _logsCache' = Tail(_logsCache)
  /\ Free(Head(_logsCache))
  /\ UNCHANGED <<_runing, _enable, _level, _path, _logs, app, count, changes, log, main,
                 durable, owed, pushed, queued_path, due>>

\* Nothing to pop: flush, or close the file of a logger that is off; sleep.
Flush ==
  /\ log = "pop" /\ _logsCache = <<>> /\ _logs = <<>>
  /\ durable' = Len(wrote)
  /\ _handle' = IF _enable THEN _handle ELSE None
  /\ log' = "test"
  /\ UNCHANGED <<_runing, _enable, _level, _path, _outfile, blocks, app, count, changes, main,
                 wrote, discarded, owed, pushed, queued_path, due>>

\* Variant of RunTest: the queue is not looked at again.
RunTestFlag ==
  /\ log = "test"
  /\ IF ~_runing
       THEN log' = "gone" /\ _enable' = FALSE /\ _handle' = (IF _enable THEN None ELSE _handle)
            /\ durable' = Len(wrote)
       ELSE log' = "pop" /\ UNCHANGED <<_enable, _handle, durable>>
  /\ UNCHANGED <<_runing, _level, _path, _outfile, blocks, app, count, changes, main, wrote,
                 discarded, owed, pushed, queued_path, due>>

\* Quit when stopped with an empty queue: the logger is switched off and its
\* file closed.
RunTest ==
  /\ log = "test"
  /\ IF ~_runing /\ _logs = <<>>
       THEN log' = "gone" /\ _enable' = FALSE /\ _handle' = (IF _enable THEN None ELSE _handle)
            /\ durable' = Len(wrote)
       ELSE log' = "pop" /\ UNCHANGED <<_enable, _handle, durable>>
  /\ UNCHANGED <<_runing, _level, _path, _outfile, blocks, app, count, changes, main, wrote,
                 discarded, owed, pushed, queued_path, due>>

-----------------------------------------------------------------------------
AppStep(t) == MakeLogData(t) \/ PushLogTest(t) \/ PushLogAppend(t)
MainStep == StartReturns \/ StopJoin \/ StopDelete
LogStep == RunBegin \/ PopSwap \/ PopChange \/ PopMessage \/ Flush \/ RunTest

Next ==
  \/ \E t \in Threads : AppStep(t) \/ \E level \in 0..1 : PrePushLog(t, level)
  \/ ChangeSettings
  \/ Start \/ Stop \/ MainStep
  \/ LogStep

\* The log thread and a stop() under way run on; nobody has to log or stop.
Fairness == WF_vars(LogStep) /\ WF_vars(MainStep)

Spec == Init /\ [][Next]_vars /\ Fairness

-----------------------------------------------------------------------------
Written == {wrote[i][1] : i \in DOMAIN wrote}

\* log4z.h: no log is lost on a normal exit.  What was queued when stop() began
\* is on disk, or was filtered by the settings, when the log thread is gone,
\* although the thread looks at the flag and at the queue without the lock.
NothingLost ==
  (log = "gone") => /\ owed \subseteq Written \cup discarded
                    /\ durable = Len(wrote)

\* Every message is written once, in the order of the queue, into the file its
\* logger had when it was queued: changes queue up behind the messages.
WrittenInTurn ==
  /\ \A i \in DOMAIN wrote : wrote[i][2] = due[wrote[i][1]]
  /\ [i \in DOMAIN wrote |-> wrote[i][1]] = SelectSeq(pushed, LAMBDA m : m \in Written)

Holders == {t \in Threads : app[t].pc \in {"push", "append"}}
Held == {app[t].block : t \in Holders}
Queued == _freeLogDatas \o _logs \o _logsCache

\* A block is in one place at a time and allocated, until stop() empties the
\* free list: no message is written over by another thread's.
BlocksInOnePlace ==
  main \notin {"delete", "stopped"} =>
    /\ IsInjective(Queued)
    /\ Held \cap Range(Queued) = {}
    /\ Cardinality(Held) = Cardinality(Holders)
    /\ Held \cup Range(Queued) \subseteq heap

\* stop() waits for the log thread, and has returned.
Stopping == main \in {"joining", "delete"}
Stopped == main = "stopped"
=============================================================================
