------------------------------ MODULE LogStream ------------------------------
(***************************************************************************)
(* The page of the logs, src/web/src/views/LogsView.vue with               *)
(* src/web/src/api/logs.ts.  It loads a history once and follows a stream  *)
(* of the hub of src/admin_log.go, which replays a few entries whenever it *)
(* is opened.  An entry is a number, in the order of the pushes.           *)
(***************************************************************************)
EXTENDS Naturals, Sequences

CONSTANTS MaxLog,        \* bound: so many entries are pushed
          MaxUpsets,     \* bound: so many clears and breaks of the stream
          HubSize,       \* maxAdminLogEntries
          HistorySize,   \* logsApi.list(500)
          ReplaySize,    \* appLogHub.recent(200)
          ChannelSize,   \* the buffer of a subscriber
          MaxEntries     \* MAX_ENTRIES

ASSUME LogAssumption ==
    /\ MaxLog \in Nat /\ MaxUpsets \in Nat
    /\ \A n \in {HubSize, HistorySize, ReplaySize, ChannelSize, MaxEntries} : n \in Nat \ {0}
    /\ ReplaySize <= MaxEntries /\ HistorySize <= MaxEntries

VARIABLES hub,           \* appLogHub.entries
          pushed,        \* so many entries were pushed
          logs,          \* the page
          stream,        \* the EventSource and the handler that serves it
          upsets         \* so many clears and breaks

logVars == <<hub, pushed, logs, stream, upsets>>

-----------------------------------------------------------------------------

\* The last n elements of a sequence.
Recent(s, n) == IF Len(s) <= n THEN s ELSE SubSeq(s, Len(s) - n + 1, Len(s))

\* "history" is the answer of the first load; "timers" counts the
\* reconnections that wait for their three seconds; "ran" says that
\* connectStream was reached.
Logs == [shown: BOOLEAN, entries: Seq(1..MaxLog), pending: Seq(1..MaxLog),
         call: {"none", "sent", "served"}, history: Seq(1..MaxLog),
         clearing: {"none", "sent", "served"}, timers: 0..1, ran: BOOLEAN]

\* "at" is where the handler stands: it writes the replay, and then it
\* subscribes.  "channel" is the subscriber's buffer, "wire" what the browser
\* has not read yet; "gap" says that an entry went by unseen: between replay
\* and subscription, past a full buffer, or by a clear.
Stream == [at: {"closed", "opening", "replayed", "subscribed"},
           channel: Seq(1..MaxLog), wire: Seq(1..MaxLog), gap: BOOLEAN]
ClosedStream == [at |-> "closed", channel |-> <<>>, wire |-> <<>>, gap |-> FALSE]
OpeningStream == [ClosedStream EXCEPT !.at = "opening"]

\* Mutant of PushEntry: the hub is not trimmed.
PushUntrimmed ==
    /\ pushed < MaxLog
    /\ pushed' = pushed + 1
    /\ hub' = Append(hub, pushed + 1)
    /\ UNCHANGED <<logs, stream, upsets>>

\* pushEntry, appendLine
PushEntry ==
    /\ pushed < MaxLog
    /\ pushed' = pushed + 1
    /\ hub' = Recent(Append(hub, pushed + 1), HubSize)
    /\ stream' = CASE stream.at = "subscribed" /\ Len(stream.channel) < ChannelSize ->
                        [stream EXCEPT !.channel = Append(@, pushed + 1)]
                   [] stream.at = "subscribed" /\ Len(stream.channel) = ChannelSize ->
                        [stream EXCEPT !.gap = TRUE]
                   [] stream.at = "replayed" -> [stream EXCEPT !.gap = TRUE]
                   [] OTHER -> stream
    /\ UNCHANGED <<logs, upsets>>

OpenLogs ==
    /\ ~logs.shown /\ ~logs.ran /\ logs.call = "none"
    /\ logs' = [logs EXCEPT !.shown = TRUE, !.call = "sent"]
    /\ UNCHANGED <<hub, pushed, stream, upsets>>

ServeHistory ==
    /\ logs.call = "sent"
    /\ logs' = [logs EXCEPT !.call = "served", !.history = Recent(hub, HistorySize)]
    /\ UNCHANGED <<hub, pushed, stream, upsets>>

\* loadHistory, then connectStream, also when the page was left or the
\* server wants a login.
AnswerHistory ==
    /\ logs.call = "served"
    /\ \E good \in BOOLEAN :
          logs' = [logs EXCEPT !.call = "none", !.history = <<>>, !.ran = TRUE,
                               !.entries = IF good THEN logs.history ELSE @]
    /\ stream' = OpeningStream
    /\ UNCHANGED <<hub, pushed, upsets>>

FailHistory ==
    /\ logs.call # "none"
    /\ logs' = [logs EXCEPT !.call = "none", !.history = <<>>]
    /\ UNCHANGED <<hub, pushed, stream, upsets>>

\* Mutant of Replay: a new stream starts with what comes next.
ReplayNothing ==
    /\ stream.at = "opening"
    /\ stream' = [stream EXCEPT !.at = "replayed"]
    /\ UNCHANGED <<hub, pushed, logs, upsets>>

\* adminLogsStreamHandler
Replay ==
    /\ stream.at = "opening"
    /\ stream' = [stream EXCEPT !.at = "replayed", !.wire = Recent(hub, ReplaySize)]
    /\ UNCHANGED <<hub, pushed, logs, upsets>>

Subscribe ==
    /\ stream.at = "replayed"
    /\ stream' = [stream EXCEPT !.at = "subscribed"]
    /\ UNCHANGED <<hub, pushed, logs, upsets>>

WriteEntry ==
    /\ stream.channel # <<>>
    /\ stream' = [stream EXCEPT !.wire = Append(@, Head(stream.channel)), !.channel = Tail(@)]
    /\ UNCHANGED <<hub, pushed, logs, upsets>>

\* enqueueEntry
ReadEntry ==
    /\ stream.wire # <<>>
    /\ logs' = [logs EXCEPT !.pending = Append(@, Head(stream.wire))]
    /\ stream' = [stream EXCEPT !.wire = Tail(@)]
    /\ UNCHANGED <<hub, pushed, upsets>>

\* scheduleFlush, trimEntries; no frame comes after the page was left.
Flush ==
    /\ logs.shown /\ logs.pending # <<>>
    /\ logs' = [logs EXCEPT !.entries = Recent(@ \o logs.pending, MaxEntries), !.pending = <<>>]
    /\ UNCHANGED <<hub, pushed, stream, upsets>>

\* onerror, also when the server refuses the stream.
BreakStream ==
    /\ stream.at # "closed" /\ upsets < MaxUpsets
    /\ upsets' = upsets + 1
    /\ stream' = ClosedStream
    /\ logs' = [logs EXCEPT !.timers = @ + 1]
    /\ UNCHANGED <<hub, pushed>>

\* The timer runs after the page was left, too.
Reconnect ==
    /\ logs.timers > 0
    /\ logs' = [logs EXCEPT !.timers = @ - 1]
    /\ stream' = OpeningStream
    /\ UNCHANGED <<hub, pushed, upsets>>

\* clearLogs: what waits for the next frame is dropped with the list.
ClearLogs ==
    /\ logs.shown /\ logs.clearing = "none" /\ upsets < MaxUpsets
    /\ upsets' = upsets + 1
    /\ logs' = [logs EXCEPT !.clearing = "sent"]
    /\ UNCHANGED <<hub, pushed, stream>>

ServeClear ==
    /\ logs.clearing = "sent"
    /\ hub' = <<>>
    /\ logs' = [logs EXCEPT !.clearing = "served"]
    /\ UNCHANGED <<pushed, stream, upsets>>

AnswerClear ==
    /\ logs.clearing = "served"
    /\ logs' = [logs EXCEPT !.clearing = "none", !.entries = <<>>, !.pending = <<>>]
    /\ stream' = [stream EXCEPT !.gap = @ \/ hub # <<>>]
    /\ UNCHANGED <<hub, pushed, upsets>>

FailClear ==
    /\ logs.clearing # "none"
    /\ logs' = [logs EXCEPT !.clearing = "none"]
    /\ UNCHANGED <<hub, pushed, stream, upsets>>

LeaveLogs ==
    /\ logs.shown
    /\ logs' = [logs EXCEPT !.shown = FALSE]
    /\ stream' = ClosedStream
    /\ UNCHANGED <<hub, pushed, upsets>>

-----------------------------------------------------------------------------

LogInit ==
    /\ hub = <<>> /\ pushed = 0 /\ upsets = 0
    /\ logs = [shown |-> FALSE, entries |-> <<>>, pending |-> <<>>, call |-> "none",
               history |-> <<>>, clearing |-> "none", timers |-> 0, ran |-> FALSE]
    /\ stream = ClosedStream

LogNext ==
    \/ PushEntry \/ OpenLogs \/ ServeHistory \/ AnswerHistory \/ FailHistory
    \/ Replay \/ Subscribe \/ WriteEntry \/ ReadEntry \/ Flush
    \/ BreakStream \/ Reconnect
    \/ ClearLogs \/ ServeClear \/ AnswerClear \/ FailClear \/ LeaveLogs

LogSpec == LogInit /\ [][LogNext]_logVars

-----------------------------------------------------------------------------
(* Properties.                                                             *)

LogTypeOK ==
    /\ hub \in Seq(1..MaxLog) /\ Len(hub) <= HubSize /\ pushed \in 0..MaxLog
    /\ logs \in Logs /\ Len(logs.entries) <= MaxEntries
    /\ stream \in Stream /\ Len(stream.channel) <= ChannelSize
    /\ upsets \in 0..MaxUpsets

\* When everything has been read, the list ends with the newest entries of
\* the hub, as many as a replay holds: those that were pushed between the
\* history and the stream, or while the stream was broken, are made up for.
\* Only a push in the moment between replay and subscription, one that a full
\* buffer refuses and one that crosses a clear are missed ("gap").
TailIsShown ==
    (/\ logs.shown /\ stream.at = "subscribed" /\ ~stream.gap
     /\ stream.channel = <<>> /\ stream.wire = <<>> /\ logs.pending = <<>>)
    => LET newest == Recent(hub, ReplaySize)
       IN  Recent(logs.entries, Len(newest)) = newest

=============================================================================
