--------------------------- MODULE StreamScanner ----------------------------
(***************************************************************************)
(* The goroutines that relay one streamed response                         *)
(* (relay/helper/stream_scanner.go): the scanner reads lines of the        *)
(* upstream, the data handler passes them on, the ping goroutine keeps the *)
(* client waiting, and StreamScannerHandler itself waits for the end.      *)
(* They share two Go channels, a mutex and the end reason of the stream.   *)
(***************************************************************************)
EXTENDS Naturals

CONSTANTS
  DataBuffer,  \* capacity of dataChan, 10 in the code
  StopBuffer,  \* capacity of stopChan, 3 in the code
  MaxLines     \* bound on the lines of the upstream, skipped ones included

ASSUME StreamAssumption == DataBuffer \in Nat /\ StopBuffer \in Nat /\ MaxLines \in Nat

VARIABLES
  main,      \* StreamScannerHandler: waits, cancels, tells all to stop, joins, has returned
  scan,      \* the scanner
  hand,      \* the data handler
  ping,      \* the ping goroutine
  writer,    \* the goroutine that writes one ping, and its answer
  stopChan,
  dataChan,  \* how many chunks it holds
  mutex,     \* writeMutex: who holds it
  reason,    \* StreamStatus.EndReason
  ctxDone,   \* the context of the goroutines is cancelled
  gone,      \* the context of the request is done
  ticked,    \* the streaming timeout has run out
  lines,     \* lines scanned
  received,  \* info.ReceivedResponseCount
  handled,   \* chunks passed to the data handler (history)
  halted,    \* the data handler stopped the stream or panicked (history)
  gaveUp     \* the join ran into its five seconds (history)

signals == <<stopChan, reason>>
counts == <<lines, received, handled, halted>>
flags == <<ctxDone, gone, ticked, gaveUp>>
streamVars == <<main, scan, hand, ping, writer, dataChan, mutex, signals, counts, flags>>

StreamInit ==
  /\ main = "wait" /\ scan = "scan" /\ hand = "take" /\ ping \in {"off", "loop"} /\ writer = "none"
  /\ stopChan = [n |-> 0, closed |-> FALSE] /\ dataChan = [n |-> 0, closed |-> FALSE]
  /\ mutex = "free" /\ reason = "none"
  /\ ctxDone = FALSE /\ gone = FALSE /\ ticked = FALSE /\ gaveUp = FALSE
  /\ lines = 0 /\ received = 0 /\ handled = 0 /\ halted = FALSE

-----------------------------------------------------------------------------
(* Go channels and the end reason                                          *)

\* The first reason stays.
SetEndReason(r) == reason' = IF reason = "none" THEN r ELSE reason

\* Sending to a full channel blocks, to a closed one panics, which is recovered.
SafeSendBool ==
  \/ stopChan.closed /\ UNCHANGED stopChan
  \/ ~stopChan.closed /\ stopChan.n < StopBuffer /\ stopChan' = [stopChan EXCEPT !.n = @ + 1]

\* A value sent to stopChan reaches one receiver; a closed channel has something for all.
ReceiveStop ==
  \/ stopChan.n > 0 /\ stopChan' = [stopChan EXCEPT !.n = @ - 1]
  \/ stopChan.n = 0 /\ stopChan.closed /\ UNCHANGED stopChan

MayReceiveStop == stopChan.n > 0 \/ stopChan.closed

-----------------------------------------------------------------------------
(* The scanner                                                             *)

\* Scan returned a line and nothing tells the scanner to stop.  Only data is counted.
ScanLine(kind) ==
  /\ scan = "scan" /\ lines < MaxLines
  /\ ~MayReceiveStop /\ ~ctxDone /\ ~gone
  /\ lines' = lines + 1 /\ ticked' = FALSE
  /\ received' = IF kind = "data" THEN received + 1 ELSE received
  /\ scan' = IF kind = "skip" THEN "scan" ELSE kind
  /\ UNCHANGED <<main, hand, ping, writer, dataChan, mutex, signals, handled, halted, ctxDone, gone, gaveUp>>

\* Scan returned a line, and the scanner is to stop.
ScanStops ==
  /\ scan = "scan" /\ lines < MaxLines /\ scan' = "exit"
  /\ \/ ReceiveStop /\ UNCHANGED reason
     \/ ctxDone /\ UNCHANGED signals
     \/ gone /\ SetEndReason("client_gone") /\ UNCHANGED stopChan
  /\ UNCHANGED <<main, hand, ping, writer, dataChan, mutex, counts, flags>>

\* Scan returned false, as it also does once the body is closed.
ScanEnds(why) ==
  /\ scan = "scan" /\ scan' = "exit" /\ SetEndReason(why)
  /\ UNCHANGED <<main, hand, ping, writer, stopChan, dataChan, mutex, counts, flags>>

\* Mutant of Push: nothing but the handler's progress frees a scanner with a chunk.
PushBlocks ==
  /\ scan = "data" /\ scan' = "scan"
  /\ dataChan.n < DataBuffer /\ dataChan' = [dataChan EXCEPT !.n = @ + 1]
  /\ UNCHANGED <<main, hand, ping, writer, signals, mutex, counts, flags>>

Push ==
  /\ scan = "data"
  /\ \/ /\ dataChan.n < DataBuffer /\ dataChan' = [dataChan EXCEPT !.n = @ + 1]
        /\ scan' = "scan" /\ UNCHANGED stopChan
     \/ ctxDone /\ scan' = "exit" /\ UNCHANGED <<dataChan, stopChan>>
     \/ ReceiveStop /\ scan' = "exit" /\ UNCHANGED dataChan
  /\ UNCHANGED <<main, hand, ping, writer, reason, mutex, counts, flags>>

ReceivedDone ==
  /\ scan = "done" /\ scan' = "exit" /\ SetEndReason("done")
  /\ UNCHANGED <<main, hand, ping, writer, stopChan, dataChan, mutex, counts, flags>>

ScannerExits ==
  /\ scan = "exit" /\ scan' = "send" /\ dataChan' = [dataChan EXCEPT !.closed = TRUE]
  /\ UNCHANGED <<main, hand, ping, writer, mutex, signals, counts, flags>>

ScannerSends ==
  /\ scan = "send" /\ scan' = "gone" /\ SafeSendBool
  /\ UNCHANGED <<main, hand, ping, writer, reason, dataChan, mutex, counts, flags>>

-----------------------------------------------------------------------------
(* The data handler                                                        *)

\* Mutant of HandlerTakes: the handler leaves its backlog when the context is cancelled.
HandlerTakesUnlessDone ==
  /\ hand = "take"
  /\ \/ dataChan.n > 0 /\ dataChan' = [dataChan EXCEPT !.n = @ - 1] /\ hand' = "lock"
     \/ (ctxDone \/ (dataChan.n = 0 /\ dataChan.closed)) /\ hand' = "exit" /\ UNCHANGED dataChan
  /\ UNCHANGED <<main, scan, ping, writer, mutex, signals, counts, flags>>

\* A closed channel is read to its end.
HandlerTakes ==
  /\ hand = "take"
  /\ \/ dataChan.n > 0 /\ dataChan' = [dataChan EXCEPT !.n = @ - 1] /\ hand' = "lock"
     \/ dataChan.n = 0 /\ dataChan.closed /\ hand' = "exit" /\ UNCHANGED dataChan
  /\ UNCHANGED <<main, scan, ping, writer, mutex, signals, counts, flags>>

HandlerLocks ==
  /\ hand = "lock" /\ mutex = "free" /\ mutex' = "handler" /\ hand' = "run"
  /\ UNCHANGED <<main, scan, ping, writer, dataChan, signals, counts, flags>>

\* How a handler stops the stream: Done and Stop of StreamResult
StopReasons == {"done", "handler_stop"}

\* dataHandler goes on, stops the stream (Stop, Done), or panics; a panic keeps the mutex.
HandlerRuns(how) ==
  /\ hand = "run" /\ handled' = handled + 1
  /\ hand' = CASE how = "next" -> "take" [] how = "panic" -> "panicked" [] OTHER -> "exit"
  /\ mutex' = IF how = "panic" THEN mutex ELSE "free"
  /\ halted' = (halted \/ how # "next")
  /\ IF how \in StopReasons THEN SetEndReason(how) ELSE UNCHANGED reason
  /\ UNCHANGED <<main, scan, ping, writer, stopChan, dataChan, lines, received, flags>>

\* Mutant of HandlerExits: a recovered panic leaves no reason.
HandlerExitsSilently ==
  /\ hand \in {"exit", "panicked"} /\ hand' = "send"
  /\ UNCHANGED <<main, scan, ping, writer, dataChan, mutex, signals, counts, flags>>

\* wg.Done, before the panic is recorded
HandlerExits ==
  /\ hand \in {"exit", "panicked"} /\ hand' = IF hand = "exit" THEN "send" ELSE "recover"
  /\ UNCHANGED <<main, scan, ping, writer, dataChan, mutex, signals, counts, flags>>

HandlerRecovers ==
  /\ hand = "recover" /\ hand' = "send" /\ SetEndReason("panic")
  /\ UNCHANGED <<main, scan, ping, writer, stopChan, dataChan, mutex, counts, flags>>

HandlerSends ==
  /\ hand = "send" /\ hand' = "gone" /\ SafeSendBool
  /\ UNCHANGED <<main, scan, ping, writer, reason, dataChan, mutex, counts, flags>>

-----------------------------------------------------------------------------
(* Pings                                                                   *)

PingTicks ==
  /\ ping = "loop" /\ main \notin {"join", "returned"} /\ ping' = "sending" /\ writer' = "lock"
  /\ UNCHANGED <<main, scan, hand, dataChan, mutex, signals, counts, flags>>

\* A ping that failed or takes too long ends the pings, not the stream.
PingAnswered ==
  /\ ping = "sending"
  /\ \/ writer = "ok" /\ ping' = "loop" /\ writer' = "none" /\ UNCHANGED reason
     \/ writer = "failed" /\ ping' = "gone" /\ writer' = "none" /\ SetEndReason("ping_fail")
     \/ ping' = "gone" /\ SetEndReason("ping_fail") /\ UNCHANGED writer
  /\ UNCHANGED <<main, scan, hand, stopChan, dataChan, mutex, counts, flags>>

\* Told to stop; between two pings also after half an hour or when the client is gone.
PingStops ==
  /\ ping \in {"loop", "sending"} /\ ping' = "gone"
  /\ \/ ReceiveStop
     \/ (ctxDone \/ ping = "loop") /\ UNCHANGED stopChan
  /\ UNCHANGED <<main, scan, hand, writer, reason, dataChan, mutex, counts, flags>>

WriterLocks ==
  /\ writer = "lock" /\ mutex = "free" /\ mutex' = "writer" /\ writer' = "write"
  /\ UNCHANGED <<main, scan, hand, ping, dataChan, signals, counts, flags>>

PingData ==
  /\ writer = "write" /\ mutex' = "free"
  /\ writer' \in IF gone THEN {"failed"} ELSE {"ok", "failed"}
  /\ UNCHANGED <<main, scan, hand, ping, dataChan, signals, counts, flags>>

-----------------------------------------------------------------------------
(* StreamScannerHandler                                                    *)

MainWakes ==
  /\ main = "wait" /\ main' = "cancel"
  /\ \/ ticked /\ SetEndReason("timeout") /\ UNCHANGED stopChan
     \/ ReceiveStop /\ UNCHANGED reason
     \/ gone /\ SetEndReason("client_gone") /\ UNCHANGED stopChan
  /\ UNCHANGED <<scan, hand, ping, writer, dataChan, mutex, counts, flags>>

MainCancels ==
  /\ main = "cancel" /\ main' = "send" /\ ctxDone' = TRUE
  /\ UNCHANGED <<scan, hand, ping, writer, dataChan, mutex, signals, counts, gone, ticked, gaveUp>>

\* ... and stops the tickers.
MainSends ==
  /\ main = "send" /\ main' = "join" /\ SafeSendBool
  /\ UNCHANGED <<scan, hand, ping, writer, reason, dataChan, mutex, counts, flags>>

\* The goroutines the WaitGroup waits for
Joined == scan \in {"send", "gone"} /\ hand \in {"recover", "send", "gone"} /\ ping \in {"off", "gone"}

\* Joins, or gives up after five seconds; closes stopChan and the body.
MainJoins ==
  /\ main = "join" /\ main' = "returned"
  /\ (Joined /\ UNCHANGED gaveUp) \/ gaveUp' = TRUE
  /\ stopChan' = [stopChan EXCEPT !.closed = TRUE]
  /\ UNCHANGED <<scan, hand, ping, writer, reason, dataChan, mutex, counts, ctxDone, gone, ticked>>

Timeout ==
  /\ main = "wait" /\ ~ticked /\ ticked' = TRUE
  /\ UNCHANGED <<main, scan, hand, ping, writer, dataChan, mutex, signals, counts, ctxDone, gone, gaveUp>>

ClientLeaves ==
  /\ ~gone /\ gone' = TRUE
  /\ UNCHANGED <<main, scan, hand, ping, writer, dataChan, mutex, signals, counts, ctxDone, ticked, gaveUp>>

-----------------------------------------------------------------------------
(* The specification                                                       *)

ScannerStep == Push \/ ReceivedDone \/ ScannerExits \/ ScannerSends
HandlerStep == HandlerTakes \/ HandlerExits \/ HandlerRecovers \/ HandlerSends
HandlerWrites == \E how \in StopReasons \cup {"next", "panic"} : HandlerRuns(how)
PingStep == PingAnswered \/ PingStops
MainStep == MainWakes \/ MainCancels \/ MainSends \/ MainJoins
ScanFails == \E why \in {"scanner_error", "eof"} : ScanEnds(why)

StreamNext ==
  \/ ScannerStep \/ (\E kind \in {"data", "skip", "done"} : ScanLine(kind)) \/ ScanStops \/ ScanFails
  \/ HandlerStep \/ HandlerLocks \/ HandlerWrites
  \/ PingStep \/ PingTicks \/ WriterLocks \/ PingData
  \/ MainStep \/ Timeout \/ ClientLeaves

\* Goroutines that can go on do, a mutex starves nobody, time passes, and a closed body
\* ends the scan.  The upstream may be silent, the client may stay.  The server sets no
\* write timeout (main.go): a write returns for certain only when the client is gone.
StreamFairness ==
  /\ WF_streamVars(ScannerStep) /\ WF_streamVars(main = "returned" /\ ScanFails)
  /\ WF_streamVars(HandlerStep) /\ SF_streamVars(HandlerLocks)
  /\ WF_streamVars(gone /\ HandlerWrites) /\ WF_streamVars(gone /\ PingData)
  /\ WF_streamVars(PingStep) /\ SF_streamVars(WriterLocks)
  /\ WF_streamVars(MainStep) /\ WF_streamVars(Timeout)

StreamSpec == StreamInit /\ [][StreamNext]_streamVars /\ StreamFairness

-----------------------------------------------------------------------------
(* Properties                                                              *)

\* A stream that came to its end was passed on completely: unless the handler stopped it or
\* the join gave up, every chunk that was counted has been handled when the relay returns and
\* reads the usage the handler collected, though the handler is still reading its backlog
\* when the scanner, a timeout or the client wakes the main goroutine.
ScannedIsHandled ==
  (main = "returned" /\ ~gaveUp /\ ~halted /\ reason \in {"done", "eof", "scanner_error"})
    => handled = received

\* Whoever wakes the main goroutine, the reason is there before ("EndReason already set by
\* the goroutine that triggered stopChan"), although a stop is received by any one of three
\* goroutines and passed on by others.
EndHasReason == main # "wait" => reason # "none"

\* A client that neither reads nor leaves keeps a write of the handler or of a ping.
Stalled == ~gone /\ (hand = "run" \/ writer = "write")

\* A handler that panicked has left without unlocking writeMutex.
Orphaned == mutex = "handler" /\ hand = "gone"

\* Whatever stops, stalls, panics or leaves, an upstream whose lines come to an end lets the
\* relay return and the scanner and the ping goroutine end, although the stop that was meant
\* for one of them may be taken by another.  The data handler and the goroutine that writes a
\* ping end as well, except that a client that neither reads nor leaves holds them in its
\* write, and that a handler that panicked leaves a waiting writer behind for ever.
EveryoneLeaves ==
  /\ <>[](main = "returned" /\ scan = "gone" /\ ping \in {"off", "gone"})
  /\ <>[](hand = "gone" \/ Stalled)
  /\ <>[](writer \notin {"lock", "write"} \/ Stalled \/ Orphaned)

\* With the three values of the code no sender ever waits for room in stopChan: "the buffer is
\* enlarged to avoid blocking".  Otherwise the relay itself could hang when it says stop.
SendersFit ==
  (main = "send" \/ scan = "send" \/ hand = "send") => (stopChan.closed \/ stopChan.n < StopBuffer)

-----------------------------------------------------------------------------
(* The inductive invariant                                                 *)

Reasons ==
  {"none", "done", "handler_stop", "eof", "scanner_error", "client_gone", "timeout", "ping_fail", "panic"}
TypeOK ==
  /\ main \in {"wait", "cancel", "send", "join", "returned"}
  /\ scan \in {"scan", "data", "done", "exit", "send", "gone"}
  /\ hand \in {"take", "lock", "run", "exit", "panicked", "recover", "send", "gone"}
  /\ ping \in {"off", "loop", "sending", "gone"}
  /\ writer \in {"none", "lock", "write", "ok", "failed"}
  /\ stopChan \in [n : Nat, closed : BOOLEAN] /\ dataChan \in [n : Nat, closed : BOOLEAN]
  /\ mutex \in {"free", "handler", "writer"} /\ reason \in Reasons
  /\ ctxDone \in BOOLEAN /\ gone \in BOOLEAN /\ ticked \in BOOLEAN /\ gaveUp \in BOOLEAN
  /\ lines \in 0 .. MaxLines /\ received \in Nat /\ handled \in Nat /\ halted \in BOOLEAN

ScannerOver == scan \in {"exit", "send", "gone"}

\* Whatever tells a goroutine to stop comes after the reason.
Stopping ==
  \/ main # "wait" \/ stopChan.n > 0 \/ stopChan.closed \/ ctxDone
  \/ ScannerOver \/ dataChan.closed \/ hand \in {"exit", "send", "gone"}
ReasonFirst == Stopping => reason # "none"

\* The end of the stream is seen by the scanner alone, unless the handler stopped it.
Ended == reason \in {"done", "eof", "scanner_error"}
EndIsScanned == (Ended /\ ~halted) => ScannerOver

\* Until something else ends the stream, every chunk received is at one of four places.
Pushing == IF scan = "data" THEN 1 ELSE 0
Handling == IF hand \in {"lock", "run"} THEN 1 ELSE 0
NoneLost == (~halted /\ (Ended \/ ~ScannerOver)) => received = handled + dataChan.n + Pushing + Handling

\* Only a closed and empty channel ends the handler, and only the scanner closes it.
ClosedAtEnd ==
  /\ dataChan.closed => scan \in {"send", "gone"}
  /\ (hand \in {"exit", "send", "gone"} /\ ~halted) => (dataChan.closed /\ dataChan.n = 0)
  /\ hand \in {"panicked", "recover"} => halted

\* A relay that has joined has nobody left who handles, scans or pings.
JoinedForGood == (main = "returned" /\ ~gaveUp) => Joined

IInv == TypeOK /\ ReasonFirst /\ EndIsScanned /\ NoneLost /\ ClosedAtEnd /\ JoinedForGood

\* The values in stopChan and those still to be sent are three at most.
ToSend(late) == IF late THEN 0 ELSE 1
StopsCounted ==
  stopChan.n + ToSend(main \in {"join", "returned"}) + ToSend(scan = "gone") + ToSend(hand = "gone") <= 3
=============================================================================
