-------------------------- MODULE Streaming_proofs --------------------------
(***************************************************************************)
(* Proofs about what happens to a stream.                                  *)
(*                                                                         *)
(* StreamScanner, for any number of lines and any size of the buffers: a   *)
(* stream that came to its end is handled completely, whoever wakes the    *)
(* relay has given the reason before, and with the three places of         *)
(* stopChan nobody who says stop is blocked.                               *)
(*                                                                         *)
(* ClaudeStream, for any number of chunks and tool calls and wherever the  *)
(* stream breaks off: the events made of OpenAI chunks are those of        *)
(* ClaudeProtocol, and the message is ended exactly if the finish reason   *)
(* and the usage came, as long as the converter follows the stream.        *)
(***************************************************************************)
EXTENDS StreamScanner, ClaudeStream, FiniteSetTheorems, TLAPS

USE StreamAssumption
USE DEF streamVars, signals, counts, flags, Reasons

-----------------------------------------------------------------------------
(* Each action preserves the invariant                                     *)

GoChannel == [n : Nat, closed : BOOLEAN]

\* A channel that is closed keeps what it holds.
LEMMA ClosedChannel ==
  ASSUME NEW c \in GoChannel
  PROVE  [c EXCEPT !.closed = TRUE] \in GoChannel
BY Zenon DEF GoChannel

\* A scanner that reads a line was not told to stop, and a chunk is counted as it is read.
LEMMA ScanLineInv ==
  ASSUME IInv, NEW kind \in {"data", "skip", "done"}, ScanLine(kind)
  PROVE  IInv'
<1> USE DEF IInv, TypeOK, ScanLine
<1>a. lines' \in 0 .. MaxLines  OBVIOUS
<1>b. received' \in Nat /\ scan' \in {"scan", "data", "done"}  OBVIOUS
<1>c. ticked' \in BOOLEAN  BY Zenon
<1>1. TypeOK'  BY <1>a, <1>b, <1>c
<1>2. ReasonFirst'  BY DEF ReasonFirst, Stopping, ScannerOver
<1>3. EndIsScanned' /\ ClosedAtEnd'
  BY DEF EndIsScanned, Ended, ScannerOver, ClosedAtEnd
<1>4. NoneLost'
  BY DEF ScannerOver, NoneLost, Pushing, Handling
<1>5. JoinedForGood'  BY DEF JoinedForGood, Joined
<1>6. QED  BY <1>1, <1>2, <1>3, <1>4, <1>5 DEF IInv

\* A scanner is told to stop only after the reason was given; its chunks count no more unless the stream had ended.
LEMMA ScanStopsInv ==
  ASSUME IInv, ScanStops
  PROVE  IInv'
<1>1. TypeOK'  BY DEF IInv, TypeOK, ScanStops, SetEndReason, ReceiveStop
<1>2. ReasonFirst'  BY DEF IInv, ReasonFirst, Stopping, ScanStops, SetEndReason, ReceiveStop
<1>3. EndIsScanned' /\ ClosedAtEnd'
  BY DEF IInv, EndIsScanned, ScannerOver, ClosedAtEnd, ScanStops
<1>4. NoneLost'
  BY DEF IInv, ScannerOver, NoneLost, Pushing, Handling, ScanStops
<1>5. JoinedForGood'  BY DEF IInv, JoinedForGood, Joined, ScanStops
<1>6. QED  BY <1>1, <1>2, <1>3, <1>4, <1>5 DEF IInv

\* The end of the body is a reason, and the scanner has no chunk then.
LEMMA ScanEndsInv ==
  ASSUME IInv, NEW why \in {"scanner_error", "eof"}, ScanEnds(why)
  PROVE  IInv'
<1>1. TypeOK'  BY DEF IInv, TypeOK, ScanEnds, SetEndReason
<1>2. ReasonFirst'  BY DEF ReasonFirst, ScanEnds, SetEndReason
<1>3. EndIsScanned' /\ ClosedAtEnd'
  BY DEF IInv, EndIsScanned, ScannerOver, ClosedAtEnd, ScanEnds
<1>4. NoneLost'
  BY DEF IInv, ScannerOver, NoneLost, Pushing, Handling, ScanEnds
<1>5. JoinedForGood'  BY DEF IInv, JoinedForGood, Joined, ScanEnds
<1>6. QED  BY <1>1, <1>2, <1>3, <1>4, <1>5 DEF IInv

\* A chunk goes from the scanner to the channel, or is dropped because the stream was stopped.
LEMMA PushInv ==
  ASSUME IInv, Push
  PROVE  IInv'
<1>1. TypeOK'  BY DEF IInv, TypeOK, Push, ReceiveStop
<1>2. ReasonFirst'  BY DEF IInv, TypeOK, ReasonFirst, Stopping, ScannerOver, Push, ReceiveStop
<1>3. EndIsScanned' /\ ClosedAtEnd'
  BY DEF IInv, TypeOK, EndIsScanned, Ended, ScannerOver, ClosedAtEnd, Push
<1>4. NoneLost'
  BY DEF IInv, TypeOK, EndIsScanned, Ended, ScannerOver, NoneLost, Pushing, Handling, Push
<1>5. JoinedForGood'  BY DEF IInv, JoinedForGood, Joined, Push
<1>6. QED  BY <1>1, <1>2, <1>3, <1>4, <1>5 DEF IInv

\* [DONE] is a reason, and no chunk.
LEMMA ReceivedDoneInv ==
  ASSUME IInv, ReceivedDone
  PROVE  IInv'
<1>1. TypeOK'  BY DEF IInv, TypeOK, ReceivedDone, SetEndReason
<1>2. ReasonFirst'  BY DEF ReasonFirst, ReceivedDone, SetEndReason
<1>3. EndIsScanned' /\ ClosedAtEnd'
  BY DEF IInv, EndIsScanned, ScannerOver, ClosedAtEnd, ReceivedDone
<1>4. NoneLost'
  BY DEF IInv, ScannerOver, NoneLost, Pushing, Handling, ReceivedDone
<1>5. JoinedForGood'  BY DEF IInv, JoinedForGood, Joined, ReceivedDone
<1>6. QED  BY <1>1, <1>2, <1>3, <1>4, <1>5 DEF IInv

\* The scanner closes dataChan when it is over.
LEMMA ScannerExitsInv ==
  ASSUME IInv, ScannerExits
  PROVE  IInv'
<1>a. dataChan' \in GoChannel  BY ClosedChannel DEF IInv, TypeOK, ScannerExits, GoChannel
<1>1. TypeOK'  BY <1>a DEF IInv, TypeOK, ScannerExits, GoChannel
<1>2. ReasonFirst'  BY DEF IInv, ReasonFirst, Stopping, ScannerOver, ScannerExits
<1>3. EndIsScanned' /\ ClosedAtEnd'
  BY DEF IInv, EndIsScanned, ScannerOver, ClosedAtEnd, ScannerExits
<1>4. NoneLost'
  BY DEF IInv, Ended, ScannerOver, NoneLost, Pushing, Handling, ScannerExits
<1>5. JoinedForGood'  BY DEF IInv, JoinedForGood, Joined, ScannerExits
<1>6. QED  BY <1>1, <1>2, <1>3, <1>4, <1>5 DEF IInv

\* Only who is over says stop.
LEMMA ScannerSendsInv ==
  ASSUME IInv, ScannerSends
  PROVE  IInv'
<1>1. TypeOK'  BY DEF IInv, TypeOK, ScannerSends, SafeSendBool
<1>2. ReasonFirst'  BY DEF IInv, ReasonFirst, Stopping, ScannerOver, ScannerSends
<1>3. EndIsScanned' /\ ClosedAtEnd'
  BY DEF IInv, EndIsScanned, ScannerOver, ClosedAtEnd, ScannerSends
<1>4. NoneLost'
  BY DEF IInv, Ended, ScannerOver, NoneLost, Pushing, Handling, ScannerSends
<1>5. JoinedForGood'  BY DEF IInv, JoinedForGood, Joined, ScannerSends
<1>6. QED  BY <1>1, <1>2, <1>3, <1>4, <1>5 DEF IInv

\* The handler leaves when the channel is closed and empty.
LEMMA HandlerTakesInv ==
  ASSUME IInv, HandlerTakes
  PROVE  IInv'
<1>1. TypeOK'  BY DEF IInv, TypeOK, HandlerTakes
<1>2. ReasonFirst'  BY DEF IInv, TypeOK, ReasonFirst, Stopping, ScannerOver, HandlerTakes
<1>3. EndIsScanned' /\ ClosedAtEnd'
  BY DEF IInv, TypeOK, EndIsScanned, Ended, ScannerOver, ClosedAtEnd, HandlerTakes
<1>4. NoneLost'
  BY DEF IInv, TypeOK, Ended, ScannerOver, NoneLost, Pushing, Handling, HandlerTakes
<1>5. JoinedForGood'  BY DEF IInv, JoinedForGood, Joined, HandlerTakes
<1>6. QED  BY <1>1, <1>2, <1>3, <1>4, <1>5 DEF IInv

\* The handler keeps its chunk while it waits for the mutex.
LEMMA HandlerLocksInv ==
  ASSUME IInv, HandlerLocks
  PROVE  IInv'
<1>1. TypeOK'  BY DEF IInv, TypeOK, HandlerLocks
<1>2. ReasonFirst'  BY DEF IInv, ReasonFirst, Stopping, ScannerOver, HandlerLocks
<1>3. EndIsScanned' /\ ClosedAtEnd'
  BY DEF IInv, EndIsScanned, Ended, ScannerOver, ClosedAtEnd, HandlerLocks
<1>4. NoneLost'
  BY DEF IInv, Ended, ScannerOver, NoneLost, Pushing, Handling, HandlerLocks
<1>5. JoinedForGood'  BY DEF IInv, JoinedForGood, Joined, HandlerLocks
<1>6. QED  BY <1>1, <1>2, <1>3, <1>4, <1>5 DEF IInv

\* A chunk is handled, or the stream is halted.
LEMMA HandlerRunsInv ==
  ASSUME IInv, NEW how \in StopReasons \cup {"next", "panic"}, HandlerRuns(how)
  PROVE  IInv'
<1>1. TypeOK'  BY DEF IInv, TypeOK, HandlerRuns, SetEndReason, StopReasons
<1>2. ReasonFirst'
  BY DEF IInv, ReasonFirst, Stopping, ScannerOver, HandlerRuns, SetEndReason, StopReasons
<1>3. EndIsScanned' /\ ClosedAtEnd'
  BY DEF IInv, EndIsScanned, Ended, ScannerOver, ClosedAtEnd, HandlerRuns, StopReasons
<1>4. NoneLost'
  BY DEF IInv, TypeOK, ReasonFirst, Stopping, Ended, ScannerOver, NoneLost, Pushing, Handling,
         HandlerRuns, SetEndReason
<1>5. JoinedForGood'  BY DEF IInv, JoinedForGood, Joined, HandlerRuns
<1>6. QED  BY <1>1, <1>2, <1>3, <1>4, <1>5 DEF IInv

\* The WaitGroup lets the relay go on before a panic is recorded.
LEMMA HandlerExitsInv ==
  ASSUME IInv, HandlerExits
  PROVE  IInv'
<1>1. TypeOK'  BY DEF IInv, TypeOK, HandlerExits
<1>2. ReasonFirst'  BY DEF IInv, ReasonFirst, Stopping, ScannerOver, HandlerExits
<1>3. EndIsScanned' /\ ClosedAtEnd'
  BY DEF IInv, EndIsScanned, ScannerOver, ClosedAtEnd, HandlerExits
<1>4. NoneLost'
  BY DEF IInv, Ended, ScannerOver, NoneLost, Pushing, Handling, HandlerExits
<1>5. JoinedForGood'  BY DEF IInv, JoinedForGood, Joined, HandlerExits
<1>6. QED  BY <1>1, <1>2, <1>3, <1>4, <1>5 DEF IInv

\* A recovered panic is a reason.
LEMMA HandlerRecoversInv ==
  ASSUME IInv, HandlerRecovers
  PROVE  IInv'
<1>1. TypeOK'  BY DEF IInv, TypeOK, HandlerRecovers, SetEndReason
<1>2. ReasonFirst'  BY DEF ReasonFirst, HandlerRecovers, SetEndReason
<1>3. EndIsScanned' /\ ClosedAtEnd'
  BY DEF IInv, EndIsScanned, ClosedAtEnd, HandlerRecovers
<1>4. NoneLost'
  BY DEF IInv, ClosedAtEnd, NoneLost, HandlerRecovers
<1>5. JoinedForGood'  BY DEF IInv, JoinedForGood, Joined, HandlerRecovers
<1>6. QED  BY <1>1, <1>2, <1>3, <1>4, <1>5 DEF IInv

\* Only who is over says stop.
LEMMA HandlerSendsInv ==
  ASSUME IInv, HandlerSends
  PROVE  IInv'
<1>1. TypeOK'  BY DEF IInv, TypeOK, HandlerSends, SafeSendBool
<1>2. ReasonFirst'  BY DEF IInv, ReasonFirst, Stopping, HandlerSends
<1>3. EndIsScanned' /\ ClosedAtEnd'
  BY DEF IInv, EndIsScanned, ScannerOver, ClosedAtEnd, HandlerSends
<1>4. NoneLost'
  BY DEF IInv, Ended, ScannerOver, NoneLost, Pushing, Handling, HandlerSends
<1>5. JoinedForGood'  BY DEF IInv, JoinedForGood, Joined, HandlerSends
<1>6. QED  BY <1>1, <1>2, <1>3, <1>4, <1>5 DEF IInv

\* No ping is started once the relay joins.
LEMMA PingTicksInv ==
  ASSUME IInv, PingTicks
  PROVE  IInv'
<1>1. TypeOK'  BY DEF IInv, TypeOK, PingTicks
<1>2. ReasonFirst'  BY DEF IInv, ReasonFirst, Stopping, ScannerOver, PingTicks
<1>3. EndIsScanned' /\ ClosedAtEnd'
  BY DEF IInv, EndIsScanned, Ended, ScannerOver, ClosedAtEnd, PingTicks
<1>4. NoneLost'
  BY DEF IInv, Ended, ScannerOver, NoneLost, Pushing, Handling, PingTicks
<1>5. JoinedForGood'  BY DEF JoinedForGood, PingTicks
<1>6. QED  BY <1>1, <1>2, <1>3, <1>4, <1>5 DEF IInv

\* A failed ping is a reason, and not an end of the stream.
LEMMA PingAnsweredInv ==
  ASSUME IInv, PingAnswered
  PROVE  IInv'
<1>1. TypeOK'  BY DEF IInv, TypeOK, PingAnswered, SetEndReason
<1>2. ReasonFirst'  BY DEF IInv, ReasonFirst, Stopping, ScannerOver, PingAnswered, SetEndReason
<1>3. EndIsScanned' /\ ClosedAtEnd'
  BY DEF IInv, EndIsScanned, Ended, ScannerOver, ClosedAtEnd, PingAnswered, SetEndReason
<1>4. NoneLost'
  BY DEF IInv, Ended, ScannerOver, NoneLost, Pushing, Handling, PingAnswered, SetEndReason
<1>5. JoinedForGood'  BY DEF IInv, JoinedForGood, Joined, PingAnswered
<1>6. QED  BY <1>1, <1>2, <1>3, <1>4, <1>5 DEF IInv

\* A ping goroutine may take a stop that was meant for the relay.
LEMMA PingStopsInv ==
  ASSUME IInv, PingStops
  PROVE  IInv'
<1>1. TypeOK'  BY DEF IInv, TypeOK, PingStops, ReceiveStop
<1>2. ReasonFirst'  BY DEF IInv, ReasonFirst, Stopping, ScannerOver, PingStops, ReceiveStop
<1>3. EndIsScanned' /\ ClosedAtEnd'
  BY DEF IInv, EndIsScanned, Ended, ScannerOver, ClosedAtEnd, PingStops
<1>4. NoneLost'
  BY DEF IInv, Ended, ScannerOver, NoneLost, Pushing, Handling, PingStops
<1>5. JoinedForGood'  BY DEF IInv, JoinedForGood, Joined, PingStops
<1>6. QED  BY <1>1, <1>2, <1>3, <1>4, <1>5 DEF IInv

\* Writing a ping moves no chunk.
LEMMA WriterLocksInv ==
  ASSUME IInv, WriterLocks
  PROVE  IInv'
<1>1. TypeOK'  BY DEF IInv, TypeOK, WriterLocks
<1>2. ReasonFirst'  BY DEF IInv, ReasonFirst, Stopping, ScannerOver, WriterLocks
<1>3. EndIsScanned' /\ ClosedAtEnd'
  BY DEF IInv, EndIsScanned, Ended, ScannerOver, ClosedAtEnd, WriterLocks
<1>4. NoneLost'
  BY DEF IInv, Ended, ScannerOver, NoneLost, Pushing, Handling, WriterLocks
<1>5. JoinedForGood'  BY DEF IInv, JoinedForGood, Joined, WriterLocks
<1>6. QED  BY <1>1, <1>2, <1>3, <1>4, <1>5 DEF IInv

\* Writing a ping moves no chunk.
LEMMA PingDataInv ==
  ASSUME IInv, PingData
  PROVE  IInv'
<1>1. TypeOK'  BY DEF IInv, TypeOK, PingData
<1>2. ReasonFirst'  BY DEF IInv, ReasonFirst, Stopping, ScannerOver, PingData
<1>3. EndIsScanned' /\ ClosedAtEnd'
  BY DEF IInv, EndIsScanned, Ended, ScannerOver, ClosedAtEnd, PingData
<1>4. NoneLost'
  BY DEF IInv, Ended, ScannerOver, NoneLost, Pushing, Handling, PingData
<1>5. JoinedForGood'  BY DEF IInv, JoinedForGood, Joined, PingData
<1>6. QED  BY <1>1, <1>2, <1>3, <1>4, <1>5 DEF IInv

\* The relay wakes with a reason, its own or that of the sender.
LEMMA MainWakesInv ==
  ASSUME IInv, MainWakes
  PROVE  IInv'
<1>1. TypeOK'  BY DEF IInv, TypeOK, MainWakes, SetEndReason, ReceiveStop
<1>2. ReasonFirst'  BY DEF IInv, ReasonFirst, Stopping, MainWakes, SetEndReason, ReceiveStop
<1>3. EndIsScanned' /\ ClosedAtEnd'
  BY DEF IInv, EndIsScanned, Ended, ScannerOver, ClosedAtEnd, MainWakes, SetEndReason
<1>4. NoneLost'
  BY DEF IInv, Ended, ScannerOver, NoneLost, Pushing, Handling, MainWakes, SetEndReason
<1>5. JoinedForGood'  BY DEF JoinedForGood, MainWakes
<1>6. QED  BY <1>1, <1>2, <1>3, <1>4, <1>5 DEF IInv

\* The context is cancelled after the reason.
LEMMA MainCancelsInv ==
  ASSUME IInv, MainCancels
  PROVE  IInv'
<1>1. TypeOK'  BY DEF IInv, TypeOK, MainCancels
<1>2. ReasonFirst'  BY DEF IInv, ReasonFirst, Stopping, MainCancels
<1>3. EndIsScanned' /\ ClosedAtEnd'
  BY DEF IInv, EndIsScanned, Ended, ScannerOver, ClosedAtEnd, MainCancels
<1>4. NoneLost'
  BY DEF IInv, Ended, ScannerOver, NoneLost, Pushing, Handling, MainCancels
<1>5. JoinedForGood'  BY DEF JoinedForGood, MainCancels
<1>6. QED  BY <1>1, <1>2, <1>3, <1>4, <1>5 DEF IInv

\* The relay says stop after the reason.
LEMMA MainSendsInv ==
  ASSUME IInv, MainSends
  PROVE  IInv'
<1>1. TypeOK'  BY DEF IInv, TypeOK, MainSends, SafeSendBool
<1>2. ReasonFirst'  BY DEF IInv, ReasonFirst, Stopping, MainSends
<1>3. EndIsScanned' /\ ClosedAtEnd'
  BY DEF IInv, EndIsScanned, Ended, ScannerOver, ClosedAtEnd, MainSends
<1>4. NoneLost'
  BY DEF IInv, Ended, ScannerOver, NoneLost, Pushing, Handling, MainSends
<1>5. JoinedForGood'  BY DEF JoinedForGood, MainSends
<1>6. QED  BY <1>1, <1>2, <1>3, <1>4, <1>5 DEF IInv

\* The relay returns when all are done, or gives up.
LEMMA MainJoinsInv ==
  ASSUME IInv, MainJoins
  PROVE  IInv'
<1>a. stopChan' \in GoChannel /\ gaveUp' \in BOOLEAN
  BY ClosedChannel DEF IInv, TypeOK, MainJoins, GoChannel
<1>1. TypeOK'  BY <1>a DEF IInv, TypeOK, MainJoins, GoChannel
<1>2. ReasonFirst'  BY DEF IInv, ReasonFirst, Stopping, MainJoins
<1>3. EndIsScanned' /\ ClosedAtEnd'
  BY DEF IInv, EndIsScanned, Ended, ScannerOver, ClosedAtEnd, MainJoins
<1>4. NoneLost'
  BY DEF IInv, Ended, ScannerOver, NoneLost, Pushing, Handling, MainJoins
<1>5. JoinedForGood'  BY DEF JoinedForGood, Joined, MainJoins
<1>6. QED  BY <1>1, <1>2, <1>3, <1>4, <1>5 DEF IInv

\* The ticker is no reason yet.
LEMMA TimeoutInv ==
  ASSUME IInv, Timeout
  PROVE  IInv'
<1>1. TypeOK'  BY DEF IInv, TypeOK, Timeout
<1>2. ReasonFirst'  BY DEF IInv, ReasonFirst, Stopping, ScannerOver, Timeout
<1>3. EndIsScanned' /\ ClosedAtEnd'
  BY DEF IInv, EndIsScanned, Ended, ScannerOver, ClosedAtEnd, Timeout
<1>4. NoneLost'
  BY DEF IInv, Ended, ScannerOver, NoneLost, Pushing, Handling, Timeout
<1>5. JoinedForGood'  BY DEF JoinedForGood, Timeout
<1>6. QED  BY <1>1, <1>2, <1>3, <1>4, <1>5 DEF IInv

\* A client that leaves is no reason yet.
LEMMA ClientLeavesInv ==
  ASSUME IInv, ClientLeaves
  PROVE  IInv'
<1>1. TypeOK'  BY DEF IInv, TypeOK, ClientLeaves
<1>2. ReasonFirst'  BY DEF IInv, ReasonFirst, Stopping, ScannerOver, ClientLeaves
<1>3. EndIsScanned' /\ ClosedAtEnd'
  BY DEF IInv, EndIsScanned, Ended, ScannerOver, ClosedAtEnd, ClientLeaves
<1>4. NoneLost'
  BY DEF IInv, Ended, ScannerOver, NoneLost, Pushing, Handling, ClientLeaves
<1>5. JoinedForGood'  BY DEF IInv, JoinedForGood, Joined, ClientLeaves
<1>6. QED  BY <1>1, <1>2, <1>3, <1>4, <1>5 DEF IInv

\* Steps that change nothing preserve everything.
LEMMA StreamStutter ==
  ASSUME IInv, UNCHANGED streamVars
  PROVE  IInv'
BY DEF IInv, TypeOK, ReasonFirst, Stopping, EndIsScanned, Ended, ScannerOver, NoneLost, Pushing,
       Handling, ClosedAtEnd, JoinedForGood, Joined

-----------------------------------------------------------------------------
(* The theorems                                                            *)

\* The invariant of the relay of a stream: the reason comes before everything that stops a
\* goroutine, and until something stops the stream every chunk that was counted is handled,
\* in the channel, or in the hands of the scanner or the handler.
THEOREM StreamInvariant == StreamSpec => []IInv
<1>1. ASSUME StreamInit  PROVE IInv
  <2>1. [n |-> 0, closed |-> FALSE] \in GoChannel
    <3>1. 0 \in Nat  OBVIOUS
    <3>2. QED  BY <3>1, Zenon DEF GoChannel
  <2>2. ctxDone \in BOOLEAN /\ gone \in BOOLEAN /\ ticked \in BOOLEAN /\ gaveUp \in BOOLEAN /\ halted \in BOOLEAN
    BY <1>1, Zenon DEF StreamInit
  <2>3. TypeOK  BY <1>1, <2>1, <2>2 DEF StreamInit, TypeOK
  <2>4. ReasonFirst /\ EndIsScanned /\ NoneLost /\ ClosedAtEnd /\ JoinedForGood
    BY <1>1 DEF StreamInit, ReasonFirst, Stopping, EndIsScanned, Ended, ScannerOver,
                NoneLost, Pushing, Handling, ClosedAtEnd, JoinedForGood
  <2>5. QED  BY <2>3, <2>4 DEF IInv
<1>2. ASSUME IInv, [StreamNext]_streamVars  PROVE IInv'
  <2> USE <1>2
  <2>1. ASSUME NEW kind \in {"data", "skip", "done"}, ScanLine(kind)  PROVE IInv'
    BY <2>1, ScanLineInv
  <2>2. CASE ScanStops  BY <2>2, ScanStopsInv
  <2>3. ASSUME NEW why \in {"scanner_error", "eof"}, ScanEnds(why)  PROVE IInv'
    BY <2>3, ScanEndsInv
  <2>4. CASE Push  BY <2>4, PushInv
  <2>5. CASE ReceivedDone  BY <2>5, ReceivedDoneInv
  <2>6. CASE ScannerExits  BY <2>6, ScannerExitsInv
  <2>7. CASE ScannerSends  BY <2>7, ScannerSendsInv
  <2>8. CASE HandlerTakes  BY <2>8, HandlerTakesInv
  <2>9. CASE HandlerLocks  BY <2>9, HandlerLocksInv
  <2>10. ASSUME NEW how \in StopReasons \cup {"next", "panic"}, HandlerRuns(how)  PROVE IInv'
    BY <2>10, HandlerRunsInv
  <2>11. CASE HandlerExits  BY <2>11, HandlerExitsInv
  <2>12. CASE HandlerRecovers  BY <2>12, HandlerRecoversInv
  <2>13. CASE HandlerSends  BY <2>13, HandlerSendsInv
  <2>14. CASE PingTicks  BY <2>14, PingTicksInv
  <2>15. CASE PingAnswered  BY <2>15, PingAnsweredInv
  <2>16. CASE PingStops  BY <2>16, PingStopsInv
  <2>17. CASE WriterLocks  BY <2>17, WriterLocksInv
  <2>18. CASE PingData  BY <2>18, PingDataInv
  <2>19. CASE MainWakes  BY <2>19, MainWakesInv
  <2>20. CASE MainCancels  BY <2>20, MainCancelsInv
  <2>21. CASE MainSends  BY <2>21, MainSendsInv
  <2>22. CASE MainJoins  BY <2>22, MainJoinsInv
  <2>23. CASE Timeout  BY <2>23, TimeoutInv
  <2>24. CASE ClientLeaves  BY <2>24, ClientLeavesInv
  <2>25. CASE UNCHANGED streamVars  BY <2>25, StreamStutter
  <2>26. QED
    BY <2>1, <2>2, <2>3, <2>4, <2>5, <2>6, <2>7, <2>8, <2>9, <2>10, <2>11, <2>12, <2>13,
       <2>14, <2>15, <2>16, <2>17, <2>18, <2>19, <2>20, <2>21, <2>22, <2>23, <2>24, <2>25
       DEF StreamNext, ScannerStep, ScanFails, HandlerStep, HandlerWrites, PingStep, MainStep
<1>3. QED  BY <1>1, <1>2, PTL DEF StreamSpec

\* The variables of the four goroutines keep their types.
THEOREM StreamTypeCorrect == StreamSpec => []TypeOK
<1>1. IInv => TypeOK  BY DEF IInv
<1>2. QED  BY <1>1, StreamInvariant, PTL

\* Whoever wakes the relay, the reason of the end is there before (main's ReceiveStop relies on
\* "EndReason already set by the goroutine that triggered stopChan").
THEOREM ReasonGiven == StreamSpec => []EndHasReason
<1>1. IInv => EndHasReason  BY DEF IInv, ReasonFirst, Stopping, EndHasReason
<1>2. QED  BY <1>1, StreamInvariant, PTL

\* A relay that returns after the end of the stream has passed on every chunk it counted, for
\* any number of lines and any size of dataChan.
THEOREM NothingLost == StreamSpec => []ScannedIsHandled
<1>1. ASSUME IInv  PROVE ScannedIsHandled
  <2> SUFFICES ASSUME main = "returned", ~gaveUp, ~halted,
                      reason \in {"done", "eof", "scanner_error"}
               PROVE  handled = received
    BY DEF ScannedIsHandled
  <2>1. scan \in {"send", "gone"} /\ hand \in {"send", "gone"}
    BY <1>1 DEF IInv, JoinedForGood, Joined, ClosedAtEnd
  <2>2. dataChan.n = 0 /\ Pushing = 0 /\ Handling = 0
    BY <1>1, <2>1 DEF IInv, ClosedAtEnd, Pushing, Handling
  <2>3. received = handled + dataChan.n + Pushing + Handling
    BY <1>1 DEF IInv, NoneLost, Ended
  <2>4. QED  BY <1>1, <2>2, <2>3 DEF IInv, TypeOK
<1>2. QED  BY <1>1, StreamInvariant, PTL

\* Three goroutines say stop once each, so the count of values in stopChan and values still to
\* come never grows.
LEMMA StopsStayCounted ==
  ASSUME IInv, IInv', StopsCounted, [StreamNext]_streamVars
  PROVE  StopsCounted'
<1> USE DEF IInv, TypeOK, StopsCounted, ToSend
<1>1. ASSUME NEW kind \in {"data", "skip", "done"}, ScanLine(kind)  PROVE StopsCounted'
  BY <1>1 DEF ScanLine
<1>2. CASE ScanStops  BY <1>2 DEF ScanStops, ReceiveStop
<1>3. ASSUME NEW why \in {"scanner_error", "eof"}, ScanEnds(why)  PROVE StopsCounted'
  BY <1>3 DEF ScanEnds
<1>4. CASE Push  BY <1>4 DEF Push, ReceiveStop
<1>5. CASE ReceivedDone  BY <1>5 DEF ReceivedDone
<1>6. CASE ScannerExits  BY <1>6 DEF ScannerExits
<1>7. CASE ScannerSends  BY <1>7 DEF ScannerSends, SafeSendBool
<1>8. CASE HandlerTakes  BY <1>8 DEF HandlerTakes
<1>9. CASE HandlerLocks  BY <1>9 DEF HandlerLocks
<1>10. ASSUME NEW how \in StopReasons \cup {"next", "panic"}, HandlerRuns(how)  PROVE StopsCounted'
  BY <1>10 DEF HandlerRuns
<1>11. CASE HandlerExits  BY <1>11 DEF HandlerExits
<1>12. CASE HandlerRecovers  BY <1>12 DEF HandlerRecovers
<1>13. CASE HandlerSends  BY <1>13 DEF HandlerSends, SafeSendBool
<1>14. CASE PingTicks  BY <1>14 DEF PingTicks
<1>15. CASE PingAnswered  BY <1>15 DEF PingAnswered
<1>16. CASE PingStops  BY <1>16 DEF PingStops, ReceiveStop
<1>17. CASE WriterLocks  BY <1>17 DEF WriterLocks
<1>18. CASE PingData  BY <1>18 DEF PingData
<1>19. CASE MainWakes  BY <1>19 DEF MainWakes, ReceiveStop
<1>20. CASE MainCancels  BY <1>20 DEF MainCancels
<1>21. CASE MainSends  BY <1>21 DEF MainSends, SafeSendBool
<1>22. CASE MainJoins  BY <1>22 DEF MainJoins
<1>23. CASE Timeout  BY <1>23 DEF Timeout
<1>24. CASE ClientLeaves  BY <1>24 DEF ClientLeaves
<1>25. CASE UNCHANGED streamVars  BY <1>25
<1> HIDE DEF IInv, TypeOK, StopsCounted, ToSend
<1>26. QED
  BY <1>1, <1>2, <1>3, <1>4, <1>5, <1>6, <1>7, <1>8, <1>9, <1>10, <1>11, <1>12, <1>13,
     <1>14, <1>15, <1>16, <1>17, <1>18, <1>19, <1>20, <1>21, <1>22, <1>23, <1>24, <1>25
     DEF StreamNext, ScannerStep, ScanFails, HandlerStep, HandlerWrites, PingStep, MainStep

\* With the three places the code gives stopChan nobody waits for room in it: neither the
\* relay, nor the deferred functions of the scanner and of the data handler.
THEOREM NoSenderBlocks == ASSUME StopBuffer >= 3 PROVE StreamSpec => []SendersFit
<1>1. StreamInit => StopsCounted  BY DEF StreamInit, StopsCounted, ToSend
<1>2. IInv /\ IInv' /\ StopsCounted /\ [StreamNext]_streamVars => StopsCounted'  BY StopsStayCounted
<1>3. IInv /\ StopsCounted => SendersFit
  BY DEF IInv, TypeOK, StopsCounted, ToSend, SendersFit
<1>4. QED  BY <1>1, <1>2, <1>3, StreamInvariant, PTL DEF StreamSpec

HIDE StreamAssumption
HIDE DEF streamVars, signals, counts, flags, Reasons

-----------------------------------------------------------------------------
(* ClaudeStream: what the client will have seen                            *)

Events == {"message_start", "block_start", "delta", "block_stop", "message_delta", "message_stop"}
EventType == {e \in [t : Events, i : Nat, k : BlockKinds \cup {"none"}] :
                e.t = "block_start" => e.k \in BlockKinds}
At(p, b, n) == [phase |-> p, blocks |-> b, pieces |-> n]

AllShut(b) == \A i \in Index : b[i] \in {"unused", "closed"}

\* Event e may come when the client is in state s, and what Emit makes of the client then.
Allowed(s, e) ==
  \/ e.t = "message_start" /\ s.phase = "before"
  \/ /\ e.t = "block_start" /\ s.phase = "open" /\ e.i \in Index /\ e.k \in BlockKinds
     /\ s.blocks[e.i] = "unused" /\ \A j \in 0 .. e.i - 1 : s.blocks[j] # "unused"
  \/ e.t = "delta" /\ s.phase = "open" /\ e.i \in Index /\ e.k \in BlockKinds /\ s.blocks[e.i] = e.k
  \/ e.t = "block_stop" /\ s.phase = "open" /\ e.i \in Index /\ s.blocks[e.i] \in BlockKinds
  \/ e.t = "message_delta" /\ s.phase = "open" /\ AllShut(s.blocks)
  \/ e.t = "message_stop" /\ s.phase = "delta"
Applied(s, e) ==
  At(CASE e.t = "message_start" -> "open"
       [] e.t = "message_delta" -> "delta"
       [] e.t = "message_stop" -> "stopped"
       [] OTHER -> s.phase,
     CASE e.t = "block_start" -> [s.blocks EXCEPT ![e.i] = e.k]
       [] e.t = "block_stop" -> [s.blocks EXCEPT ![e.i] = "closed"]
       [] OTHER -> s.blocks,
     IF e.t = "delta" THEN s.pieces - 1 ELSE s.pieces)

\* The events evs may be sent one after the other, and take the client from s to u.
Sends(s, evs, u) ==
  /\ evs \in Seq(EventType)
  /\ \E st \in [1 .. Len(evs) + 1 -> ClientType] :
       /\ st[1] = s /\ st[Len(evs) + 1] = u
       /\ \A n \in 1 .. Len(evs) : Allowed(st[n], evs[n]) /\ st[n + 1] = Applied(st[n], evs[n])

-----------------------------------------------------------------------------
(* ClaudeStream: what ClaudeConvertInfo says of the blocks                 *)

\* The blocks below b are closed, those from b to m - 1 are open and of kind k.
Blocks(b, m, k) == [i \in Index |-> IF i < b THEN "closed" ELSE IF i < m THEN k ELSE "unused"]
Shut(m) == Blocks(m, m, "tool")

\* The first block that is open or not started, and the first that is not started.
FirstOpen(c) == IF c.last = "tools" THEN c.base ELSE c.idx
NextFree(c) == CASE c.last = "none" -> c.idx
                 [] c.last = "tools" -> c.base + c.max + 1
                 [] OTHER -> c.idx + 1
KindOf(c) == IF c.last \in WordKinds THEN c.last ELSE "tool"
BlocksOf(c) == Blocks(FirstOpen(c), NextFree(c), KindOf(c))

\* The converter has seen tool calls 0 to n - 1.
HasTools(c, n) == IF n = 0 THEN c.last # "tools" ELSE c.last = "tools" /\ c.max + 1 = n

-----------------------------------------------------------------------------
(* ClaudeStream: the inductive invariant                                   *)

PlainChunk(x) == x.choices /\ ~x.finish /\ x.tools = <<>> /\ ~(x.think /\ x.text)
NextTool(y, m) == y = <<Tool(m, TRUE)>>
NextTools(y, m) == y = <<Tool(m, TRUE), Tool(m + 1, TRUE)>>
MoreArgs(y, off) == y = <<Tool(off, FALSE)>>
ToolChunk(x, m, n) ==
  /\ x.choices /\ ~x.finish /\ ~x.think /\ ~x.text
  /\ \/ NextTool(x.tools, m) /\ n = m + 1
     \/ NextTools(x.tools, m) /\ n = m + 2
     \/ n = m /\ \E off \in 0 .. m - 1 : MoreArgs(x.tools, off)
FinishChunk(x) == x.choices /\ x.finish /\ x.tools = <<>> /\ ~x.think
UsageChunk(x) == ~x.choices /\ ~x.finish /\ x.tools = <<>> /\ ~x.think /\ ~x.text /\ x.usage

\* One chunk is held back, from the first to the last; the converter has seen the others.
Counted ==
  /\ up.sent = 0 <=> up.stage = "first" /\ ~up.cut
  /\ up.stage = "first" =>
       up.tools = 0 /\ count = 0 /\ HasTools(conv, 0) /\ NextFree(conv) = 0 /\ ~conv.done /\ ~up.lost
  /\ held = <<>> <=> up.sent = 0 \/ ended \/ up.cut
  /\ count = IF up.sent = 0 THEN 0 ELSE up.sent - 1
  /\ up.stage \in {"words", "tools"} /\ ~up.cut => up.sent <= MaxChunks
  /\ up.stage = "usage" => up.usage \in {"separate", "every"}
  /\ held # <<>> => Len(held[1].tools) <= 2

\* What the chunk that is held back can be, and what was converted before it.
HeldBack(x) ==
  /\ up.stage # "end" => ~conv.done
  /\ up.stage = "words" =>
       /\ PlainChunk(x) /\ ~up.lost /\ NextFree(conv) <= count + up.tools
       /\ up.tools = 0 => HasTools(conv, 0)
       /\ count = 0 => up.tools = 0
  /\ up.stage = "tools" => ~up.lost /\ \E m \in 0 .. up.tools :
       /\ ToolChunk(x, m, up.tools) /\ HasTools(conv, m) /\ NextFree(conv) <= count + m
       /\ count = 0 => m = 0 /\ up.tools = 1
  /\ up.stage = "usage" =>
       /\ FinishChunk(x) /\ (x.usage <=> up.usage = "every") /\ NextFree(conv) < MaxBlocks
       /\ count # 0 /\ (up.lost <=> x.text /\ ~x.usage)
  /\ up.stage = "end" /\ up.usage \in {"separate", "every"} =>
       /\ UsageChunk(x) /\ (conv.done <=> up.usage = "every") /\ NextFree(conv) <= MaxBlocks
       /\ count # 0
  /\ up.stage = "end" /\ up.usage \notin {"separate", "every"} =>
       /\ FinishChunk(x) /\ (x.usage <=> up.usage = "with_finish")
       /\ ~conv.done /\ NextFree(conv) < MaxBlocks
       /\ count # 0 /\ (up.lost <=> x.text /\ ~x.usage)

\* The pieces that will not be delivered or are not yet: text that was dropped, and what is held.
One(b) == IF b THEN 1 ELSE 0
Owed == IF held = <<>> THEN One(up.lost) ELSE Pieces(held[1]) + One(up.lost /\ ~held[1].finish)

\* The client in state s agrees with the converter, and at the end with the upstream.
Agrees(s) ==
  /\ ~ended /\ ~conv.done => /\ s.phase = IF count = 0 THEN "before" ELSE "open"
                             /\ s.blocks = BlocksOf(conv)
  /\ ~ended /\ conv.done => s.phase = "stopped" /\ AllShut(s.blocks)
  /\ ~ended /\ up.cut => (conv.done <=> Finished)
  /\ ended => (s.phase = "stopped" <=> Finished) /\ (Finished => AllShut(s.blocks))
  /\ s.pieces = Owed

ClientNow == At(phase, blocks, pieces)
Agreed == \E s \in ClientType : Sends(ClientNow, out, s) /\ Agrees(s)
ClaudeInv ==
  /\ ClaudeTypeOK /\ out \in Seq(EventType) /\ Counted
  /\ Followed => (~ended /\ held # <<>> => HeldBack(held[1])) /\ Agreed

-----------------------------------------------------------------------------
(* ClaudeStream: sequences and maxima                                      *)

\* What concatenation does.
LEMMA ConcatFacts ==
  ASSUME NEW T, NEW f \in Seq(T), NEW g \in Seq(T)
  PROVE  /\ f \o g \in Seq(T) /\ Len(f \o g) = Len(f) + Len(g)
         /\ \A j \in 1 .. Len(f) : (f \o g)[j] = f[j]
         /\ \A j \in 1 .. Len(g) : (f \o g)[Len(f) + j] = g[j]
OBVIOUS

\* Two events, one after the other.
LEMMA PairSeq ==
  ASSUME NEW x, NEW y
  PROVE  <<x>> \o <<y>> = <<x, y>>
<1> DEFINE T == {x, y}
           f == <<x>>
           g == <<y>>
           h == <<x, y>>
           fg == f \o g
<1>1. f \in Seq(T) /\ g \in Seq(T) /\ h \in Seq(T)  OBVIOUS
<1>2. Len(f) = 1 /\ Len(g) = 1 /\ Len(h) = 2 /\ f[1] = x /\ g[1] = y /\ h[1] = x /\ h[2] = y  OBVIOUS
<1> HIDE DEF f, g, h, T
<1>3. /\ fg \in Seq(T) /\ Len(fg) = Len(f) + Len(g)
      /\ \A j \in 1 .. Len(f) : fg[j] = f[j]
      /\ \A j \in 1 .. Len(g) : fg[Len(f) + j] = g[j]
  BY <1>1, ConcatFacts
<1> HIDE DEF fg
<1>4. Len(fg) = 2 /\ fg[1] = x /\ fg[2] = y  BY <1>2, <1>3
<1>5. fg = h  BY <1>1, <1>2, <1>3, <1>4
<1> QED BY <1>5 DEF f, g, h, fg

\* One sequence, flattened.
LEMMA FlattenOne ==
  ASSUME NEW T, NEW f \in Seq(Seq(T)), Len(f) = 1
  PROVE  FlattenSeq(f) = f[1]
<1> DEFINE g == [i \in 1 .. Len(f) |-> f[1]]
<1>1. g = [i \in 1 .. Len(f) |-> IF i = 1 THEN f[i] ELSE g[i-1] \o f[i]]  OBVIOUS
<1> QED BY <1>1 DEF FlattenSeq

\* Two sequences, flattened.
LEMMA FlattenTwo ==
  ASSUME NEW T, NEW f \in Seq(Seq(T)), Len(f) = 2
  PROVE  FlattenSeq(f) = f[1] \o f[2]
<1> DEFINE g == [i \in 1 .. Len(f) |-> IF i = 1 THEN f[1] ELSE f[1] \o f[2]]
           h == CHOOSE k : k = [i \in 1 .. Len(f) |-> IF i = 1 THEN f[i] ELSE k[i - 1] \o f[i]]
<1>1. g = [i \in 1 .. Len(f) |-> IF i = 1 THEN f[i] ELSE g[i - 1] \o f[i]]  OBVIOUS
<1>2. FlattenSeq(f) = h[Len(f)]  BY DEF FlattenSeq
<1> HIDE DEF g
<1>3. h = [i \in 1 .. Len(f) |-> IF i = 1 THEN f[i] ELSE h[i - 1] \o f[i]]
  <2>1. \E k : k = [i \in 1 .. Len(f) |-> IF i = 1 THEN f[i] ELSE k[i - 1] \o f[i]]  BY <1>1, Zenon
  <2> QED BY <2>1, Zenon
<1> HIDE DEF h
<1>4. h[1] = f[1]  BY <1>3
<1>5. h[2] = h[1] \o f[2]  BY <1>3
<1> QED BY <1>2, <1>4, <1>5

\* The maximum is the element no other exceeds.
LEMMA MaxIs ==
  ASSUME NEW T, T \subseteq Int, NEW x \in T, \A y \in T : y <= x
  PROVE  Max(T) = x
<1>1. \A y \in T : x >= y  OBVIOUS
<1>2. Max(T) \in T /\ \A y \in T : Max(T) >= y  BY <1>1, Zenon DEF Max
<1>3. Max(T) >= x /\ x >= Max(T) /\ Max(T) \in Int /\ x \in Int  BY <1>1, <1>2
<1> QED BY <1>3

-----------------------------------------------------------------------------
(* ClaudeStream: sending one event after the other                         *)

\* What an event makes of the client is again a state of the client.
LEMMA AppliedType ==
  ASSUME NEW s \in ClientType, NEW e \in EventType
  PROVE  Applied(s, e) \in ClientType
<1> DEFINE p == CASE e.t = "message_start" -> "open"
                  [] e.t = "message_delta" -> "delta"
                  [] e.t = "message_stop" -> "stopped"
                  [] OTHER -> s.phase
           b == CASE e.t = "block_start" -> [s.blocks EXCEPT ![e.i] = e.k]
                  [] e.t = "block_stop" -> [s.blocks EXCEPT ![e.i] = "closed"]
                  [] OTHER -> s.blocks
           n == IF e.t = "delta" THEN s.pieces - 1 ELSE s.pieces
<1>1. p \in {"before", "open", "delta", "stopped"}  BY DEF ClientType
<1>2. n \in Int  BY DEF ClientType
<1>3. s.blocks \in [Index -> BlockKinds \cup {"unused", "closed"}]  BY DEF ClientType
<1>4. b \in [Index -> BlockKinds \cup {"unused", "closed"}]
  <2>1. e.t = "block_start" => e.k \in BlockKinds  BY DEF EventType
  <2> QED BY <1>3, <2>1
<1>5. Applied(s, e) = At(p, b, n)  BY DEF Applied
<1> HIDE DEF p, b, n
<1> QED BY <1>1, <1>2, <1>4, <1>5 DEF At, ClientType

\* No event leaves the client as it is.
LEMMA SendsNone ==
  ASSUME NEW s \in ClientType
  PROVE  Sends(s, <<>>, s)
<1> DEFINE st == [n \in 1 .. 1 |-> s]
<1>1. st \in [1 .. Len(<<>>) + 1 -> ClientType]  OBVIOUS
<1>2. st[1] = s /\ st[Len(<<>>) + 1] = s  OBVIOUS
<1>3. <<>> \in Seq(EventType)  OBVIOUS
<1> HIDE DEF st
<1> QED BY <1>1, <1>2, <1>3 DEF Sends

\* One event that is allowed.
LEMMA SendsOne ==
  ASSUME NEW s \in ClientType, NEW e \in EventType, Allowed(s, e)
  PROVE  Sends(s, <<e>>, Applied(s, e))
<1> DEFINE evs == <<e>>
           u == Applied(s, e)
           st == [n \in 1 .. 2 |-> IF n = 1 THEN s ELSE u]
<1>1. u \in ClientType  BY AppliedType
<1>2. evs \in Seq(EventType) /\ Len(evs) = 1 /\ evs[1] = e  OBVIOUS
<1>3. u = Applied(s, e)  OBVIOUS
<1> HIDE DEF evs, u
<1>4. st \in [1 .. Len(evs) + 1 -> ClientType]  BY <1>1, <1>2
<1>5. st[1] = s /\ st[2] = u /\ st[Len(evs) + 1] = u  BY <1>2
<1> HIDE DEF st
<1>6. \A n \in 1 .. Len(evs) : Allowed(st[n], evs[n]) /\ st[n + 1] = Applied(st[n], evs[n])
  <2>1. SUFFICES ASSUME NEW n \in 1 .. Len(evs)
                 PROVE  Allowed(st[n], evs[n]) /\ st[n + 1] = Applied(st[n], evs[n])
    OBVIOUS
  <2>2. n = 1 /\ n + 1 = 2  BY <1>2
  <2> QED BY <2>2, <1>2, <1>3, <1>5
<1>7. Sends(s, evs, u)  BY <1>2, <1>4, <1>5, <1>6 DEF Sends
<1> QED BY <1>7 DEF evs, u

\* Events that may be sent after events that may be sent.
LEMMA SendsThen ==
  ASSUME NEW s, NEW t, NEW u, NEW f, NEW g, Sends(s, f, t), Sends(t, g, u)
  PROVE  Sends(s, f \o g, u)
<1>1. f \in Seq(EventType) /\ g \in Seq(EventType)  BY DEF Sends
<1>2. PICK sf \in [1 .. Len(f) + 1 -> ClientType] :
        /\ sf[1] = s /\ sf[Len(f) + 1] = t
        /\ \A n \in 1 .. Len(f) : Allowed(sf[n], f[n]) /\ sf[n + 1] = Applied(sf[n], f[n])
  BY DEF Sends
<1>3. PICK sg \in [1 .. Len(g) + 1 -> ClientType] :
        /\ sg[1] = t /\ sg[Len(g) + 1] = u
        /\ \A n \in 1 .. Len(g) : Allowed(sg[n], g[n]) /\ sg[n + 1] = Applied(sg[n], g[n])
  BY DEF Sends
<1> DEFINE fg == f \o g
           a == Len(f)
           b == Len(g)
           st == [n \in 1 .. a + b + 1 |-> IF n <= a THEN sf[n] ELSE sg[n - a]]
<1>4. fg \in Seq(EventType) /\ Len(fg) = a + b /\ a \in Nat /\ b \in Nat  BY <1>1
<1>5. \A n \in 1 .. a : fg[n] = f[n]  BY <1>1
<1>6. \A n \in a + 1 .. a + b : fg[n] = g[n - a]  BY <1>1
<1>7. st \in [1 .. Len(fg) + 1 -> ClientType]  BY <1>2, <1>3, <1>4
<1>8. st[1] = s /\ st[a + b + 1] = u  BY <1>2, <1>3, <1>4
<1>9. \A n \in 1 .. a + 1 : st[n] = sf[n]  BY <1>2, <1>3, <1>4
<1>10. \A n \in 1 .. b + 1 : st[a + n] = sg[n]  BY <1>4
<1> HIDE DEF st, fg, a, b
<1>11. ASSUME NEW n \in 1 .. a + b
       PROVE  Allowed(st[n], fg[n]) /\ st[n + 1] = Applied(st[n], fg[n])
  <2>1. CASE n <= a
    <3>1. n \in 1 .. a /\ n \in 1 .. a + 1 /\ n + 1 \in 1 .. a + 1  BY <2>1, <1>4
    <3>2. st[n] = sf[n] /\ st[n + 1] = sf[n + 1] /\ fg[n] = f[n]  BY <3>1, <1>5, <1>9
    <3>3. n \in 1 .. Len(f)  BY <3>1 DEF a
    <3> QED BY <3>2, <3>3, <1>2
  <2>2. CASE ~(n <= a)
    <3> DEFINE m == n - a
    <3>1. m \in 1 .. b /\ m + 1 \in 1 .. b + 1 /\ n = a + m /\ n + 1 = a + (m + 1) /\ n \in a + 1 .. a + b
      BY <2>2, <1>4
    <3>2. fg[n] = g[m] BY <3>1, <1>6
    <3> HIDE DEF m
    <3>3. m \in 1 .. b + 1  BY <3>1, <1>4
    <3>4. st[n] = sg[m] /\ st[n + 1] = sg[m + 1]  BY <3>1, <3>3, <1>10
    <3>5. Allowed(sg[m], g[m]) /\ sg[m + 1] = Applied(sg[m], g[m])  BY <3>1, <1>3 DEF b
    <3> QED BY <3>2, <3>4, <3>5
  <2> QED BY <2>1, <2>2
<1>12. Sends(s, fg, u)  BY <1>4, <1>7, <1>8, <1>11 DEF Sends
<1> QED BY <1>12 DEF fg

\* The first of the events is allowed, and the others may follow it.
LEMMA SendsFirst ==
  ASSUME NEW s, NEW u, NEW f, Sends(s, f, u), f # <<>>
  PROVE  /\ s \in ClientType /\ Head(f) \in EventType
         /\ Allowed(s, Head(f)) /\ Sends(Applied(s, Head(f)), Tail(f), u)
<1>1. f \in Seq(EventType)  BY DEF Sends
<1>2. PICK sf \in [1 .. Len(f) + 1 -> ClientType] :
        /\ sf[1] = s /\ sf[Len(f) + 1] = u
        /\ \A n \in 1 .. Len(f) : Allowed(sf[n], f[n]) /\ sf[n + 1] = Applied(sf[n], f[n])
  BY DEF Sends
<1> DEFINE g == Tail(f)
           b == Len(g)
           st == [n \in 1 .. b + 1 |-> sf[n + 1]]
<1>3. g \in Seq(EventType) /\ b \in Nat /\ Len(f) = b + 1 /\ Head(f) = f[1] /\ Head(f) \in EventType
  BY <1>1
<1>4. \A n \in 1 .. b : g[n] = f[n + 1]  BY <1>1
<1> HIDE DEF g, b
<1>5. st \in [1 .. b + 1 -> ClientType]  BY <1>2, <1>3
<1>6. st[1] = sf[2] /\ st[b + 1] = u  BY <1>2, <1>3
<1>7. ASSUME NEW n \in 1 .. b
      PROVE  Allowed(st[n], g[n]) /\ st[n + 1] = Applied(st[n], g[n])
  <2>1. st[n] = sf[n + 1] /\ st[n + 1] = sf[n + 1 + 1] /\ n + 1 \in 1 .. Len(f) /\ g[n] = f[n + 1]
    BY <1>3, <1>4
  <2> QED BY <2>1, <1>2
<1> HIDE DEF st
<1>8. Allowed(s, Head(f)) /\ sf[2] = Applied(s, Head(f)) /\ s \in ClientType
  <2>1. 1 \in 1 .. Len(f) /\ 1 \in 1 .. Len(f) + 1  BY <1>3
  <2>2. 1 + 1 = 2  OBVIOUS
  <2> QED BY <2>1, <2>2, <1>2, <1>3
<1>9. Sends(sf[2], g, u)  BY <1>3, <1>5, <1>6, <1>7 DEF Sends, b
<1> QED BY <1>3, <1>8, <1>9 DEF g

\* The states before and after the events.
LEMMA SendsTyped ==
  ASSUME NEW s, NEW u, NEW f, Sends(s, f, u)
  PROVE  s \in ClientType /\ u \in ClientType /\ f \in Seq(EventType)
<1>1. f \in Seq(EventType)  BY DEF Sends
<1>2. PICK sf \in [1 .. Len(f) + 1 -> ClientType] : sf[1] = s /\ sf[Len(f) + 1] = u
  BY DEF Sends
<1>3. 1 \in 1 .. Len(f) + 1 /\ Len(f) + 1 \in 1 .. Len(f) + 1  BY <1>1
<1> QED BY <1>1, <1>2, <1>3

\* When there is nothing left to send the client has come to its last state.
LEMMA SendsOver ==
  ASSUME NEW s, NEW u, Sends(s, <<>>, u)
  PROVE  s = u
<1>1. Len(<<>>) + 1 = 1  OBVIOUS
<1> QED BY <1>1 DEF Sends

-----------------------------------------------------------------------------
(* ClaudeStream: events on a row of blocks                                 *)

USE ClaudeAssumption

\* An event has the type and the fields it is made of.
LEMMA EvType ==
  ASSUME NEW t \in {"message_start", "block_start", "delta", "block_stop", "message_delta", "message_stop"},
         NEW i \in Nat, NEW k \in BlockKinds \cup {"none"}, t = "block_start" => k \in BlockKinds
  PROVE  Ev(t, i, k) \in EventType /\ Ev(t, i, k).t = t /\ Ev(t, i, k).i = i /\ Ev(t, i, k).k = k
BY DEF Ev, Events, EventType

\* A state of the client has the type and the fields it is made of.
LEMMA AtType ==
  ASSUME NEW p \in {"before", "open", "delta", "stopped"}, NEW n \in Int,
         NEW b \in [Index -> BlockKinds \cup {"unused", "closed"}]
  PROVE  /\ At(p, b, n) \in ClientType
         /\ At(p, b, n).phase = p /\ At(p, b, n).blocks = b /\ At(p, b, n).pieces = n
BY DEF At, ClientType

\* A row of blocks gives every place a state.
LEMMA BlocksType ==
  ASSUME NEW b, NEW m, NEW k \in BlockKinds
  PROVE  Blocks(b, m, k) \in [Index -> BlockKinds \cup {"unused", "closed"}]
BY DEF Blocks

\* Without an open block the kind does not matter.
LEMMA ShutAny ==
  ASSUME NEW m \in Nat, NEW k
  PROVE  Blocks(m, m, k) = Shut(m)
BY DEF Blocks, Shut, Index

\* The block after the open ones may be started.
LEMMA StartNext ==
  ASSUME NEW m \in Nat, NEW b \in 0 .. m, m < MaxBlocks, NEW k \in BlockKinds, NEW n \in Int
  PROVE  Sends(At("open", Blocks(b, m, k), n), <<Ev("block_start", m, k)>>, At("open", Blocks(b, m + 1, k), n))
<1> DEFINE e == Ev("block_start", m, k)
           f == Blocks(b, m, k)
           s == At("open", f, n)
<1>1. e \in EventType /\ e.t = "block_start" /\ e.i = m /\ e.k = k  BY EvType
<1>2. f \in [Index -> BlockKinds \cup {"unused", "closed"}]  BY BlocksType
<1>3. f[m] = "unused" /\ \A j \in 0 .. m - 1 : f[j] # "unused"  BY DEF Blocks, Index, BlockKinds, WordKinds
<1>4. [f EXCEPT ![m] = k] = Blocks(b, m + 1, k)
  <2> DEFINE g == [f EXCEPT ![m] = k]
             h == Blocks(b, m + 1, k)
  <2>1. g \in [Index -> BlockKinds \cup {"unused", "closed"}]  BY <1>2
  <2>2. h \in [Index -> BlockKinds \cup {"unused", "closed"}]  BY BlocksType
  <2>3. ASSUME NEW j \in Index  PROVE  g[j] = h[j]
    <3>1. g[j] = IF j = m THEN k ELSE f[j]  BY <1>2
    <3> QED BY <3>1 DEF Blocks, Index
  <2> HIDE DEF g, h
  <2> QED BY <2>1, <2>2, <2>3 DEF g, h
<1>5. s \in ClientType /\ s.phase = "open" /\ s.blocks = f /\ s.pieces = n  BY <1>2, AtType
<1> HIDE DEF e, f, s
<1>6. Allowed(s, e)  BY <1>1, <1>3, <1>5 DEF Allowed, Index
<1>7. Applied(s, e) = At("open", Blocks(b, m + 1, k), n)  BY <1>1, <1>4, <1>5 DEF Applied
<1>8. Sends(s, <<e>>, Applied(s, e))  BY <1>1, <1>5, <1>6, SendsOne
<1> QED BY <1>7, <1>8 DEF s, e, f

\* An open block takes a delta of its kind, which delivers one piece.
LEMMA DeltaOf ==
  ASSUME NEW m \in Nat, NEW b \in Nat, NEW i \in b .. m - 1, m <= MaxBlocks, NEW k \in BlockKinds, NEW n \in Int
  PROVE  Sends(At("open", Blocks(b, m, k), n), <<Ev("delta", i, k)>>, At("open", Blocks(b, m, k), n - 1))
<1> DEFINE e == Ev("delta", i, k)
           f == Blocks(b, m, k)
           s == At("open", f, n)
<1>1. e \in EventType /\ e.t = "delta" /\ e.i = i /\ e.k = k  BY EvType
<1>2. f \in [Index -> BlockKinds \cup {"unused", "closed"}]  BY BlocksType
<1>3. f[i] = k /\ i \in Index  BY DEF Blocks, Index
<1>5. s \in ClientType /\ s.phase = "open" /\ s.blocks = f /\ s.pieces = n  BY <1>2, AtType
<1> HIDE DEF e, f, s
<1>6. Allowed(s, e)  BY <1>1, <1>3, <1>5 DEF Allowed
<1>7. Applied(s, e) = At("open", f, n - 1)  BY <1>1, <1>5 DEF Applied
<1>8. Sends(s, <<e>>, Applied(s, e))  BY <1>1, <1>5, <1>6, SendsOne
<1> QED BY <1>7, <1>8 DEF s, e, f

\* The first of the open blocks may be stopped.
LEMMA StopFirst ==
  ASSUME NEW m \in Nat, NEW b \in 0 .. m - 1, m <= MaxBlocks, NEW k \in BlockKinds, NEW n \in Int
  PROVE  /\ At("open", Blocks(b, m, k), n) \in ClientType
         /\ Ev("block_stop", b, "none") \in EventType
         /\ Allowed(At("open", Blocks(b, m, k), n), Ev("block_stop", b, "none"))
         /\ Applied(At("open", Blocks(b, m, k), n), Ev("block_stop", b, "none"))
              = At("open", Blocks(b + 1, m, k), n)
<1> DEFINE e == Ev("block_stop", b, "none")
           f == Blocks(b, m, k)
           s == At("open", f, n)
<1>1. e \in EventType /\ e.t = "block_stop" /\ e.i = b  BY EvType
<1>2. f \in [Index -> BlockKinds \cup {"unused", "closed"}]  BY BlocksType
<1>3. f[b] \in BlockKinds /\ b \in Index  BY DEF Blocks, Index
<1>4. [f EXCEPT ![b] = "closed"] = Blocks(b + 1, m, k)
  <2> DEFINE g == [f EXCEPT ![b] = "closed"]
             h == Blocks(b + 1, m, k)
  <2>1. g \in [Index -> BlockKinds \cup {"unused", "closed"}]  BY <1>2
  <2>2. h \in [Index -> BlockKinds \cup {"unused", "closed"}]  BY BlocksType
  <2>3. ASSUME NEW j \in Index  PROVE  g[j] = h[j]
    <3>1. g[j] = IF j = b THEN "closed" ELSE f[j]  BY <1>2
    <3> QED BY <3>1 DEF Blocks, Index
  <2> HIDE DEF g, h
  <2> QED BY <2>1, <2>2, <2>3 DEF g, h
<1>5. s \in ClientType /\ s.phase = "open" /\ s.blocks = f /\ s.pieces = n  BY <1>2, AtType
<1> HIDE DEF e, f, s
<1>6. Allowed(s, e)  BY <1>1, <1>3, <1>5 DEF Allowed
<1>7. Applied(s, e) = At("open", Blocks(b + 1, m, k), n)  BY <1>1, <1>4, <1>5 DEF Applied
<1> QED BY <1>1, <1>5, <1>6, <1>7 DEF s, e, f

\* The open blocks may be stopped one after the other, from the first to the last.
LEMMA StopRow ==
  ASSUME NEW b \in Nat, NEW m \in Nat, b + m <= MaxBlocks, NEW k \in BlockKinds, NEW n \in Int
  PROVE  Sends(At("open", Blocks(b, b + m, k), n), [j \in 1 .. m |-> Ev("block_stop", b + j - 1, "none")],
               At("open", Shut(b + m), n))
<1> DEFINE f == [j \in 1 .. m |-> Ev("block_stop", b + j - 1, "none")]
           st == [j \in 1 .. m + 1 |-> At("open", Blocks(b + j - 1, b + m, k), n)]
<1>1. \A j \in 1 .. m : Ev("block_stop", b + j - 1, "none") \in EventType
  BY EvType
<1>2. f \in Seq(EventType) /\ Len(f) = m
  BY <1>1
<1>3. \A j \in 1 .. m + 1 : Blocks(b + j - 1, b + m, k) \in [Index -> BlockKinds \cup {"unused", "closed"}]
  BY BlocksType
<1>4. \A j \in 1 .. m + 1 : At("open", Blocks(b + j - 1, b + m, k), n) \in ClientType
  BY <1>3, AtType
<1>5. st \in [1 .. Len(f) + 1 -> ClientType]  BY <1>2, <1>4
<1>6. st[1] = At("open", Blocks(b, b + m, k), n)  BY b + 1 - 1 = b
<1>7. st[m + 1] = At("open", Shut(b + m), n)
  <2>1. b + (m + 1) - 1 = b + m /\ m + 1 \in 1 .. m + 1 /\ b + m \in Nat  OBVIOUS
  <2> QED BY <2>1, ShutAny
<1>8. ASSUME NEW j \in 1 .. m
      PROVE  Allowed(st[j], f[j]) /\ st[j + 1] = Applied(st[j], f[j])
  <2> DEFINE a == b + j - 1
  <2>1. st[j] = At("open", Blocks(a, b + m, k), n) /\ f[j] = Ev("block_stop", a, "none")  OBVIOUS
  <2>2. a \in 0 .. b + m - 1 /\ a + 1 = b + (j + 1) - 1 /\ b + m \in Nat /\ j + 1 \in 1 .. m + 1 OBVIOUS
  <2>3. st[j + 1] = At("open", Blocks(b + (j + 1) - 1, b + m, k), n)  BY <2>2
  <2> HIDE DEF a, st, f
  <2>4. /\ Allowed(At("open", Blocks(a, b + m, k), n), Ev("block_stop", a, "none"))
        /\ Applied(At("open", Blocks(a, b + m, k), n), Ev("block_stop", a, "none"))
              = At("open", Blocks(a + 1, b + m, k), n)
    BY <2>2, StopFirst
  <2> QED BY <2>1, <2>2, <2>3, <2>4
<1> HIDE DEF st, f
<1>9. Sends(At("open", Blocks(b, b + m, k), n), f, At("open", Shut(b + m), n))
  BY <1>2, <1>5, <1>6, <1>7, <1>8 DEF Sends
<1> QED BY <1>9 DEF f

\* The message starts with whatever blocks there are.
LEMMA MessageBegins ==
  ASSUME NEW b \in [Index -> BlockKinds \cup {"unused", "closed"}], NEW n \in Int
  PROVE  Sends(At("before", b, n), <<Ev("message_start", 0, "none")>>, At("open", b, n))
<1> DEFINE e == Ev("message_start", 0, "none")
           s == At("before", b, n)
<1>1. e \in EventType /\ e.t = "message_start"  BY EvType
<1>2. s \in ClientType /\ s.phase = "before" /\ s.blocks = b /\ s.pieces = n  BY AtType
<1> HIDE DEF e, s
<1>3. Allowed(s, e)  BY <1>1, <1>2 DEF Allowed
<1>4. Applied(s, e) = At("open", b, n)  BY <1>1, <1>2 DEF Applied
<1>5. Sends(s, <<e>>, Applied(s, e))  BY <1>1, <1>2, <1>3, SendsOne
<1> QED BY <1>4, <1>5 DEF s, e

\* A row without open blocks is shut.
LEMMA ShutIsShut ==
  ASSUME NEW m \in Nat
  PROVE  /\ AllShut(Shut(m))
         /\ Shut(m) \in [Index -> BlockKinds \cup {"unused", "closed"}]
BY DEF AllShut, Shut, Blocks

\* message_delta may follow when no block is open.
LEMMA MessageDeltaSent ==
  ASSUME NEW m \in Nat, NEW n \in Int
  PROVE  Sends(At("open", Shut(m), n), <<Ev("message_delta", 0, "none")>>, At("delta", Shut(m), n))
<1> DEFINE d == Ev("message_delta", 0, "none")
           f == Shut(m)
           s == At("open", f, n)
<1>1. d \in EventType /\ d.t = "message_delta"  BY EvType
<1>2. f \in [Index -> BlockKinds \cup {"unused", "closed"}] /\ AllShut(f)  BY ShutIsShut
<1>3. s \in ClientType /\ s.phase = "open" /\ s.blocks = f /\ s.pieces = n  BY <1>2, AtType
<1> HIDE DEF d, f, s
<1>4. Allowed(s, d) /\ Applied(s, d) = At("delta", f, n)  BY <1>1, <1>2, <1>3 DEF Allowed, Applied
<1>5. Sends(s, <<d>>, At("delta", f, n))  BY <1>1, <1>3, <1>4, SendsOne
<1> QED BY <1>5 DEF s, d, f

\* message_stop may follow message_delta.
LEMMA MessageStopSent ==
  ASSUME NEW m \in Nat, NEW n \in Int
  PROVE  Sends(At("delta", Shut(m), n), <<Ev("message_stop", 0, "none")>>, At("stopped", Shut(m), n))
<1> DEFINE d == Ev("message_stop", 0, "none")
           f == Shut(m)
           s == At("delta", f, n)
<1>1. d \in EventType /\ d.t = "message_stop"  BY EvType
<1>2. f \in [Index -> BlockKinds \cup {"unused", "closed"}]  BY ShutIsShut
<1>3. s \in ClientType /\ s.phase = "delta" /\ s.blocks = f /\ s.pieces = n  BY <1>2, AtType
<1> HIDE DEF d, f, s
<1>4. Allowed(s, d) /\ Applied(s, d) = At("stopped", f, n)  BY <1>1, <1>3 DEF Allowed, Applied
<1>5. Sends(s, <<d>>, At("stopped", f, n))  BY <1>1, <1>3, <1>4, SendsOne
<1> QED BY <1>5 DEF s, d, f

-----------------------------------------------------------------------------
(* ClaudeStream: what the converter does to the blocks                     *)

\* The places of a converter are natural numbers, and its open blocks lie before the next free one.
LEMMA Places ==
  ASSUME NEW c \in ConvType
  PROVE  /\ NextFree(c) \in Nat /\ FirstOpen(c) \in Nat /\ FirstOpen(c) <= NextFree(c)
         /\ KindOf(c) \in BlockKinds
         /\ BlocksOf(c) \in [Index -> BlockKinds \cup {"unused", "closed"}]
<1>1. /\ NextFree(c) \in Nat /\ FirstOpen(c) \in Nat /\ FirstOpen(c) <= NextFree(c)
      /\ KindOf(c) \in BlockKinds
  BY DEF NextFree, FirstOpen, KindOf, ConvType, WordKinds, BlockKinds
<1> QED BY <1>1, BlocksType DEF BlocksOf

\* StopOpenBlocks closes what is open.
LEMMA StopsOpen ==
  ASSUME NEW c \in ConvType, NextFree(c) <= MaxBlocks, NEW n \in Int
  PROVE  Sends(At("open", BlocksOf(c), n), StopOpenBlocks(c), At("open", Shut(NextFree(c)), n))
<1>0. c.last \in {"text", "thinking", "none", "tools"} /\ c.idx \in Nat /\ c.base \in Nat /\ c.max \in Nat
  BY DEF ConvType, WordKinds
<1>1. CASE c.last = "none"
  <2>1. StopOpenBlocks(c) = <<>> /\ NextFree(c) = c.idx /\ BlocksOf(c) = Blocks(c.idx, c.idx, "tool")
    BY <1>1 DEF StopOpenBlocks, NextFree, BlocksOf, FirstOpen, KindOf, WordKinds
  <2>2. At("open", Shut(c.idx), n) \in ClientType  BY <1>0, ShutIsShut, AtType
  <2> QED BY <2>1, <2>2, SendsNone DEF Shut
<1>2. CASE c.last \in {"text", "thinking"}
  <2> DEFINE k == c.last
  <2>1. /\ StopOpenBlocks(c) = <<Ev("block_stop", c.idx, "none")>> /\ NextFree(c) = c.idx + 1
        /\ BlocksOf(c) = Blocks(c.idx, c.idx + 1, k) /\ k \in BlockKinds
    BY <1>2 DEF StopOpenBlocks, NextFree, BlocksOf, FirstOpen, KindOf, WordKinds, BlockKinds
  <2> DEFINE m == c.idx + 1
  <2>2. m \in Nat /\ c.idx \in 0 .. m - 1 /\ m <= MaxBlocks  BY <1>0, <2>1
  <2>3. Blocks(c.idx + 1, m, k) = Shut(m)  BY <2>2, ShutAny
  <2> HIDE DEF k, m
  <2>4. /\ At("open", Blocks(c.idx, m, k), n) \in ClientType
        /\ Ev("block_stop", c.idx, "none") \in EventType
        /\ Allowed(At("open", Blocks(c.idx, m, k), n), Ev("block_stop", c.idx, "none"))
        /\ Applied(At("open", Blocks(c.idx, m, k), n), Ev("block_stop", c.idx, "none"))
              = At("open", Blocks(c.idx + 1, m, k), n)
    BY <2>1, <2>2, StopFirst
  <2>5. Sends(At("open", Blocks(c.idx, m, k), n), <<Ev("block_stop", c.idx, "none")>>, At("open", Shut(m), n))
    BY <2>3, <2>4, SendsOne
  <2> QED BY <2>1, <2>5 DEF m
<1>3. CASE c.last = "tools"
  <2> DEFINE w == c.max + 1
             f == [j \in 1 .. w |-> Ev("block_stop", c.base + j - 1, "none")]
  <2>1. StopOpenBlocks(c) = f  BY <1>3 DEF StopOpenBlocks
  <2>2. NextFree(c) = c.base + w /\ BlocksOf(c) = Blocks(c.base, c.base + w, "tool")
    BY <1>0, <1>3 DEF NextFree, BlocksOf, FirstOpen, KindOf, WordKinds
  <2>3. w \in Nat  BY <1>0
  <2>4. "tool" \in BlockKinds  BY DEF BlockKinds
  <2> HIDE DEF w
  <2>5. Sends(At("open", Blocks(c.base, c.base + w, "tool"), n), f, At("open", Shut(c.base + w), n))
    BY <1>0, <2>2, <2>3, <2>4, StopRow
  <2> HIDE DEF f
  <2> QED BY <2>1, <2>2, <2>5
<1> QED BY <1>0, <1>1, <1>2, <1>3

\* Advance goes to the next free place.
LEMMA Advances ==
  ASSUME NEW c \in ConvType
  PROVE  /\ Advance(c) \in ConvType /\ Advance(c).last = "none" /\ Advance(c).idx = NextFree(c)
         /\ Advance(c).usage = c.usage /\ Advance(c).done = c.done
<1>0. c.last \in {"text", "thinking", "none", "tools"} /\ c.idx \in Nat /\ c.base \in Nat /\ c.max \in Nat
  BY DEF ConvType, WordKinds
<1>1. CASE c.last = "none"
  BY <1>1 DEF Advance, NextFree
<1>2. CASE c.last = "tools"
  <2> DEFINE d == [c EXCEPT !.idx = c.base + c.max + 1, !.base = 0, !.max = 0, !.last = "none"]
  <2>1. d \in ConvType
    <3> DEFINE v == c.base + c.max + 1
    <3>1. v \in Nat  BY <1>0
    <3> HIDE DEF v
    <3>2. [c EXCEPT !.idx = v, !.base = 0, !.max = 0, !.last = "none"] \in ConvType  BY <3>1 DEF ConvType
    <3> QED BY <3>2 DEF v
  <2>2. Advance(c) = d /\ NextFree(c) = c.base + c.max + 1  BY <1>2 DEF Advance, NextFree
  <2>3. d.last = "none" /\ d.idx = c.base + c.max + 1 /\ d.usage = c.usage /\ d.done = c.done
    BY DEF ConvType
  <2> QED BY <2>1, <2>2, <2>3
<1>3. CASE c.last \in {"text", "thinking"}
  <2> DEFINE d == [c EXCEPT !.idx = @ + 1, !.last = "none"]
  <2>1. d \in ConvType
    <3> DEFINE v == c.idx + 1
    <3>1. v \in Nat  BY <1>0
    <3> HIDE DEF v
    <3>2. [c EXCEPT !.idx = v, !.last = "none"] \in ConvType  BY <3>1 DEF ConvType
    <3> QED BY <3>2 DEF v
  <2>2. Advance(c) = d /\ NextFree(c) = c.idx + 1  BY <1>3 DEF Advance, NextFree
  <2>3. d.last = "none" /\ d.idx = c.idx + 1 /\ d.usage = c.usage /\ d.done = c.done
    BY DEF ConvType
  <2> QED BY <2>1, <2>2, <2>3
<1> QED BY <1>0, <1>1, <1>2, <1>3

\* A piece of text or reasoning is delivered, in the block that is open or in a new one.
LEMMA WordsDelivered ==
  ASSUME NEW c \in ConvType, NEW k \in WordKinds, NextFree(c) < MaxBlocks, NEW n \in Int
  PROVE  /\ Words(c, k).c \in ConvType /\ Words(c, k).c.last = k /\ Words(c, k).c.done = c.done
         /\ NextFree(Words(c, k).c) <= NextFree(c) + 1
         /\ Sends(At("open", BlocksOf(c), n), Words(c, k).evs, At("open", BlocksOf(Words(c, k).c), n - 1))
<1>0. k \in BlockKinds /\ c.idx \in Nat  BY DEF BlockKinds, ConvType
<1>1. NextFree(c) \in Nat  BY Places
<1>2. CASE c.last = k
  <2>1. Words(c, k).c = c /\ Words(c, k).evs = <<Ev("delta", c.idx, k)>>  BY <1>2 DEF Words, Result
  <2>2. BlocksOf(c) = Blocks(c.idx, c.idx + 1, k) /\ NextFree(c) = c.idx + 1
    BY <1>2 DEF BlocksOf, NextFree, FirstOpen, KindOf, WordKinds
  <2>3. c.idx \in c.idx .. c.idx + 1 - 1 /\ c.idx + 1 \in Nat /\ c.idx + 1 <= MaxBlocks  BY <1>0, <2>2
  <2>4. Sends(At("open", Blocks(c.idx, c.idx + 1, k), n), <<Ev("delta", c.idx, k)>>,
              At("open", Blocks(c.idx, c.idx + 1, k), n - 1))
    BY <1>0, <2>3, DeltaOf
  <2> QED BY <1>1, <1>2, <2>1, <2>2, <2>4
<1>3. CASE c.last # k
  <2> DEFINE m == NextFree(c)
             d == Advance(c)
             e == [d EXCEPT !.last = k]
  <2>1. d \in ConvType /\ d.last = "none" /\ d.idx = m /\ d.done = c.done  BY Advances
  <2>2. Words(c, k).c = e /\ Words(c, k).evs
          = StopOpenBlocks(c) \o <<Ev("block_start", d.idx, k), Ev("delta", d.idx, k)>>
    BY <1>3 DEF Words, Result
  <2> HIDE DEF d, m
  <2>3. e \in ConvType /\ e.last = k /\ e.idx = m /\ e.done = c.done  BY <2>1 DEF ConvType
  <2> HIDE DEF e
  <2>4. NextFree(e) = m + 1 /\ BlocksOf(e) = Blocks(m, m + 1, k)
    BY <2>3 DEF BlocksOf, NextFree, FirstOpen, KindOf, WordKinds
  <2>5. m \in Nat /\ m < MaxBlocks  BY <1>1 DEF m
  <2>6. Sends(At("open", BlocksOf(c), n), StopOpenBlocks(c), At("open", Shut(m), n))
    BY <1>1, StopsOpen DEF m
  <2>7. Sends(At("open", Shut(m), n), <<Ev("block_start", m, k)>>, At("open", Blocks(m, m + 1, k), n))
    <3>1. Blocks(m, m, k) = Shut(m)  BY <2>5, ShutAny
    <3>2. m \in 0 .. m  BY <2>5
    <3> QED BY <1>0, <2>5, <3>1, <3>2, StartNext
  <2>8. Sends(At("open", Blocks(m, m + 1, k), n), <<Ev("delta", m, k)>>, At("open", Blocks(m, m + 1, k), n - 1))
    <3>1. m \in m .. m + 1 - 1 /\ m + 1 \in Nat /\ m + 1 <= MaxBlocks  BY <2>5
    <3> QED BY <1>0, <2>5, <3>1, DeltaOf
  <2>9. <<Ev("block_start", m, k)>> \o <<Ev("delta", m, k)>> = <<Ev("block_start", m, k), Ev("delta", m, k)>>
    BY PairSeq
  <2>10. Sends(At("open", Shut(m), n), <<Ev("block_start", m, k), Ev("delta", m, k)>>,
               At("open", Blocks(m, m + 1, k), n - 1))
    BY <2>7, <2>8, <2>9, SendsThen
  <2>11. Sends(At("open", BlocksOf(c), n),
               StopOpenBlocks(c) \o <<Ev("block_start", m, k), Ev("delta", m, k)>>,
               At("open", Blocks(m, m + 1, k), n - 1))
    BY <2>6, <2>10, SendsThen
  <2> QED BY <2>1, <2>2, <2>3, <2>4, <2>5, <2>11 DEF m
<1> QED BY <1>2, <1>3

-----------------------------------------------------------------------------
(* ClaudeStream: tool calls                                                *)

\* The fields of a piece of a tool call.
LEMMA ToolFields ==
  ASSUME NEW off \in Nat, NEW name \in BOOLEAN
  PROVE  /\ Tool(off, name) \in ToolType /\ Tool(off, name).off = off
         /\ Tool(off, name).name = name /\ Tool(off, name).args = TRUE
BY DEF Tool, ToolType

\* A new tool call starts the next block and is delivered.
LEMMA NewToolSent ==
  ASSUME NEW m \in Nat, NEW b \in 0 .. m, m < MaxBlocks, NEW n \in Int, NEW x, x.name = TRUE, x.args = TRUE
  PROVE  Sends(At("open", Blocks(b, m, "tool"), n), ToolEvents(m, x), At("open", Blocks(b, m + 1, "tool"), n - 1))
<1>1. ToolEvents(m, x) = <<Ev("block_start", m, "tool")>> \o <<Ev("delta", m, "tool")>>
  BY DEF ToolEvents
<1>2. "tool" \in BlockKinds  BY DEF BlockKinds
<1>3. Sends(At("open", Blocks(b, m, "tool"), n), <<Ev("block_start", m, "tool")>>, At("open", Blocks(b, m + 1, "tool"), n))
  BY <1>2, StartNext
<1>4. m + 1 \in Nat /\ m \in b .. m + 1 - 1 /\ m + 1 <= MaxBlocks /\ b \in Nat  OBVIOUS
<1>5. Sends(At("open", Blocks(b, m + 1, "tool"), n), <<Ev("delta", m, "tool")>>, At("open", Blocks(b, m + 1, "tool"), n - 1))
  BY <1>2, <1>4, DeltaOf
<1> QED BY <1>1, <1>3, <1>5, SendsThen

\* A piece of an old tool call goes to its block, which is still open.
LEMMA OldToolSent ==
  ASSUME NEW m \in Nat, NEW b \in Nat, NEW i \in b .. m - 1, m <= MaxBlocks, NEW n \in Int,
         NEW x, x.name = FALSE, x.args = TRUE
  PROVE  Sends(At("open", Blocks(b, m, "tool"), n), ToolEvents(i, x), At("open", Blocks(b, m, "tool"), n - 1))
<1>1. "tool" \in BlockKinds  BY DEF BlockKinds
<1>2. Ev("delta", i, "tool") \in EventType  BY <1>1, EvType
<1>3. ToolEvents(i, x) = <<>> \o <<Ev("delta", i, "tool")>>  BY DEF ToolEvents
<1>4. ToolEvents(i, x) = <<Ev("delta", i, "tool")>>  BY <1>2, <1>3
<1>5. Sends(At("open", Blocks(b, m, "tool"), n), <<Ev("delta", i, "tool")>>, At("open", Blocks(b, m, "tool"), n - 1))
  BY <1>1, DeltaOf
<1> QED BY <1>4, <1>5

\* What Tools begins with: the converter with its base set, and the stops of what was open.
Based(c) == IF c.last = "tools" THEN c ELSE [Advance(c) EXCEPT !.base = Advance(c).idx, !.max = 0]
StopsFirst(c) == IF c.last = "tools" THEN <<>> ELSE StopOpenBlocks(c)
Grown(b, m) == [b EXCEPT !.last = "tools", !.max = m, !.idx = b.base + m]
ToolSeq(b, x) == [j \in DOMAIN x |-> ToolEvents(b.base + x[j].off, x[j])]

\* The tool calls begun so far are the open blocks, from the base to the next free place.
LEMMA ToolsBased ==
  ASSUME NEW c \in ConvType, NEW m \in Nat, HasTools(c, m), NextFree(c) <= MaxBlocks, NEW n \in Int
  PROVE  /\ Based(c) \in ConvType /\ Based(c).base + m = NextFree(c)
         /\ Based(c).done = c.done
         /\ Based(c).max = IF m = 0 THEN 0 ELSE m - 1
         /\ Sends(At("open", BlocksOf(c), n), StopsFirst(c),
                  At("open", Blocks(Based(c).base, NextFree(c), "tool"), n))
<1>0. c.last \in {"text", "thinking", "none", "tools"} /\ c.idx \in Nat /\ c.base \in Nat /\ c.max \in Nat
  BY DEF ConvType, WordKinds
<1>1. NextFree(c) \in Nat /\ BlocksOf(c) \in [Index -> BlockKinds \cup {"unused", "closed"}]  BY Places
<1>2. CASE m = 0
  <2>1. c.last # "tools"  BY <1>2 DEF HasTools
  <2> DEFINE d == Advance(c)
             v == d.idx
             e == [d EXCEPT !.base = v, !.max = 0]
  <2>2. d \in ConvType /\ v = NextFree(c) /\ d.done = c.done  BY Advances
  <2>3. Based(c) = e /\ StopsFirst(c) = StopOpenBlocks(c)  BY <2>1 DEF Based, StopsFirst
  <2> HIDE DEF d, v
  <2>4. e \in ConvType /\ e.base = v /\ e.max = 0 /\ e.done = c.done  BY <1>1, <2>2 DEF ConvType
  <2> HIDE DEF e
  <2>5. Sends(At("open", BlocksOf(c), n), StopOpenBlocks(c), At("open", Shut(NextFree(c)), n))  BY StopsOpen
  <2> QED BY <1>1, <1>2, <2>2, <2>3, <2>4, <2>5 DEF Shut
<1>3. CASE m # 0
  <2>1. c.last = "tools" /\ c.max + 1 = m  BY <1>3 DEF HasTools
  <2>2. Based(c) = c /\ StopsFirst(c) = <<>>  BY <2>1 DEF Based, StopsFirst
  <2>3. NextFree(c) = c.base + c.max + 1 /\ BlocksOf(c) = Blocks(c.base, NextFree(c), "tool")
    BY <2>1 DEF NextFree, BlocksOf, FirstOpen, KindOf, WordKinds
  <2>4. At("open", BlocksOf(c), n) \in ClientType  BY <1>1, AtType
  <2>5. Sends(At("open", BlocksOf(c), n), <<>>, At("open", BlocksOf(c), n))  BY <2>4, SendsNone
  <2>6. c.base + m = NextFree(c) /\ c.max = m - 1  BY <1>0, <2>1, <2>3
  <2> QED BY <1>3, <2>2, <2>3, <2>5, <2>6
<1> QED BY <1>2, <1>3

\* A converter that has seen tool call m has m + 1 open blocks.
LEMMA ToolsGrown ==
  ASSUME NEW b \in ConvType, NEW m \in Nat
  PROVE  /\ Grown(b, m) \in ConvType /\ Grown(b, m).last = "tools" /\ Grown(b, m).max = m
         /\ Grown(b, m).done = b.done /\ HasTools(Grown(b, m), m + 1)
         /\ NextFree(Grown(b, m)) = b.base + m + 1
         /\ BlocksOf(Grown(b, m)) = Blocks(b.base, b.base + m + 1, "tool")
<1> DEFINE v == b.base + m
           g == [b EXCEPT !.last = "tools", !.max = m, !.idx = v]
<1>1. v \in Nat /\ b.base \in Nat  BY DEF ConvType
<1>2. Grown(b, m) = g  BY DEF Grown
<1> HIDE DEF v
<1>3. g \in ConvType  BY <1>1 DEF ConvType
<1>4. g.last = "tools" /\ g.max = m /\ g.base = b.base /\ g.done = b.done  BY DEF ConvType
<1> HIDE DEF g
<1>5. NextFree(g) = b.base + m + 1 /\ BlocksOf(g) = Blocks(b.base, b.base + m + 1, "tool")
  BY <1>4 DEF NextFree, BlocksOf, FirstOpen, KindOf, WordKinds
<1>6. HasTools(g, m + 1)  BY <1>4 DEF HasTools
<1> QED BY <1>2, <1>3, <1>4, <1>5, <1>6

\* Tools in terms of these.
LEMMA ToolsIs ==
  ASSUME NEW c, NEW x, NEW m,
         Max({Based(c).max} \cup {x[j].off : j \in DOMAIN x}) = m
  PROVE  /\ Tools(c, x).c = Grown(Based(c), m)
         /\ Tools(c, x).evs = StopsFirst(c) \o FlattenSeq(ToolSeq(Based(c), x))
BY DEF Tools, Based, StopsFirst, Grown, ToolSeq, Result

\* The events of a piece of a tool call.
LEMMA ToolEventsType ==
  ASSUME NEW i \in Nat, NEW x \in ToolType
  PROVE  ToolEvents(i, x) \in Seq(EventType)
<1> DEFINE f == IF x.name THEN <<Ev("block_start", i, "tool")>> ELSE <<>>
           g == IF x.args THEN <<Ev("delta", i, "tool")>> ELSE <<>>
<1>1. "tool" \in BlockKinds  BY DEF BlockKinds
<1>2. f \in Seq(EventType) /\ g \in Seq(EventType)  BY <1>1, EvType
<1>3. ToolEvents(i, x) = f \o g  BY DEF ToolEvents
<1> HIDE DEF f, g
<1> QED BY <1>2, <1>3

\* The events of a chunk with one tool call.
LEMMA ToolSeqOne ==
  ASSUME NEW b \in ConvType, NEW t \in ToolType
  PROVE  /\ FlattenSeq(ToolSeq(b, <<t>>)) = ToolEvents(b.base + t.off, t)
         /\ \A v : {v} \cup {<<t>>[j].off : j \in DOMAIN <<t>>} = {v, t.off}
<1> DEFINE x == <<t>>
           f == ToolSeq(b, x)
<1>1. DOMAIN x = 1 .. 1 /\ x[1] = t  OBVIOUS
<1>2. b.base + t.off \in Nat  BY DEF ConvType, ToolType
<1>3. ToolEvents(b.base + t.off, t) \in Seq(EventType)  BY <1>2, ToolEventsType
<1> HIDE DEF x
<1>4. f = [j \in 1 .. 1 |-> ToolEvents(b.base + x[j].off, x[j])]  BY <1>1 DEF ToolSeq
<1>5. \A j \in 1 .. 1 : x[j] = t  BY <1>1
<1> HIDE DEF f
<1>6. \A j \in 1 .. 1 : f[j] = ToolEvents(b.base + t.off, t)  BY <1>4, <1>5
<1>7. f \in Seq(Seq(EventType)) /\ Len(f) = 1 /\ f[1] = ToolEvents(b.base + t.off, t)
  BY <1>3, <1>4, <1>6
<1>8. FlattenSeq(f) = f[1]  BY <1>7, FlattenOne
<1>9. \A v : {v} \cup {x[j].off : j \in DOMAIN x} = {v, t.off}  BY <1>1, <1>5
<1> QED BY <1>7, <1>8, <1>9 DEF f, x

\* The events of a chunk with two tool calls.
LEMMA ToolSeqTwo ==
  ASSUME NEW b \in ConvType, NEW t \in ToolType, NEW u \in ToolType
  PROVE  /\ FlattenSeq(ToolSeq(b, <<t, u>>)) = ToolEvents(b.base + t.off, t) \o ToolEvents(b.base + u.off, u)
         /\ \A v : {v} \cup {<<t, u>>[j].off : j \in DOMAIN <<t, u>>} = {v, t.off, u.off}
<1> DEFINE x == <<t, u>>
           f == ToolSeq(b, x)
<1>1. DOMAIN x = 1 .. 2 /\ x[1] = t /\ x[2] = u  OBVIOUS
<1>2. b.base + t.off \in Nat /\ b.base + u.off \in Nat  BY DEF ConvType, ToolType
<1>3. ToolEvents(b.base + t.off, t) \in Seq(EventType) /\ ToolEvents(b.base + u.off, u) \in Seq(EventType)
  BY <1>2, ToolEventsType
<1> HIDE DEF x
<1>4. f = [j \in 1 .. 2 |-> ToolEvents(b.base + x[j].off, x[j])]  BY <1>1 DEF ToolSeq
<1> HIDE DEF f
<1>5. 1 \in 1 .. 2 /\ 2 \in 1 .. 2 /\ \A j \in 1 .. 2 : j = 1 \/ j = 2  OBVIOUS
<1>6. f[1] = ToolEvents(b.base + t.off, t) /\ f[2] = ToolEvents(b.base + u.off, u)  BY <1>1, <1>4, <1>5
<1>7. f \in Seq(Seq(EventType)) /\ Len(f) = 2
  <2> DEFINE y == f[1]
             z == f[2]
  <2>1. f = [j \in 1 .. 2 |-> IF j = 1 THEN y ELSE z]  BY <1>4, <1>5
  <2>2. y \in Seq(EventType) /\ z \in Seq(EventType)  BY <1>3, <1>6
  <2> HIDE DEF y, z
  <2> QED BY <2>1, <2>2
<1>8. FlattenSeq(f) = f[1] \o f[2]  BY <1>7, FlattenTwo
<1>9. \A v : {v} \cup {x[j].off : j \in DOMAIN x} = {v, t.off, u.off}  BY <1>1, <1>5
<1> QED BY <1>6, <1>8, <1>9 DEF f, x

\* A chunk with the next tool call.
LEMMA OneToolDelivered ==
  ASSUME NEW c \in ConvType, NEW m \in Nat, HasTools(c, m), NextFree(c) < MaxBlocks, NEW n \in Int,
         NEW y, NextTool(y, m), NEW r, r = Tools(c, y)
  PROVE  /\ r.c \in ConvType /\ r.c.done = c.done /\ HasTools(r.c, m + 1)
         /\ NextFree(r.c) = NextFree(c) + 1
         /\ Sends(At("open", BlocksOf(c), n), r.evs, At("open", BlocksOf(r.c), n - 1))
<1> DEFINE t == Tool(m, TRUE)
           x == <<t>>
           b == Based(c)
           w == NextFree(c)
           g == Grown(b, m)
<1>1. t \in ToolType /\ t.off = m /\ t.name = TRUE /\ t.args = TRUE  BY ToolFields
<1>2. w \in Nat /\ w <= MaxBlocks /\ w < MaxBlocks  BY Places
<1>3. /\ b \in ConvType /\ b.base + m = w /\ b.done = c.done /\ b.max = IF m = 0 THEN 0 ELSE m - 1
      /\ Sends(At("open", BlocksOf(c), n), StopsFirst(c), At("open", Blocks(b.base, w, "tool"), n))
  BY <1>2, ToolsBased
<1>4. b.base \in Nat  BY <1>3 DEF ConvType
<1> HIDE DEF t, b, w
<1>5. /\ FlattenSeq(ToolSeq(b, x)) = ToolEvents(b.base + t.off, t)
      /\ {b.max} \cup {x[j].off : j \in DOMAIN x} = {b.max, m}
  BY <1>1, <1>3, ToolSeqOne
<1>6. Max({b.max, m}) = m
  <2>1. m \in {b.max, m} /\ {b.max, m} \subseteq Int /\ \A j \in {b.max, m} : j <= m  BY <1>3
  <2> QED BY <2>1, MaxIs
<1> HIDE DEF x
<1>7. r.c = g /\ r.evs = StopsFirst(c) \o ToolEvents(w, t)
  <2>1. Max({Based(c).max} \cup {x[j].off : j \in DOMAIN x}) = m  BY <1>5, <1>6 DEF b
  <2>2. /\ Tools(c, x).c = Grown(Based(c), m)
        /\ Tools(c, x).evs = StopsFirst(c) \o FlattenSeq(ToolSeq(Based(c), x))
    BY <2>1, ToolsIs
  <2>3. r = Tools(c, x)  BY DEF NextTool, x, t
  <2> QED BY <1>1, <1>3, <1>5, <2>2, <2>3 DEF b
<1>8. /\ g \in ConvType /\ g.done = b.done /\ HasTools(g, m + 1)
      /\ NextFree(g) = b.base + m + 1 /\ BlocksOf(g) = Blocks(b.base, b.base + m + 1, "tool")
  BY <1>3, ToolsGrown
<1> HIDE DEF g
<1>9. Sends(At("open", Blocks(b.base, w, "tool"), n), ToolEvents(w, t), At("open", Blocks(b.base, w + 1, "tool"), n - 1))
  <2>1. b.base \in 0 .. w  BY <1>3, <1>4
  <2> QED BY <1>1, <1>2, <2>1, NewToolSent
<1>10. Sends(At("open", BlocksOf(c), n), r.evs, At("open", Blocks(b.base, w + 1, "tool"), n - 1))
  BY <1>3, <1>7, <1>9, SendsThen
<1>11. b.base + m + 1 = w + 1  BY <1>3
<1> QED BY <1>3, <1>7, <1>8, <1>10, <1>11 DEF w

\* A chunk with the next two tool calls.
LEMMA TwoToolsDelivered ==
  ASSUME NEW c \in ConvType, NEW m \in Nat, HasTools(c, m), NextFree(c) + 2 <= MaxBlocks, NEW n \in Int,
         NEW y, NextTools(y, m), NEW r, r = Tools(c, y)
  PROVE  /\ r.c \in ConvType /\ r.c.done = c.done /\ HasTools(r.c, m + 2)
         /\ NextFree(r.c) = NextFree(c) + 2
         /\ Sends(At("open", BlocksOf(c), n), r.evs, At("open", BlocksOf(r.c), n - 2))
<1> DEFINE t == Tool(m, TRUE)
           u == Tool(m + 1, TRUE)
           x == <<t, u>>
           b == Based(c)
           w == NextFree(c)
           g == Grown(b, m + 1)
<1>1. t \in ToolType /\ t.off = m /\ t.name = TRUE /\ t.args = TRUE  BY ToolFields
<1>1a. u \in ToolType /\ u.off = m + 1 /\ u.name = TRUE /\ u.args = TRUE
  <2>1. m + 1 \in Nat /\ TRUE \in BOOLEAN  OBVIOUS
  <2> QED BY <2>1, ToolFields
<1>2. w \in Nat /\ w <= MaxBlocks /\ w + 1 < MaxBlocks /\ w < MaxBlocks /\ w + 1 \in Nat  BY Places
<1>3. /\ b \in ConvType /\ b.base + m = w /\ b.done = c.done /\ b.max = IF m = 0 THEN 0 ELSE m - 1
      /\ Sends(At("open", BlocksOf(c), n), StopsFirst(c), At("open", Blocks(b.base, w, "tool"), n))
  BY <1>2, ToolsBased
<1>4. b.base \in Nat  BY <1>3 DEF ConvType
<1> HIDE DEF t, u, b, w
<1>5. /\ FlattenSeq(ToolSeq(b, x)) = ToolEvents(b.base + t.off, t) \o ToolEvents(b.base + u.off, u)
      /\ {b.max} \cup {x[j].off : j \in DOMAIN x} = {b.max, m, m + 1}
  <2>1. /\ FlattenSeq(ToolSeq(b, x)) = ToolEvents(b.base + t.off, t) \o ToolEvents(b.base + u.off, u)
        /\ {b.max} \cup {x[j].off : j \in DOMAIN x} = {b.max, t.off, u.off}
    <3> HIDE DEF x
    <3>1. /\ FlattenSeq(ToolSeq(b, <<t, u>>)) = ToolEvents(b.base + t.off, t) \o ToolEvents(b.base + u.off, u)
          /\ \A v : {v} \cup {<<t, u>>[j].off : j \in DOMAIN <<t, u>>} = {v, t.off, u.off}
      BY <1>1, <1>1a, <1>3, ToolSeqTwo
    <3>2. x = <<t, u>>  BY DEF x
    <3>3. \A v : {v} \cup {x[j].off : j \in DOMAIN x} = {v, t.off, u.off}  BY <3>1, <3>2
    <3>4. {b.max} \cup {x[j].off : j \in DOMAIN x} = {b.max, t.off, u.off}  BY <3>3, Zenon
    <3> QED BY <3>1, <3>2, <3>4
  <2> QED BY <1>1, <1>1a, <2>1
<1>6. Max({b.max, m, m + 1}) = m + 1
  <2>1. m + 1 \in {b.max, m, m + 1} /\ {b.max, m, m + 1} \subseteq Int /\ \A j \in {b.max, m, m + 1} : j <= m + 1
    BY <1>3
  <2> QED BY <2>1, MaxIs
<1> HIDE DEF x
<1>6a. b.base + (m + 1) = w + 1  BY <1>3, <1>4
<1>7. r.c = g /\ r.evs = StopsFirst(c) \o (ToolEvents(w, t) \o ToolEvents(w + 1, u))
  <2>1. Max({Based(c).max} \cup {x[j].off : j \in DOMAIN x}) = m + 1  BY <1>5, <1>6 DEF b
  <2>2. /\ Tools(c, x).c = Grown(Based(c), m + 1)
        /\ Tools(c, x).evs = StopsFirst(c) \o FlattenSeq(ToolSeq(Based(c), x))
    BY <2>1, ToolsIs
  <2>3. r = Tools(c, x)  BY DEF NextTools, x, t, u
  <2>4. FlattenSeq(ToolSeq(b, x)) = ToolEvents(w, t) \o ToolEvents(w + 1, u)  BY <1>1, <1>1a, <1>3, <1>5, <1>6a
  <2> QED BY <2>2, <2>3, <2>4 DEF b
<1>8. /\ g \in ConvType /\ g.done = b.done /\ HasTools(g, m + 1 + 1)
      /\ NextFree(g) = b.base + (m + 1) + 1 /\ BlocksOf(g) = Blocks(b.base, b.base + (m + 1) + 1, "tool")
  <2>1. m + 1 \in Nat  OBVIOUS
  <2> QED BY <1>3, <2>1, ToolsGrown
<1> HIDE DEF g
<1>9. Sends(At("open", Blocks(b.base, w, "tool"), n), ToolEvents(w, t), At("open", Blocks(b.base, w + 1, "tool"), n - 1))
  <2>1. b.base \in 0 .. w  BY <1>3, <1>4
  <2> QED BY <1>1, <1>2, <2>1, NewToolSent
<1>10. Sends(At("open", Blocks(b.base, w + 1, "tool"), n - 1), ToolEvents(w + 1, u),
             At("open", Blocks(b.base, w + 1 + 1, "tool"), n - 1 - 1))
  <2>1. b.base \in 0 .. w + 1 /\ n - 1 \in Int  BY <1>3, <1>4
  <2> QED BY <1>1a, <1>2, <2>1, NewToolSent
<1>11. Sends(At("open", Blocks(b.base, w, "tool"), n), ToolEvents(w, t) \o ToolEvents(w + 1, u),
             At("open", Blocks(b.base, w + 1 + 1, "tool"), n - 1 - 1))
  BY <1>9, <1>10, SendsThen
<1>12. Sends(At("open", BlocksOf(c), n), r.evs, At("open", Blocks(b.base, w + 1 + 1, "tool"), n - 1 - 1))
  BY <1>3, <1>7, <1>11, SendsThen
<1>13. b.base + (m + 1) + 1 = w + 1 + 1 /\ n - 1 - 1 = n - 2 /\ m + 1 + 1 = m + 2 /\ w + 1 + 1 = w + 2
  BY <1>2, <1>6a
<1> QED BY <1>3, <1>7, <1>8, <1>12, <1>13 DEF w

\* A chunk with more arguments of a tool call.
LEMMA ArgumentsDelivered ==
  ASSUME NEW c \in ConvType, NEW m \in Nat, HasTools(c, m), NextFree(c) <= MaxBlocks, NEW n \in Int,
         NEW off \in 0 .. m - 1, NEW y, MoreArgs(y, off), NEW r, r = Tools(c, y)
  PROVE  /\ r.c \in ConvType /\ r.c.done = c.done /\ HasTools(r.c, m)
         /\ NextFree(r.c) = NextFree(c)
         /\ Sends(At("open", BlocksOf(c), n), r.evs, At("open", BlocksOf(r.c), n - 1))
<1> DEFINE t == Tool(off, FALSE)
           x == <<t>>
           b == Based(c)
           w == NextFree(c)
           p == m - 1
           g == Grown(b, p)
<1>1. t \in ToolType /\ t.off = off /\ t.name = FALSE /\ t.args = TRUE
  <2>1. off \in Nat /\ FALSE \in BOOLEAN  OBVIOUS
  <2> QED BY <2>1, ToolFields
<1>2. w \in Nat /\ p \in Nat  BY Places
<1>3. /\ b \in ConvType /\ b.base + m = w /\ b.done = c.done /\ b.max = p
      /\ Sends(At("open", BlocksOf(c), n), StopsFirst(c), At("open", Blocks(b.base, w, "tool"), n))
  <2>1. /\ b \in ConvType /\ b.base + m = w /\ b.done = c.done /\ b.max = IF m = 0 THEN 0 ELSE m - 1
        /\ Sends(At("open", BlocksOf(c), n), StopsFirst(c), At("open", Blocks(b.base, w, "tool"), n))
    BY ToolsBased
  <2> QED BY <2>1
<1>4. b.base \in Nat  BY <1>3 DEF ConvType
<1> HIDE DEF t, b, w
<1>5. /\ FlattenSeq(ToolSeq(b, x)) = ToolEvents(b.base + t.off, t)
      /\ {b.max} \cup {x[j].off : j \in DOMAIN x} = {b.max, off}
  BY <1>1, <1>3, ToolSeqOne
<1>6. Max({b.max, off}) = p
  <2>1. p \in {b.max, off} /\ {b.max, off} \subseteq Int /\ \A j \in {b.max, off} : j <= p  BY <1>3
  <2> QED BY <2>1, MaxIs
<1> HIDE DEF x
<1>7. r.c = g /\ r.evs = StopsFirst(c) \o ToolEvents(b.base + off, t)
  <2>1. Max({Based(c).max} \cup {x[j].off : j \in DOMAIN x}) = p  BY <1>5, <1>6 DEF b
  <2>2. /\ Tools(c, x).c = Grown(Based(c), p)
        /\ Tools(c, x).evs = StopsFirst(c) \o FlattenSeq(ToolSeq(Based(c), x))
    BY <2>1, ToolsIs
  <2>3. r = Tools(c, x)  BY DEF MoreArgs, x, t
  <2> QED BY <1>1, <1>5, <2>2, <2>3 DEF b
<1>8. /\ g \in ConvType /\ g.done = b.done /\ HasTools(g, p + 1)
      /\ NextFree(g) = b.base + p + 1 /\ BlocksOf(g) = Blocks(b.base, b.base + p + 1, "tool")
  BY <1>2, <1>3, ToolsGrown
<1> HIDE DEF g
<1>9. Sends(At("open", Blocks(b.base, w, "tool"), n), ToolEvents(b.base + off, t), At("open", Blocks(b.base, w, "tool"), n - 1))
  <2>1. b.base + off \in b.base .. w - 1 /\ w <= MaxBlocks  BY <1>3, <1>4 DEF w
  <2> QED BY <1>1, <1>2, <1>4, <2>1, OldToolSent
<1>10. Sends(At("open", BlocksOf(c), n), r.evs, At("open", Blocks(b.base, w, "tool"), n - 1))
  BY <1>3, <1>7, <1>9, SendsThen
<1>11. b.base + p + 1 = w /\ p + 1 = m  BY <1>3, <1>4
<1> QED BY <1>3, <1>7, <1>8, <1>10, <1>11 DEF w

-----------------------------------------------------------------------------
(* ClaudeStream: chunks                                                    *)

\* Chunks without tool calls carry at most a piece of text or reasoning.
LEMMA PlainPieces ==
  ASSUME NEW x, x.tools = <<>>
  PROVE  Pieces(x) = IF x.think \/ x.text THEN 1 ELSE 0
<1>1. {j \in DOMAIN x.tools : x.tools[j].args} = {}  OBVIOUS
<1>2. Cardinality({}) = 0  BY FS_EmptySet
<1> QED BY <1>1, <1>2 DEF Pieces

\* A chunk with one piece of a tool call.
LEMMA OneToolPieces ==
  ASSUME NEW x, ~x.think, ~x.text, NEW t, x.tools = <<t>>, t.args = TRUE
  PROVE  Pieces(x) = 1
<1> DEFINE f == x.tools
<1>1. DOMAIN f = 1 .. 1 /\ f[1] = t  OBVIOUS
<1> HIDE DEF f
<1>2. {j \in DOMAIN f : f[j].args} = {1}  BY <1>1
<1>3. Cardinality({1}) = 1  BY FS_Singleton
<1> QED BY <1>2, <1>3 DEF Pieces, f

\* A chunk with two tool calls.
LEMMA TwoToolPieces ==
  ASSUME NEW x, ~x.think, ~x.text, NEW t, NEW u, x.tools = <<t, u>>, t.args = TRUE, u.args = TRUE
  PROVE  Pieces(x) = 2
<1> DEFINE f == x.tools
<1>1. DOMAIN f = 1 .. 2 /\ f[1] = t /\ f[2] = u  OBVIOUS
<1> HIDE DEF f
<1>2. {j \in DOMAIN f : f[j].args} = {1, 2}  BY <1>1
<1>3. IsFiniteSet({1}) /\ Cardinality({1}) = 1  BY FS_Singleton
<1>4. {1, 2} = {1} \cup {2} /\ 2 \notin {1}  OBVIOUS
<1>5. Cardinality({1} \cup {2}) = Cardinality({1}) + 1  BY <1>3, <1>4, FS_AddElement
<1>6. Cardinality({1, 2}) = 2  BY <1>3, <1>4, <1>5
<1> DEFINE T == {j \in DOMAIN f : f[j].args}
<1>7. Pieces(x) = 0 + Cardinality(T)  BY DEF Pieces, f
<1>8. Cardinality(T) = 2
  <2>1. T = {1, 2}  BY <1>2
  <2> HIDE DEF T
  <2> QED BY <1>6, <2>1, Zenon
<1> HIDE DEF T
<1> QED BY <1>7, <1>8

\* The part of a conversion that delivers text or reasoning.
WordPart(x, c) ==
  CASE x.think -> Words(c, "thinking")
    [] ~x.think /\ x.text -> Words(c, "text")
    [] OTHER -> Result(c, <<>>)

\* What a chunk without tool calls carries is delivered.
LEMMA WordPartDelivered ==
  ASSUME NEW x \in ChunkType, x.tools = <<>>, NEW c \in ConvType,
         NextFree(c) < MaxBlocks, NEW n \in Int, NEW r, r = WordPart(x, c)
  PROVE  /\ r.c \in ConvType /\ r.c.done = c.done
         /\ HasTools(c, 0) => HasTools(r.c, 0)
         /\ NextFree(r.c) <= NextFree(c) + 1
         /\ Sends(At("open", BlocksOf(c), n), r.evs, At("open", BlocksOf(r.c), n - Pieces(x)))
<1>0. x.think \in BOOLEAN /\ x.text \in BOOLEAN  BY DEF ChunkType
<1>1. Pieces(x) = IF x.think \/ x.text THEN 1 ELSE 0  BY PlainPieces
<1>2. ASSUME NEW k \in WordKinds, r = Words(c, k), x.think \/ x.text
      PROVE  /\ r.c \in ConvType /\ r.c.done = c.done
             /\ HasTools(c, 0) => HasTools(r.c, 0)
             /\ NextFree(r.c) <= NextFree(c) + 1
             /\ Sends(At("open", BlocksOf(c), n), r.evs, At("open", BlocksOf(r.c), n - Pieces(x)))
  <2>1. /\ r.c \in ConvType /\ r.c.last = k /\ r.c.done = c.done /\ NextFree(r.c) <= NextFree(c) + 1
        /\ Sends(At("open", BlocksOf(c), n), r.evs, At("open", BlocksOf(r.c), n - 1))
    <3>1. /\ Words(c, k).c \in ConvType /\ Words(c, k).c.last = k /\ Words(c, k).c.done = c.done
          /\ NextFree(Words(c, k).c) <= NextFree(c) + 1
          /\ Sends(At("open", BlocksOf(c), n), Words(c, k).evs, At("open", BlocksOf(Words(c, k).c), n - 1))
      BY WordsDelivered
    <3> QED BY <1>2, <3>1
  <2>2. HasTools(r.c, 0)  BY <2>1 DEF HasTools, WordKinds
  <2>3. Pieces(x) = 1  BY <1>1, <1>2
  <2> QED BY <2>1, <2>2, <2>3
<1>3. CASE x.think
  <2>1. r = Words(c, "thinking") /\ "thinking" \in WordKinds  BY <1>3 DEF WordPart, WordKinds
  <2> QED BY <1>2, <1>3, <2>1
<1>4. CASE ~x.think /\ x.text
  <2>1. r = Words(c, "text") /\ "text" \in WordKinds  BY <1>4 DEF WordPart, WordKinds
  <2> QED BY <1>2, <1>4, <2>1
<1>5. CASE ~x.think /\ ~x.text
  <2>1. r = Result(c, <<>>)  BY <1>5 DEF WordPart
  <2>2. r.c = c /\ r.evs = <<>>  BY <2>1 DEF Result
  <2>3. NextFree(c) \in Nat /\ BlocksOf(c) \in [Index -> BlockKinds \cup {"unused", "closed"}]  BY Places
  <2>4. At("open", BlocksOf(c), n) \in ClientType  BY <2>3, AtType
  <2>5. Sends(At("open", BlocksOf(c), n), <<>>, At("open", BlocksOf(c), n))  BY <2>4, SendsNone
  <2>6. n - Pieces(x) = n  BY <1>1, <1>5
  <2> QED BY <2>2, <2>3, <2>5, <2>6
<1> QED BY <1>0, <1>3, <1>4, <1>5

\* The end of the message comes with every block closed.
LEMMA Closes ==
  ASSUME NEW r, r.c \in ConvType, NextFree(r.c) <= MaxBlocks, NEW n \in Int,
         NEW s, Sends(s, r.evs, At("open", BlocksOf(r.c), n)), NEW q, q = Close(r, TRUE)
  PROVE  /\ q.c \in ConvType /\ q.c.done /\ NextFree(q.c) = NextFree(r.c)
         /\ Sends(s, q.evs, At("stopped", Shut(NextFree(r.c)), n))
<1> DEFINE m == NextFree(r.c)
           d == r.c
           e == [d EXCEPT !.done = TRUE]
           md == <<Ev("message_delta", 0, "none")>>
           ms == <<Ev("message_stop", 0, "none")>>
<1>1. q.c = e /\ q.evs = ((r.evs \o StopOpenBlocks(r.c)) \o md) \o ms  BY DEF Close, Result
<1>2. m \in Nat  BY Places
<1>3. Sends(s, r.evs \o StopOpenBlocks(r.c), At("open", Shut(m), n))
  BY StopsOpen, SendsThen
<1>4. Sends(At("open", Shut(m), n), md, At("delta", Shut(m), n))  BY <1>2, MessageDeltaSent
<1>5. Sends(At("delta", Shut(m), n), ms, At("stopped", Shut(m), n))  BY <1>2, MessageStopSent
<1> HIDE DEF m, md, ms
<1>6. Sends(s, (r.evs \o StopOpenBlocks(r.c)) \o md, At("delta", Shut(m), n))  BY <1>3, <1>4, SendsThen
<1>7. Sends(s, ((r.evs \o StopOpenBlocks(r.c)) \o md) \o ms, At("stopped", Shut(m), n))  BY <1>5, <1>6, SendsThen
<1>8. e \in ConvType /\ e.done = TRUE /\ e.last = d.last /\ e.idx = d.idx /\ e.base = d.base /\ e.max = d.max
  <2> HIDE DEF d
  <2>1. d \in ConvType  BY DEF d
  <2> QED BY <2>1 DEF ConvType
<1>9. NextFree(e) = NextFree(d)  BY <1>8 DEF NextFree
<1> QED BY <1>1, <1>7, <1>8, <1>9 DEF m

\* The client has seen the start of the message once a chunk was converted.
PhaseAt(k) == IF k = 0 THEN "before" ELSE "open"

\* A converter that has seen no tool call and no words has no block.
LEMMA NothingBegun ==
  ASSUME NEW c \in ConvType, HasTools(c, 0), NextFree(c) <= 0
  PROVE  c.last = "none" /\ c.idx = 0 /\ NextFree(c) = 0 /\ BlocksOf(c) = Blocks(0, 0, "tool")
<1>1. c.last \in {"text", "thinking", "none", "tools"} /\ c.idx \in Nat  BY DEF ConvType, WordKinds
<1>2. c.last # "tools"  BY DEF HasTools
<1>3. c.last = "none" /\ c.idx = 0  BY <1>1, <1>2 DEF NextFree
<1> QED BY <1>3 DEF BlocksOf, NextFree, FirstOpen, KindOf, WordKinds

\* A chunk with text, reasoning or neither, the first or a later one.
LEMMA PlainConverted ==
  ASSUME NEW x \in ChunkType, PlainChunk(x), NEW c \in ConvType, ~c.done, NextFree(c) < MaxBlocks,
         NEW k \in Nat, k = 0 => HasTools(c, 0) /\ NextFree(c) <= 0,
         NEW n \in Int, NEW r, r = Convert(x, c, k + 1)
  PROVE  /\ r.c \in ConvType /\ r.c.done = c.done /\ NextFree(r.c) <= NextFree(c) + 1
         /\ HasTools(c, 0) => HasTools(r.c, 0)
         /\ Sends(At(PhaseAt(k), BlocksOf(c), n), r.evs, At("open", BlocksOf(r.c), n - Pieces(x)))
<1> DEFINE w == WordPart(x, c)
<1>0. x.tools = <<>> /\ ~x.finish /\ x.choices  BY DEF PlainChunk
<1>a. x.think \in BOOLEAN /\ x.text \in BOOLEAN  BY DEF ChunkType
<1>1. NextFree(c) \in Nat /\ BlocksOf(c) \in [Index -> BlockKinds \cup {"unused", "closed"}]  BY Places
<1>2. /\ w.c \in ConvType /\ w.c.done = c.done /\ NextFree(w.c) <= NextFree(c) + 1
      /\ HasTools(c, 0) => HasTools(w.c, 0)
      /\ Sends(At("open", BlocksOf(c), n), w.evs, At("open", BlocksOf(w.c), n - Pieces(x)))
  <2> HIDE DEF w
  <2>2. w = WordPart(x, c)  BY DEF w
  <2> QED BY <1>0, <2>2, WordPartDelivered
<1>4. CASE k # 0
  <2>1. r = LaterChunk(x, c)  BY <1>4 DEF Convert
  <2>2. r = w  BY <1>0, <1>a, <2>1 DEF LaterChunk, WordPart
  <2>3. PhaseAt(k) = "open"  BY <1>4 DEF PhaseAt
  <2> QED BY <1>2, <2>2, <2>3
<1>5. CASE k = 0
  <2> DEFINE ms == <<Ev("message_start", 0, "none")>>
  <2>0. c.last = "none"  BY <1>5, NothingBegun
  <2>1. r = FirstChunk(x, c)  BY <1>5 DEF Convert
  <2>2. r.c = w.c /\ r.evs = (ms \o <<>>) \o w.evs
    <3>1. Result(c, <<>>).c = c /\ Result(c, <<>>).evs = <<>>  BY DEF Result
    <3>a. FirstWords(c, "thinking") = Words(c, "thinking") /\ FirstWords(c, "text") = Words(c, "text")
      BY <2>0 DEF FirstWords
    <3>2. r = Result(w.c, (ms \o <<>>) \o w.evs)
      BY <1>0, <1>a, <2>1, <3>1, <3>a DEF FirstChunk, WordPart
    <3> QED BY <3>2 DEF Result
  <2>3. PhaseAt(k) = "before"  BY <1>5 DEF PhaseAt
  <2>4. Sends(At("before", BlocksOf(c), n), ms, At("open", BlocksOf(c), n))  BY <1>1, MessageBegins
  <2>5. At("open", BlocksOf(c), n) \in ClientType  BY <1>1, AtType
  <2> HIDE DEF w, ms
  <2>6. Sends(At("before", BlocksOf(c), n), ms \o <<>>, At("open", BlocksOf(c), n))
    BY <2>4, <2>5, SendsNone, SendsThen
  <2>7. Sends(At("before", BlocksOf(c), n), (ms \o <<>>) \o w.evs, At("open", BlocksOf(w.c), n - Pieces(x)))
    BY <1>2, <2>6, SendsThen
  <2> QED BY <1>2, <2>2, <2>3, <2>7
<1> QED BY <1>4, <1>5

\* A chunk with a tool call that is the first one.
LEMMA FirstToolConverted ==
  ASSUME NEW x, x.choices, ~x.finish, ~x.think, ~x.text, x.tools = <<Tool(0, TRUE)>>,
         NEW c \in ConvType, ~c.done, HasTools(c, 0), NextFree(c) <= 0, 0 < MaxBlocks, NEW n \in Int,
         NEW r, r = Convert(x, c, 0 + 1)
  PROVE  /\ r.c \in ConvType /\ r.c.done = c.done /\ HasTools(r.c, 1) /\ NextFree(r.c) = 1
         /\ Sends(At("before", BlocksOf(c), n), r.evs, At("open", BlocksOf(r.c), n - 1))
<1> DEFINE t == Tool(0, TRUE)
           u == [t EXCEPT !.name = TRUE]
           d == [c EXCEPT !.last = "tools", !.base = 0, !.max = 0]
           ms == <<Ev("message_start", 0, "none")>>
           te == ToolEvents(0, u)
<1>1. t \in ToolType /\ t.off = 0 /\ t.name = TRUE /\ t.args = TRUE  BY ToolFields
<1>2. u.name = TRUE /\ u.args = TRUE  BY DEF Tool
<1>3. BlocksOf(c) = Blocks(0, 0, "tool") /\ "tool" \in BlockKinds  BY NothingBegun DEF BlockKinds
<1>4. BlocksOf(c) \in [Index -> BlockKinds \cup {"unused", "closed"}]  BY Places
<1>5. d \in ConvType /\ d.last = "tools" /\ d.base = 0 /\ d.max = 0 /\ d.done = c.done  BY DEF ConvType
<1>6. r.c = d /\ r.evs = (ms \o te) \o <<>>
  <2>1. r = FirstChunk(x, c)  BY DEF Convert
  <2>2. x.tools # <<>> /\ x.tools[1] = t  OBVIOUS
  <2>3. \A y : Result(d, y).c = d /\ Result(d, y).evs = y  BY DEF Result
  <2> HIDE DEF t
  <2>4. r = Result(d, (ms \o te) \o <<>>)  BY <2>1, <2>2, <2>3 DEF FirstChunk
  <2> QED BY <2>3, <2>4
<1> HIDE DEF u, t
<1>7. Sends(At("open", Blocks(0, 0, "tool"), n), te, At("open", Blocks(0, 1, "tool"), n - 1))
  <2>1. 0 \in Nat /\ 0 \in 0 .. 0 /\ 0 + 1 = 1  OBVIOUS
  <2>2. Sends(At("open", Blocks(0, 0, "tool"), n), ToolEvents(0, u), At("open", Blocks(0, 0 + 1, "tool"), n - 1))
    BY <1>2, <2>1, NewToolSent
  <2> QED BY <2>1, <2>2
<1>8. Sends(At("before", BlocksOf(c), n), ms, At("open", BlocksOf(c), n))  BY <1>4, MessageBegins
<1> HIDE DEF te, ms, d
<1>9. Sends(At("before", BlocksOf(c), n), ms \o te, At("open", Blocks(0, 1, "tool"), n - 1))
  BY <1>3, <1>7, <1>8, SendsThen
<1>10. BlocksOf(d) = Blocks(0, 1, "tool") /\ NextFree(d) = 1 /\ HasTools(d, 1)
  BY <1>5 DEF BlocksOf, NextFree, FirstOpen, KindOf, WordKinds, HasTools
<1>11. Sends(At("before", BlocksOf(c), n), (ms \o te) \o <<>>, At("open", Blocks(0, 1, "tool"), n - 1))
  <2>1. At("open", Blocks(0, 1, "tool"), n - 1) \in ClientType  BY <1>9, SendsTyped
  <2> QED BY <1>9, <2>1, SendsNone, SendsThen
<1> QED BY <1>5, <1>6, <1>10, <1>11

\* A chunk with tool calls, m begun before it and p after it, for a converter that has seen k chunks.
ToolsFit(x, m, p, c, k) ==
  /\ m \in Nat /\ p \in Nat /\ k \in Nat /\ c \in ConvType /\ ~c.done
  /\ ToolChunk(x, m, p) /\ HasTools(c, m) /\ NextFree(c) <= k + m /\ k + p <= MaxBlocks
  /\ k = 0 => m = 0 /\ p = 1

\* The chunk is delivered, and the converter has then seen p tool calls.
LEMMA ToolConverted ==
  ASSUME NEW x, NEW m, NEW p, NEW c, NEW k, ToolsFit(x, m, p, c, k), NEW n \in Int,
         NEW r, r = Convert(x, c, k + 1)
  PROVE  /\ r.c \in ConvType /\ r.c.done = c.done /\ HasTools(r.c, p) /\ NextFree(r.c) <= k + p
         /\ Sends(At(PhaseAt(k), BlocksOf(c), n), r.evs, At("open", BlocksOf(r.c), n - Pieces(x)))
<1> SUFFICES ASSUME m \in Nat, p \in Nat, k \in Nat, c \in ConvType, ~c.done,
                    ToolChunk(x, m, p), HasTools(c, m), NextFree(c) <= k + m, k + p <= MaxBlocks,
                    k = 0 => m = 0 /\ p = 1
             PROVE  /\ r.c \in ConvType /\ r.c.done = c.done /\ HasTools(r.c, p) /\ NextFree(r.c) <= k + p
                    /\ Sends(At(PhaseAt(k), BlocksOf(c), n), r.evs, At("open", BlocksOf(r.c), n - Pieces(x)))
  BY DEF ToolsFit
<1>0. x.choices /\ ~x.finish /\ ~x.think /\ ~x.text  BY DEF ToolChunk
<1>1. NextFree(c) \in Nat  BY Places
<1>2. CASE k = 0
  <2>1. x.tools = <<Tool(0, TRUE)>>
    <3>1. m = 0 /\ p = 1 /\ p # m /\ p # m + 2  BY <1>2
    <3>2. x.tools = <<Tool(m, TRUE)>>  BY <3>1 DEF ToolChunk, NextTool
    <3> QED BY <3>1, <3>2
  <2>2. NextFree(c) <= 0 /\ 0 < MaxBlocks /\ HasTools(c, 0) /\ PhaseAt(k) = "before"  BY <1>1, <1>2 DEF PhaseAt
  <2>3. r = Convert(x, c, 0 + 1)  BY <1>2
  <2>4. /\ r.c \in ConvType /\ r.c.done = c.done /\ HasTools(r.c, 1) /\ NextFree(r.c) = 1
        /\ Sends(At("before", BlocksOf(c), n), r.evs, At("open", BlocksOf(r.c), n - 1))
    BY <1>0, <2>1, <2>2, <2>3, FirstToolConverted
  <2>5. Tool(0, TRUE).args = TRUE  BY DEF Tool
  <2>6. Pieces(x) = 1  BY <1>0, <2>1, <2>5, OneToolPieces
  <2> QED BY <1>2, <2>2, <2>4, <2>6
<1>3. CASE k # 0
  <2>1. PhaseAt(k) = "open"  BY <1>3 DEF PhaseAt
  <2>2. r = LaterChunk(x, c)  BY <1>3 DEF Convert
  <2>3. ASSUME x.tools # <<>>  PROVE  r = Tools(c, x.tools)
    BY <1>0, <2>2, <2>3 DEF LaterChunk
  <2>4. CASE NextTool(x.tools, m) /\ p = m + 1
    <3>1. r = Tools(c, x.tools)  BY <2>3, <2>4 DEF NextTool
    <3>2. NextFree(c) < MaxBlocks  BY <1>1, <2>4
    <3>3. /\ r.c \in ConvType /\ r.c.done = c.done /\ HasTools(r.c, m + 1) /\ NextFree(r.c) = NextFree(c) + 1
          /\ Sends(At("open", BlocksOf(c), n), r.evs, At("open", BlocksOf(r.c), n - 1))
      BY <2>4, <3>1, <3>2, OneToolDelivered
    <3>4. Tool(m, TRUE).args = TRUE  BY DEF Tool
    <3>5. Pieces(x) = 1  BY <1>0, <2>4, <3>4, OneToolPieces DEF NextTool
    <3>6. NextFree(r.c) <= k + p  BY <1>1, <2>4, <3>3
    <3> QED BY <2>1, <2>4, <3>3, <3>5, <3>6
  <2>5. CASE NextTools(x.tools, m) /\ p = m + 2
    <3>1. r = Tools(c, x.tools)  BY <2>3, <2>5 DEF NextTools
    <3>2. NextFree(c) + 2 <= MaxBlocks  BY <1>1, <2>5
    <3>3. /\ r.c \in ConvType /\ r.c.done = c.done /\ HasTools(r.c, m + 2) /\ NextFree(r.c) = NextFree(c) + 2
          /\ Sends(At("open", BlocksOf(c), n), r.evs, At("open", BlocksOf(r.c), n - 2))
      BY <2>5, <3>1, <3>2, TwoToolsDelivered
    <3>4. Tool(m, TRUE).args = TRUE /\ Tool(m + 1, TRUE).args = TRUE  BY DEF Tool
    <3>5. Pieces(x) = 2  BY <1>0, <2>5, <3>4, TwoToolPieces DEF NextTools
    <3>6. NextFree(r.c) <= k + p  BY <1>1, <2>5, <3>3
    <3> QED BY <2>1, <2>5, <3>3, <3>5, <3>6
  <2>6. CASE p = m /\ \E off \in 0 .. m - 1 : MoreArgs(x.tools, off)
    <3>1. PICK off \in 0 .. m - 1 : MoreArgs(x.tools, off)  BY <2>6
    <3>2. r = Tools(c, x.tools)  BY <2>3, <3>1 DEF MoreArgs
    <3>3. NextFree(c) <= MaxBlocks  BY <1>1, <2>6
    <3>4. /\ r.c \in ConvType /\ r.c.done = c.done /\ HasTools(r.c, m) /\ NextFree(r.c) = NextFree(c)
          /\ Sends(At("open", BlocksOf(c), n), r.evs, At("open", BlocksOf(r.c), n - 1))
      BY <3>1, <3>2, <3>3, ArgumentsDelivered
    <3>5. Tool(off, FALSE).args = TRUE  BY DEF Tool
    <3>6. Pieces(x) = 1  BY <1>0, <3>1, <3>5, OneToolPieces DEF MoreArgs
    <3> QED BY <2>1, <2>6, <3>4, <3>6
  <2> QED BY <2>4, <2>5, <2>6 DEF ToolChunk
<1> QED BY <1>2, <1>3

\* The chunk with the finish reason, if it brings the usage, ends the message; else it is put off.
LEMMA FinishConverted ==
  ASSUME NEW x \in ChunkType, FinishChunk(x), NEW c \in ConvType, ~c.done, NextFree(c) < MaxBlocks,
         NEW k, k # 1, NEW n \in Int, NEW r, r = Convert(x, c, k)
  PROVE  /\ x.usage => /\ r.c \in ConvType /\ r.c.done /\ NextFree(r.c) \in Nat /\ NextFree(r.c) <= MaxBlocks
                       /\ Sends(At("open", BlocksOf(c), n), r.evs, At("stopped", Shut(NextFree(r.c)), n - Pieces(x)))
         /\ ~x.usage => r.c = c /\ r.evs = <<>>
<1>0. x.choices /\ x.finish /\ x.tools = <<>> /\ ~x.think  BY DEF FinishChunk
<1>1. r = LaterChunk(x, c)  BY DEF Convert
<1>2. CASE ~x.usage
  BY <1>0, <1>1, <1>2 DEF LaterChunk, Result
<1>3. CASE x.usage
  <2> DEFINE w == WordPart(x, c)
  <2>1. r = Close(w, TRUE)  BY <1>0, <1>1, <1>3 DEF LaterChunk, WordPart
  <2> HIDE DEF w
  <2>2. w = WordPart(x, c)  BY DEF w
  <2>3. /\ w.c \in ConvType /\ NextFree(w.c) <= NextFree(c) + 1
        /\ Sends(At("open", BlocksOf(c), n), w.evs, At("open", BlocksOf(w.c), n - Pieces(x)))
    BY <1>0, <2>2, WordPartDelivered
  <2>4. NextFree(c) \in Nat /\ NextFree(w.c) \in Nat  BY <2>3, Places
  <2>5. NextFree(w.c) <= MaxBlocks  BY <2>3, <2>4
  <2>6. n - Pieces(x) \in Int
    <3>1. Pieces(x) = IF x.think \/ x.text THEN 1 ELSE 0  BY <1>0, PlainPieces
    <3> QED BY <3>1
  <2>7. /\ r.c \in ConvType /\ r.c.done /\ NextFree(r.c) = NextFree(w.c)
        /\ Sends(At("open", BlocksOf(c), n), r.evs, At("stopped", Shut(NextFree(w.c)), n - Pieces(x)))
    BY <2>1, <2>3, <2>5, <2>6, Closes
  <2> QED BY <1>3, <2>4, <2>5, <2>7
<1> QED BY <1>2, <1>3

\* A chunk with the usage only ends the message.
LEMMA UsageConverted ==
  ASSUME NEW x, UsageChunk(x), NEW c \in ConvType, ~c.done, NextFree(c) <= MaxBlocks,
         NEW k, k # 1, NEW n \in Int, NEW r, r = Convert(x, c, k)
  PROVE  /\ r.c \in ConvType /\ r.c.done /\ NextFree(r.c) \in Nat /\ NextFree(r.c) <= MaxBlocks
         /\ Sends(At("open", BlocksOf(c), n), r.evs, At("stopped", Shut(NextFree(r.c)), n))
         /\ Pieces(x) = 0
<1>0. ~x.choices /\ x.usage /\ x.tools = <<>> /\ ~x.think /\ ~x.text  BY DEF UsageChunk
<1>1. r = LaterChunk(x, c)  BY DEF Convert
<1> DEFINE w == Result(c, <<>>)
<1>2. r = Close(w, TRUE)  BY <1>0, <1>1 DEF LaterChunk
<1>3. w.c = c /\ w.evs = <<>>  BY DEF Result
<1>4. NextFree(c) \in Nat /\ BlocksOf(c) \in [Index -> BlockKinds \cup {"unused", "closed"}]  BY Places
<1>5. At("open", BlocksOf(c), n) \in ClientType  BY <1>4, AtType
<1>6. Sends(At("open", BlocksOf(c), n), <<>>, At("open", BlocksOf(c), n))  BY <1>5, SendsNone
<1> HIDE DEF w
<1>7. /\ r.c \in ConvType /\ r.c.done /\ NextFree(r.c) = NextFree(w.c)
      /\ Sends(At("open", BlocksOf(c), n), r.evs, At("stopped", Shut(NextFree(w.c)), n))
  BY <1>2, <1>3, <1>6, Closes
<1>8. Pieces(x) = 0  BY <1>0, PlainPieces
<1> QED BY <1>3, <1>4, <1>7, <1>8

-----------------------------------------------------------------------------
(* ClaudeStream: a chunk comes and the one before it is converted          *)

\* A chunk carries a number of pieces.
LEMMA PiecesType ==
  ASSUME NEW x \in ChunkType
  PROVE  Pieces(x) \in Nat
<1> DEFINE y == x.tools
           T == {j \in DOMAIN y : y[j].args}
<1>1. y \in Seq(ToolType)  BY DEF ChunkType
<1>2. DOMAIN y = 1 .. Len(y) /\ Len(y) \in Nat  BY <1>1
<1> HIDE DEF y
<1>3. IsFiniteSet(1 .. Len(y))  BY <1>2, FS_Interval
<1>4. T \subseteq 1 .. Len(y)  BY <1>2
<1>5. IsFiniteSet(T)  BY <1>3, <1>4, FS_Subset
<1>6. Cardinality(T) \in Nat  BY <1>5, FS_CardinalityType
<1>7. Pieces(x) = (IF x.think \/ x.text THEN 1 ELSE 0) + Cardinality(T)  BY DEF Pieces, y
<1> HIDE DEF T
<1> QED BY <1>6, <1>7

\* The usage a converter keeps does not matter for its blocks.
LEMMA UsageKept ==
  ASSUME NEW c \in ConvType, NEW v \in BOOLEAN, NEW d, d = [c EXCEPT !.usage = v]
  PROVE  /\ d \in ConvType /\ d.done = c.done /\ NextFree(d) = NextFree(c) /\ BlocksOf(d) = BlocksOf(c)
         /\ \A m : HasTools(d, m) <=> HasTools(c, m)
<1>1. d \in ConvType /\ d.done = c.done /\ d.last = c.last /\ d.idx = c.idx /\ d.base = c.base /\ d.max = c.max
  BY DEF ConvType
<1> QED BY <1>1 DEF NextFree, BlocksOf, FirstOpen, KindOf, HasTools

-----------------------------------------------------------------------------
(* ClaudeStream: the converter keeps its types, whatever comes             *)

\* Sequences of one and of two elements.
LEMMA ShortSeqs ==
  ASSUME NEW T, NEW a \in T, NEW b \in T
  PROVE  <<a>> \in Seq(T) /\ <<a, b>> \in Seq(T)
OBVIOUS

\* The stops of the open blocks.
LEMMA StopsTyped ==
  ASSUME NEW c \in ConvType
  PROVE  StopOpenBlocks(c) \in Seq(EventType) /\ StopsFirst(c) \in Seq(EventType)
<1>0. c.last \in {"text", "thinking", "none", "tools"} /\ c.idx \in Nat /\ c.base \in Nat /\ c.max \in Nat
  BY DEF ConvType, WordKinds
<1>1. CASE c.last \in {"text", "thinking"}
  <2>1. StopOpenBlocks(c) = <<Ev("block_stop", c.idx, "none")>>  BY <1>1 DEF StopOpenBlocks
  <2>2. Ev("block_stop", c.idx, "none") \in EventType  BY <1>0, EvType
  <2>3. StopOpenBlocks(c) \in Seq(EventType)  BY <2>1, <2>2
  <2> QED BY <1>1, <2>3 DEF StopsFirst
<1>2. CASE c.last = "tools"
  <2> DEFINE m == c.max + 1
             b == c.base
             f == [n \in 1 .. m |-> Ev("block_stop", b + n - 1, "none")]
  <2>1. StopOpenBlocks(c) = f  BY <1>2 DEF StopOpenBlocks
  <2>a. m \in Nat /\ b \in Nat  BY <1>0
  <2> HIDE DEF m, b
  <2>2. \A n \in 1 .. m : Ev("block_stop", b + n - 1, "none") \in EventType  BY <2>a, EvType
  <2>3. f \in Seq(EventType)  BY <2>a, <2>2
  <2> QED BY <1>2, <2>1, <2>3 DEF StopsFirst
<1>3. CASE c.last = "none"
  BY <1>3 DEF StopOpenBlocks, StopsFirst
<1> QED BY <1>0, <1>1, <1>2, <1>3

\* Words, as the first chunk or a later one brings them.
LEMMA WordsTyped ==
  ASSUME NEW c \in ConvType, NEW k \in WordKinds, NEW r, r \in {Words(c, k), FirstWords(c, k)}
  PROVE  r.c \in ConvType /\ r.evs \in Seq(EventType)
<1> DEFINE d == Advance(c)
           e == [d EXCEPT !.last = k]
           sc == StopOpenBlocks(c)
<1>1. d \in ConvType /\ c.idx \in Nat /\ d.idx \in Nat /\ k \in BlockKinds
  BY Advances DEF ConvType, BlockKinds
<1>2. sc \in Seq(EventType)  BY StopsTyped
<1>3. /\ Ev("delta", c.idx, k) \in EventType /\ Ev("block_start", c.idx, k) \in EventType
      /\ Ev("delta", d.idx, k) \in EventType /\ Ev("block_start", d.idx, k) \in EventType
  BY <1>1, EvType
<1>4. \A x, y : Result(x, y).c = x /\ Result(x, y).evs = y  BY DEF Result
<1> DEFINE f == <<Ev("delta", c.idx, k)>>
           g == <<Ev("block_start", d.idx, k), Ev("delta", d.idx, k)>>
           h == <<Ev("block_start", c.idx, k), Ev("delta", c.idx, k)>>
<1>a. f \in Seq(EventType) /\ g \in Seq(EventType) /\ h \in Seq(EventType)  BY <1>3, ShortSeqs
<1> HIDE DEF d, sc
<1>5. e \in ConvType  BY <1>1 DEF ConvType
<1>6. Words(c, k) \in {Result(c, f), Result(e, sc \o g)}  BY DEF Words, d, sc
<1>7. FirstWords(c, k) \in {Result(c, h), Words(c, k)}  BY DEF FirstWords
<1> HIDE DEF f, g, h, e
<1>b. sc \o g \in Seq(EventType)  BY <1>2, <1>a, ConcatFacts
<1>8. CASE r = Result(c, f)  BY <1>4, <1>a, <1>8, Zenon
<1>9. CASE r = Result(e, sc \o g)  BY <1>4, <1>5, <1>b, <1>9, Zenon
<1>10. CASE r = Result(c, h)  BY <1>4, <1>a, <1>10, Zenon
<1> QED BY <1>6, <1>7, <1>8, <1>9, <1>10

\* One of two or three numbers is their maximum.
LEMMA MaxOfFew ==
  ASSUME NEW a \in Nat, NEW b \in Nat, NEW c \in Nat
  PROVE  Max({a, b}) \in Nat /\ Max({a, b, c}) \in Nat
<1>1. PICK x \in {a, b} : \A y \in {a, b} : y <= x  OBVIOUS
<1>2. PICK z \in {a, b, c} : \A y \in {a, b, c} : y <= z
  <2>1. CASE c <= x  BY <1>1, <2>1
  <2>2. CASE x <= c  BY <1>1, <2>2
  <2> QED BY <2>1, <2>2
<1>3. {a, b} \subseteq Int /\ {a, b, c} \subseteq Int  OBVIOUS
<1>4. Max({a, b}) = x  BY <1>1, <1>3, MaxIs
<1>5. Max({a, b, c}) = z  BY <1>2, <1>3, MaxIs
<1> QED BY <1>1, <1>2, <1>4, <1>5

\* Pieces of tool calls, of one or two of them.
LEMMA ToolsTyped ==
  ASSUME NEW c \in ConvType, NEW y \in Seq(ToolType), y # <<>>, Len(y) <= 2, NEW r, r = Tools(c, y)
  PROVE  r.c \in ConvType /\ r.evs \in Seq(EventType)
<1> DEFINE b == Based(c)
           v == b.max
<1>1. b \in ConvType
  <2>1. CASE c.last = "tools"  BY <2>1 DEF Based
  <2>2. CASE c.last # "tools"
    <3> DEFINE d == Advance(c)
               i == d.idx
    <3>1. d \in ConvType  BY Advances
    <3>2. b = [d EXCEPT !.base = i, !.max = 0]  BY <2>2 DEF Based
    <3>3. i \in Nat  BY <3>1 DEF ConvType
    <3> HIDE DEF i, d
    <3>4. [d EXCEPT !.base = i, !.max = 0] \in ConvType  BY <3>1, <3>3 DEF ConvType
    <3> HIDE DEF b
    <3> QED BY <3>2, <3>4
  <2> QED BY <2>1, <2>2
<1>2. StopsFirst(c) \in Seq(EventType)  BY StopsTyped
<1>3. ASSUME NEW m \in Nat, Max({v} \cup {y[j].off : j \in DOMAIN y}) = m,
             FlattenSeq(ToolSeq(b, y)) \in Seq(EventType)
      PROVE  r.c \in ConvType /\ r.evs \in Seq(EventType)
  <2>1. r.c = Grown(b, m) /\ r.evs = StopsFirst(c) \o FlattenSeq(ToolSeq(b, y))  BY <1>3, ToolsIs
  <2>2. Grown(b, m) \in ConvType  BY <1>1, ToolsGrown
  <2> QED BY <1>2, <1>3, <2>1, <2>2
<1>4. v \in Nat /\ b.base \in Nat  BY <1>1 DEF ConvType
<1> HIDE DEF b, v
<1>5. CASE Len(y) = 1
  <2> DEFINE t == y[1]
  <2>a. t \in ToolType  BY <1>5
  <2>b. y = <<t>>
    <3> DEFINE z == <<t>>
    <3>1. z \in Seq(ToolType) /\ Len(z) = 1 /\ z[1] = y[1]  BY <2>a
    <3> HIDE DEF z, t
    <3>2. z = y  BY <1>5, <3>1
    <3> QED BY <3>2 DEF z
  <2>1. t \in ToolType /\ y = <<t>>  BY <2>a, <2>b
  <2>2. t.off \in Nat  BY <2>1 DEF ToolType
  <2> HIDE DEF t
  <2>3. /\ FlattenSeq(ToolSeq(b, <<t>>)) = ToolEvents(b.base + t.off, t)
        /\ {v} \cup {<<t>>[j].off : j \in DOMAIN <<t>>} = {v, t.off}
    BY <1>1, <2>1, ToolSeqOne
  <2>4. b.base + t.off \in Nat  BY <1>4, <2>2
  <2>5. ToolEvents(b.base + t.off, t) \in Seq(EventType)  BY <2>1, <2>4, ToolEventsType
  <2>6. Max({v, t.off}) \in Nat  BY <1>4, <2>2, MaxOfFew
  <2> QED BY <1>3, <2>1, <2>3, <2>5, <2>6
<1>6. CASE Len(y) = 2
  <2> DEFINE t == y[1]
             u == y[2]
  <2>a. t \in ToolType /\ u \in ToolType
    <3>1. 1 \in 1 .. Len(y) /\ 2 \in 1 .. Len(y)  BY <1>6
    <3>2. \A j \in 1 .. Len(y) : y[j] \in ToolType  OBVIOUS
    <3> QED BY <3>1, <3>2
  <2>b. y = <<t, u>>
    <3> DEFINE z == <<t, u>>
    <3>1. z \in Seq(ToolType) /\ Len(z) = 2 /\ z[1] = y[1] /\ z[2] = y[2]  BY <2>a
    <3> HIDE DEF z, t, u
    <3>2. z = y  BY <1>6, <3>1
    <3> QED BY <3>2 DEF z
  <2>1. t \in ToolType /\ u \in ToolType /\ y = <<t, u>>  BY <2>a, <2>b
  <2>2. t.off \in Nat /\ u.off \in Nat  BY <2>1 DEF ToolType
  <2> HIDE DEF t, u
  <2>3. /\ FlattenSeq(ToolSeq(b, <<t, u>>)) = ToolEvents(b.base + t.off, t) \o ToolEvents(b.base + u.off, u)
        /\ {v} \cup {<<t, u>>[j].off : j \in DOMAIN <<t, u>>} = {v, t.off, u.off}
    BY <1>1, <2>1, ToolSeqTwo
  <2>4. b.base + t.off \in Nat /\ b.base + u.off \in Nat  BY <1>4, <2>2
  <2>5. ToolEvents(b.base + t.off, t) \in Seq(EventType) /\ ToolEvents(b.base + u.off, u) \in Seq(EventType)
    BY <2>1, <2>4, ToolEventsType
  <2>6. Max({v, t.off, u.off}) \in Nat  BY <1>4, <2>2, MaxOfFew
  <2>7. FlattenSeq(ToolSeq(b, <<t, u>>)) \in Seq(EventType)  
    <3> DEFINE f == ToolEvents(b.base + t.off, t)
               g == ToolEvents(b.base + u.off, u)
    <3>1. f \in Seq(EventType) /\ g \in Seq(EventType) /\ FlattenSeq(ToolSeq(b, <<t, u>>)) = f \o g  BY <2>3, <2>5
    <3> HIDE DEF f, g
    <3>2. f \o g \in Seq(EventType)  BY <3>1, ConcatFacts
    <3> QED BY <3>1, <3>2
  <2> QED BY <1>3, <2>1, <2>3, <2>6, <2>7
<1>7. Len(y) = 1 \/ Len(y) = 2
  <2> DEFINE n == Len(y)
  <2>1. n \in Nat /\ n # 0 /\ n <= 2  OBVIOUS
  <2> HIDE DEF n
  <2>2. n = 1 \/ n = 2  BY <2>1
  <2> QED BY <2>2 DEF n
<1> QED BY <1>5, <1>6, <1>7

\* The end of the message.
LEMMA CloseTyped ==
  ASSUME NEW r, r.c \in ConvType, r.evs \in Seq(EventType), NEW v \in BOOLEAN, NEW q, q = Close(r, v)
  PROVE  q.c \in ConvType /\ q.evs \in Seq(EventType)
<1> DEFINE d == r.c
           f == r.evs
           g == StopOpenBlocks(d)
           h == IF v THEN <<Ev("message_delta", 0, "none")>> ELSE <<>>
           i == <<Ev("message_stop", 0, "none")>>
<1>1. g \in Seq(EventType)  BY StopsTyped
<1>2. h \in Seq(EventType) /\ i \in Seq(EventType)  BY EvType
<1>3. q.c = [d EXCEPT !.done = TRUE] /\ q.evs = ((f \o g) \o h) \o i  BY DEF Close, Result
<1>4. d \in ConvType /\ f \in Seq(EventType)  OBVIOUS
<1> HIDE DEF d, f, g, h, i
<1>5. [d EXCEPT !.done = TRUE] \in ConvType  BY <1>4 DEF ConvType
<1> QED BY <1>1, <1>2, <1>3, <1>4, <1>5

\* A chunk, whichever it is.
LEMMA ConvertTyped ==
  ASSUME NEW x \in ChunkType, Len(x.tools) <= 2, NEW c \in ConvType, NEW n, NEW r, r = Convert(x, c, n)
  PROVE  r.c \in ConvType /\ r.evs \in Seq(EventType)
<1> DEFINE Typed(q) == q.c \in ConvType /\ q.evs \in Seq(EventType)
<1>0. /\ x.think \in BOOLEAN /\ x.text \in BOOLEAN /\ x.finish \in BOOLEAN /\ x.usage \in BOOLEAN
      /\ x.choices \in BOOLEAN /\ x.tools \in Seq(ToolType) /\ c.usage \in BOOLEAN /\ c.done \in BOOLEAN
  BY DEF ChunkType, ConvType
<1>1. ASSUME NEW d \in ConvType  PROVE  Typed(Result(d, <<>>))  BY DEF Result
<1>2. Typed(Result(c, <<>>))  BY <1>1
<1>3. ASSUME NEW q, Typed(q), NEW v \in BOOLEAN  PROVE  Typed(Close(q, v))  BY <1>3, CloseTyped
<1>4. "thinking" \in WordKinds /\ "text" \in WordKinds  BY DEF WordKinds
<1>5. CASE r = Result(c, <<>>)  BY <1>2, <1>5
<1>6. CASE r = LaterChunk(x, c)
  <2> DEFINE w == CASE x.tools # <<>> -> Tools(c, x.tools)
                    [] x.tools = <<>> /\ x.think -> Words(c, "thinking")
                    [] x.tools = <<>> /\ ~x.think /\ x.text -> Words(c, "text")
                    [] OTHER -> Result(c, <<>>)
  <2>1. Typed(w)
    <3>1. CASE x.tools # <<>>
      <4>1. w = Tools(c, x.tools)  BY <3>1
      <4> HIDE DEF w
      <4> QED BY <1>0, <3>1, <4>1, ToolsTyped
    <3>2. CASE x.tools = <<>> /\ x.think
      <4>1. w = Words(c, "thinking")  BY <3>2
      <4> HIDE DEF w
      <4> QED BY <1>4, <4>1, WordsTyped
    <3>3. CASE x.tools = <<>> /\ ~x.think /\ x.text
      <4>1. w = Words(c, "text")  BY <3>3
      <4> HIDE DEF w
      <4> QED BY <1>4, <4>1, WordsTyped
    <3>4. CASE x.tools = <<>> /\ ~x.think /\ ~x.text
      <4>1. w = Result(c, <<>>)  BY <3>4
      <4> HIDE DEF w
      <4> QED BY <1>2, <4>1
    <3> QED BY <1>0, <3>1, <3>2, <3>3, <3>4
  <2>2. r \in {Close(Result(c, <<>>), TRUE), Result(c, <<>>), Close(w, TRUE), w}
    BY <1>0, <1>6 DEF LaterChunk
  <2> HIDE DEF w
  <2>3. Typed(Close(w, TRUE)) /\ Typed(Close(Result(c, <<>>), TRUE))
    <3> HIDE DEF Typed
    <3> QED BY <1>2, <1>3, <2>1
  <2> HIDE DEF Typed
  <2>4. Typed(r)  BY <1>2, <2>1, <2>2, <2>3
  <2> QED BY <2>4 DEF Typed
<1>7. CASE r = FirstChunk(x, c)
  <2> DEFINE d == [c EXCEPT !.last = "tools", !.base = 0, !.max = 0]
             te == ToolEvents(0, [x.tools[1] EXCEPT !.name = TRUE])
             t == IF x.tools = <<>> THEN Result(c, <<>>) ELSE Result(d, te)
             w == CASE x.think -> FirstWords(t.c, "thinking")
                    [] ~x.think /\ x.text -> FirstWords(t.c, "text")
                    [] OTHER -> Result(t.c, <<>>)
             ms == <<Ev("message_start", 0, "none")>>
             q == Result(w.c, (ms \o t.evs) \o w.evs)
  <2>1. Typed(t)
    <3>1. CASE x.tools = <<>>  BY <1>2, <3>1
    <3>2. CASE x.tools # <<>>
      <4>1. t = Result(d, te)  BY <3>2
      <4>2. d \in ConvType  BY DEF ConvType
      <4>3. te \in Seq(EventType)
        <5> DEFINE o == x.tools[1]
                   u == [o EXCEPT !.name = TRUE]
        <5>1. o \in ToolType  BY <1>0, <3>2
        <5> HIDE DEF o
        <5>2. u \in ToolType  BY <5>1 DEF ToolType
        <5>3. te = ToolEvents(0, u)  BY DEF o
        <5> HIDE DEF u, te
        <5>4. 0 \in Nat  OBVIOUS
        <5> QED BY <5>2, <5>3, <5>4, ToolEventsType
      <4> HIDE DEF t, d, te
      <4> QED BY <4>1, <4>2, <4>3 DEF Result
    <3> QED BY <3>1, <3>2
  <2> HIDE DEF t
  <2>2. Typed(w)
    <3>1. CASE x.think
      <4>1. w = FirstWords(t.c, "thinking")  BY <3>1
      <4> HIDE DEF w
      <4> QED BY <1>4, <2>1, <4>1, WordsTyped
    <3>2. CASE ~x.think /\ x.text
      <4>1. w = FirstWords(t.c, "text")  BY <3>2
      <4> HIDE DEF w
      <4> QED BY <1>4, <2>1, <4>1, WordsTyped
    <3>3. CASE ~x.think /\ ~x.text
      <4>1. w = Result(t.c, <<>>)  BY <3>3
      <4> HIDE DEF w
      <4> QED BY <1>1, <2>1, <4>1
    <3> QED BY <1>0, <3>1, <3>2, <3>3
  <2>3. r \in {Close(q, x.usage \/ c.usage), q}  BY <1>7 DEF FirstChunk, t
  <2> HIDE DEF w
  <2>4. ms \in Seq(EventType)  BY EvType
  <2> HIDE DEF ms
  <2>5. Typed(q)  BY <2>1, <2>2, <2>4 DEF Result
  <2> HIDE DEF q
  <2>6. (x.usage \/ c.usage) \in BOOLEAN  BY <1>0
  <2>7. Typed(Close(q, x.usage \/ c.usage))
    <3> HIDE DEF Typed
    <3> QED BY <1>3, <2>5, <2>6
  <2> HIDE DEF Typed
  <2>8. Typed(r)  BY <2>3, <2>5, <2>7
  <2> QED BY <2>8 DEF Typed
<1> QED BY <1>0, <1>5, <1>6, <1>7 DEF Convert

-----------------------------------------------------------------------------
(* ClaudeStream: the chunk that is held back is converted                  *)

Lost(x) == One(x.finish /\ x.text /\ ~x.usage)

\* The client in state s has come to where converter c says it is.
Reached(s, c) ==
  /\ ~c.done => s.phase = "open" /\ s.blocks = BlocksOf(c)
  /\ c.done => s.phase = "stopped" /\ AllShut(s.blocks)

\* Events evs bring the client to such a state, with n pieces left.
Brings(evs, c, k, n) ==
  \E s \in ClientType : Sends(At(phase, blocks, k), evs, s) /\ Reached(s, c) /\ s.pieces = n

\* The fields of the client.
LEMMA ClientFields ==
  ASSUME ClaudeTypeOK
  PROVE  /\ ClientNow \in ClientType
         /\ ClientNow.phase = phase /\ ClientNow.blocks = blocks /\ ClientNow.pieces = pieces
         /\ phase \in {"before", "open", "delta", "stopped"} /\ pieces \in Int
         /\ blocks \in [Index -> BlockKinds \cup {"unused", "closed"}]
<1>1. ClientNow \in ClientType  BY DEF ClaudeTypeOK, ClientNow, At
<1>2. ClientNow.phase = phase /\ ClientNow.blocks = blocks /\ ClientNow.pieces = pieces  BY DEF ClientNow, At
<1> QED BY <1>1, <1>2 DEF ClientType

\* When everything is sent the client agrees with the converter.
LEMMA Settled ==
  ASSUME ClaudeInv, Followed, out = <<>>
  PROVE  Agrees(ClientNow)
<1>1. PICK s \in ClientType : Sends(ClientNow, <<>>, s) /\ Agrees(s)  BY DEF ClaudeInv, Agreed
<1>2. ClientNow = s  BY <1>1, SendsOver
<1> QED BY <1>1, <1>2

\* What is known when the chunk that is held back is converted.
Ready == ClaudeInv /\ ~up.odd /\ ~ended /\ held # <<>> /\ out = <<>>

LEMMA Before ==
  ASSUME Ready
  PROVE  /\ Followed /\ HeldBack(held[1]) /\ Agrees(ClientNow) /\ ClaudeTypeOK /\ Counted
         /\ ~conv.done => phase = PhaseAt(count) /\ blocks = BlocksOf(conv)
         /\ conv.done => phase = "stopped" /\ AllShut(blocks)
         /\ held[1] \in ChunkType /\ conv \in ConvType /\ count \in Nat /\ up.tools \in 0 .. MaxTools
         /\ Pieces(held[1]) \in Nat
         /\ up.sent \in Nat /\ count + 1 = up.sent /\ ~up.cut
         /\ up.stage \in {"words", "tools", "usage", "end"} /\ up.usage \in Usages
<1>1. Followed  BY DEF Ready, Followed
<1>2. HeldBack(held[1]) /\ ClaudeTypeOK /\ Counted  BY <1>1 DEF Ready, ClaudeInv
<1>3. Agrees(ClientNow)  BY <1>1, Settled DEF Ready
<1>4. ClientNow.phase = phase /\ ClientNow.blocks = blocks  BY DEF ClientNow, At
<1>5. /\ ~conv.done => phase = PhaseAt(count) /\ blocks = BlocksOf(conv)
      /\ conv.done => phase = "stopped" /\ AllShut(blocks)
  BY <1>3, <1>4 DEF Ready, Agrees, PhaseAt
<1>6. /\ held[1] \in ChunkType /\ conv \in ConvType /\ count \in Nat /\ up.tools \in 0 .. MaxTools
      /\ up.sent \in Nat /\ up.stage \in {"first", "words", "tools", "usage", "end"} /\ up.usage \in Usages
      /\ up.cut \in BOOLEAN
  BY <1>2 DEF Ready, ClaudeTypeOK, UpType
<1>7. up.sent # 0 /\ ~up.cut  BY <1>2 DEF Ready, Counted
<1>8. count + 1 = up.sent /\ up.stage # "first"  BY <1>2, <1>6, <1>7 DEF Counted
<1>9. Pieces(held[1]) \in Nat  BY <1>6, PiecesType
<1> QED BY <1>1, <1>2, <1>3, <1>5, <1>6, <1>7, <1>8, <1>9

\* A state the events lead to.
LEMMA BringsTo ==
  ASSUME NEW evs, NEW c, NEW k, NEW n \in Int, NEW p \in {"open", "stopped"}, NEW b,
         b \in [Index -> BlockKinds \cup {"unused", "closed"}],
         Sends(At(phase, blocks, k), evs, At(p, b, n)),
         ~c.done => p = "open" /\ b = BlocksOf(c), c.done => p = "stopped" /\ AllShut(b)
  PROVE  Brings(evs, c, k, n)
<1> DEFINE s == At(p, b, n)
<1>1. s \in ClientType /\ s.phase = p /\ s.blocks = b /\ s.pieces = n  BY AtType
<1>2. Sends(At(phase, blocks, k), evs, s)  OBVIOUS
<1> HIDE DEF s
<1>3. Reached(s, c)  BY <1>1 DEF Reached
<1> QED BY <1>1, <1>2, <1>3 DEF Brings

\* Chunk x, the one that is held back, is converted, and r is the result.
Converts(x, v, r) ==
  x = held[1] /\ v \in BOOLEAN /\ r = Convert(x, [conv EXCEPT !.usage = v], count + 1)

\* A chunk with words.
LEMMA ConvertedWords ==
  ASSUME Ready, up.stage = "words", NEW x, NEW v, NEW r, Converts(x, v, r), NEW n \in Int
  PROVE  /\ ~r.c.done /\ (up.tools = 0 => HasTools(r.c, 0)) /\ NextFree(r.c) <= count + 1 + up.tools
         /\ Brings(r.evs, r.c, n, n - Pieces(x) + Lost(x))
<1> DEFINE c == [conv EXCEPT !.usage = v]
<1>c. x = held[1] /\ v \in BOOLEAN /\ r = Convert(x, c, count + 1)  BY DEF Converts
<1> HIDE DEF c
<1>1. /\ HeldBack(x) /\ x \in ChunkType /\ conv \in ConvType /\ count \in Nat /\ up.tools \in 0 .. MaxTools
      /\ Pieces(x) \in Nat /\ count + 1 = up.sent /\ ~up.cut /\ Counted
      /\ ~conv.done => phase = PhaseAt(count) /\ blocks = BlocksOf(conv)
  BY <1>c, Before
<1>2. /\ PlainChunk(x) /\ NextFree(conv) <= count + up.tools /\ (up.tools = 0 => HasTools(conv, 0))
      /\ (count = 0 => up.tools = 0) /\ ~conv.done
  BY <1>1 DEF HeldBack
<1>3. up.tools \in Nat /\ up.tools <= MaxTools /\ count + 1 <= MaxChunks  BY <1>1 DEF Counted
<1>4. NextFree(conv) \in Nat  BY <1>1, Places
<1>5. c \in ConvType /\ c.done = conv.done /\ NextFree(c) = NextFree(conv) /\ BlocksOf(c) = BlocksOf(conv)
      /\ (HasTools(c, 0) <=> HasTools(conv, 0))
  BY <1>c, <1>1, UsageKept DEF c
<1>6. NextFree(c) < MaxBlocks  BY <1>1, <1>2, <1>3, <1>4, <1>5
<1>7. count = 0 => HasTools(c, 0) /\ NextFree(c) <= 0  BY <1>1, <1>2, <1>3, <1>4, <1>5
<1>8. /\ r.c \in ConvType /\ r.c.done = c.done /\ NextFree(r.c) <= NextFree(c) + 1
      /\ HasTools(c, 0) => HasTools(r.c, 0)
      /\ Sends(At(PhaseAt(count), BlocksOf(c), n), r.evs, At("open", BlocksOf(r.c), n - Pieces(x)))
  BY <1>c, <1>1, <1>2, <1>5, <1>6, <1>7, PlainConverted
<1>9. NextFree(r.c) \in Nat /\ BlocksOf(r.c) \in [Index -> BlockKinds \cup {"unused", "closed"}]  BY <1>8, Places
<1>10. NextFree(r.c) <= count + 1 + up.tools  BY <1>1, <1>2, <1>3, <1>4, <1>5, <1>8, <1>9
<1>11. Lost(x) = 0  BY <1>2 DEF Lost, One, PlainChunk
<1>12. n - Pieces(x) \in Int /\ n - Pieces(x) + Lost(x) = n - Pieces(x)  BY <1>1, <1>11
<1>13. Sends(At(phase, blocks, n), r.evs, At("open", BlocksOf(r.c), n - Pieces(x)))  BY <1>1, <1>2, <1>5, <1>8
<1>14. Brings(r.evs, r.c, n, n - Pieces(x))  BY <1>2, <1>5, <1>8, <1>9, <1>12, <1>13, BringsTo
<1> QED BY <1>2, <1>5, <1>8, <1>10, <1>12, <1>14

\* A chunk with tool calls.
LEMMA ConvertedTools ==
  ASSUME Ready, up.stage = "tools", NEW x, NEW v, NEW r, Converts(x, v, r), NEW n \in Int
  PROVE  /\ ~r.c.done /\ HasTools(r.c, up.tools) /\ NextFree(r.c) <= count + up.tools
         /\ Brings(r.evs, r.c, n, n - Pieces(x) + Lost(x))
<1> DEFINE c == [conv EXCEPT !.usage = v]
<1>c. x = held[1] /\ v \in BOOLEAN /\ r = Convert(x, c, count + 1)  BY DEF Converts
<1> HIDE DEF c
<1>1. /\ HeldBack(x) /\ x \in ChunkType /\ conv \in ConvType /\ count \in Nat /\ up.tools \in 0 .. MaxTools
      /\ Pieces(x) \in Nat /\ count + 1 = up.sent /\ ~up.cut /\ Counted
      /\ ~conv.done => phase = PhaseAt(count) /\ blocks = BlocksOf(conv)
  BY <1>c, Before
<1>2. ~conv.done  BY <1>1 DEF HeldBack
<1>3. PICK m \in 0 .. up.tools :
        /\ ToolChunk(x, m, up.tools) /\ HasTools(conv, m) /\ NextFree(conv) <= count + m
        /\ count = 0 => m = 0 /\ up.tools = 1
  BY <1>1 DEF HeldBack
<1>4. up.tools \in Nat /\ m \in Nat /\ up.tools <= MaxTools  BY <1>1
<1>5. count + up.tools <= MaxBlocks  BY <1>1, <1>4 DEF Counted
<1>6. c \in ConvType /\ c.done = conv.done /\ NextFree(c) = NextFree(conv) /\ BlocksOf(c) = BlocksOf(conv) /\ HasTools(c, m)
  <2>1. /\ c \in ConvType /\ c.done = conv.done /\ NextFree(c) = NextFree(conv) /\ BlocksOf(c) = BlocksOf(conv)
        /\ \A j : HasTools(c, j) <=> HasTools(conv, j)
    BY <1>c, <1>1, UsageKept DEF c
  <2>2. HasTools(c, m)  BY <1>3, <2>1, Zenon
  <2> QED BY <2>1, <2>2
<1>7. /\ r.c \in ConvType /\ r.c.done = c.done /\ HasTools(r.c, up.tools) /\ NextFree(r.c) <= count + up.tools
      /\ Sends(At(PhaseAt(count), BlocksOf(c), n), r.evs, At("open", BlocksOf(r.c), n - Pieces(x)))
  <2> DEFINE p == up.tools
             k == count
  <2>1. /\ ToolChunk(x, m, p) /\ HasTools(c, m) /\ NextFree(c) <= k + m /\ k + p <= MaxBlocks /\ ~c.done
        /\ k = 0 => m = 0 /\ p = 1
    BY <1>2, <1>3, <1>5, <1>6
  <2>2. k \in Nat /\ p \in Nat /\ m \in Nat /\ c \in ConvType /\ r = Convert(x, c, k + 1)  BY <1>c, <1>1, <1>4, <1>6
  <2>a. ToolsFit(x, m, p, c, k)  BY <2>1, <2>2 DEF ToolsFit
  <2> HIDE DEF p, k
  <2>3. /\ r.c \in ConvType /\ r.c.done = c.done /\ HasTools(r.c, p) /\ NextFree(r.c) <= k + p
        /\ Sends(At(PhaseAt(k), BlocksOf(c), n), r.evs, At("open", BlocksOf(r.c), n - Pieces(x)))
    BY <2>a, <2>2, ToolConverted
  <2> QED BY <2>3 DEF p, k
<1>8. BlocksOf(r.c) \in [Index -> BlockKinds \cup {"unused", "closed"}]  BY <1>7, Places
<1>9. Lost(x) = 0  BY <1>3 DEF Lost, One, ToolChunk
<1>10. n - Pieces(x) \in Int /\ n - Pieces(x) + Lost(x) = n - Pieces(x)  BY <1>1, <1>9
<1>11. Sends(At(phase, blocks, n), r.evs, At("open", BlocksOf(r.c), n - Pieces(x)))  BY <1>1, <1>2, <1>6, <1>7
<1>12. Brings(r.evs, r.c, n, n - Pieces(x))  BY <1>2, <1>6, <1>7, <1>8, <1>10, <1>11, BringsTo
<1> QED BY <1>2, <1>6, <1>7, <1>10, <1>12

\* The chunk with the finish reason ends the message or is put off, its text with it.
LEMMA ConvertedFinish ==
  ASSUME Ready, NEW x, FinishChunk(x), ~conv.done, NextFree(conv) < MaxBlocks, count # 0,
         NEW v, NEW r, Converts(x, v, r), NEW n \in Int
  PROVE  /\ r.c.done <=> x.usage
         /\ NextFree(r.c) <= MaxBlocks
         /\ Brings(r.evs, r.c, n, n - Pieces(x) + Lost(x))
<1> DEFINE c == [conv EXCEPT !.usage = v]
<1>c. x = held[1] /\ v \in BOOLEAN /\ r = Convert(x, c, count + 1)  BY DEF Converts
<1> HIDE DEF c
<1>1. /\ x \in ChunkType /\ conv \in ConvType /\ count \in Nat /\ Pieces(x) \in Nat
      /\ phase = PhaseAt(count) /\ blocks = BlocksOf(conv) /\ ClaudeTypeOK
  BY <1>c, Before
<1>2. x.finish /\ x.tools = <<>> /\ ~x.think /\ x.usage \in BOOLEAN /\ x.text \in BOOLEAN
  BY <1>1 DEF FinishChunk, ChunkType
<1>3. Pieces(x) = One(x.text)  BY <1>2, PlainPieces DEF One
<1>4. c \in ConvType /\ c.done = conv.done /\ NextFree(c) = NextFree(conv) /\ BlocksOf(c) = BlocksOf(conv)
  BY <1>c, <1>1, UsageKept DEF c
<1>5. count + 1 # 1 /\ phase = "open"  BY <1>1 DEF PhaseAt
<1>6. /\ x.usage => /\ r.c \in ConvType /\ r.c.done /\ NextFree(r.c) \in Nat /\ NextFree(r.c) <= MaxBlocks
                    /\ Sends(At("open", BlocksOf(c), n), r.evs, At("stopped", Shut(NextFree(r.c)), n - Pieces(x)))
      /\ ~x.usage => r.c = c /\ r.evs = <<>>
  <2> DEFINE k == count + 1
  <2>1. r = Convert(x, c, k) /\ k # 1  BY <1>c, <1>5
  <2>2. x \in ChunkType /\ c \in ConvType /\ ~c.done /\ NextFree(c) < MaxBlocks  BY <1>1, <1>4
  <2> HIDE DEF k
  <2> QED BY <2>1, <2>2, FinishConverted
<1>7. CASE x.usage
  <2> DEFINE b == Shut(NextFree(r.c))
  <2>1. b \in [Index -> BlockKinds \cup {"unused", "closed"}] /\ AllShut(b)  BY <1>6, <1>7, ShutIsShut
  <2>2. Lost(x) = 0  BY <1>7 DEF Lost, One
  <2>3. n - Pieces(x) \in Int /\ n - Pieces(x) + Lost(x) = n - Pieces(x)  BY <1>1, <2>2
  <2>4. Sends(At(phase, blocks, n), r.evs, At("stopped", b, n - Pieces(x)))  BY <1>1, <1>4, <1>5, <1>6, <1>7
  <2> HIDE DEF b
  <2>5. Brings(r.evs, r.c, n, n - Pieces(x))  BY <1>6, <1>7, <2>1, <2>3, <2>4, BringsTo
  <2> QED BY <1>6, <1>7, <2>3, <2>5
<1>8. CASE ~x.usage
  <2>1. r.c = c /\ r.evs = <<>> /\ ~r.c.done  BY <1>4, <1>6, <1>8
  <2>2. Lost(x) = One(x.text)  BY <1>2, <1>8 DEF Lost
  <2>3. n - Pieces(x) + Lost(x) = n  BY <1>1, <1>3, <2>2
  <2>4. BlocksOf(c) \in [Index -> BlockKinds \cup {"unused", "closed"}] /\ NextFree(c) \in Nat  BY <1>4, Places
  <2>5. At("open", BlocksOf(c), n) \in ClientType  BY <2>4, AtType
  <2>6. Sends(At(phase, blocks, n), r.evs, At("open", BlocksOf(c), n))  BY <1>1, <1>4, <1>5, <2>1, <2>5, SendsNone
  <2>7. Brings(r.evs, r.c, n, n)  BY <2>1, <2>4, <2>6, BringsTo
  <2>8. NextFree(r.c) <= MaxBlocks  BY <1>4, <2>1, <2>4
  <2> QED BY <1>8, <2>1, <2>3, <2>7, <2>8
<1> QED BY <1>2, <1>7, <1>8

\* The chunk with the usage ends the message, unless it has ended.
LEMMA ConvertedUsage ==
  ASSUME Ready, NEW x, UsageChunk(x), NextFree(conv) <= MaxBlocks, count # 0,
         NEW v, NEW r, Converts(x, v, r), NEW n \in Int
  PROVE  r.c.done /\ Brings(r.evs, r.c, n, n - Pieces(x) + Lost(x))
<1> DEFINE c == [conv EXCEPT !.usage = v]
<1>c. x = held[1] /\ v \in BOOLEAN /\ r = Convert(x, c, count + 1)  BY DEF Converts
<1> HIDE DEF c
<1>1. /\ conv \in ConvType /\ count \in Nat /\ ClaudeTypeOK
      /\ ~conv.done => phase = PhaseAt(count) /\ blocks = BlocksOf(conv)
      /\ conv.done => phase = "stopped" /\ AllShut(blocks)
  BY <1>c, Before
<1>2. ~x.finish /\ x.tools = <<>> /\ ~x.think /\ ~x.text  BY DEF UsageChunk
<1>3. Pieces(x) = 0 /\ Lost(x) = 0  BY <1>2, PlainPieces DEF Lost, One
<1>4. n - Pieces(x) + Lost(x) = n  BY <1>3
<1>5. c \in ConvType /\ c.done = conv.done /\ NextFree(c) = NextFree(conv) /\ BlocksOf(c) = BlocksOf(conv)
  BY <1>c, <1>1, UsageKept DEF c
<1>6. CASE conv.done
  <2>1. r.c = c /\ r.evs = <<>>  BY <1>c, <1>5, <1>6 DEF Convert, Result
  <2>2. /\ blocks \in [Index -> BlockKinds \cup {"unused", "closed"}]
        /\ phase = "stopped" /\ AllShut(blocks)
    BY <1>1, <1>6, ClientFields
  <2>3. At("stopped", blocks, n) \in ClientType  BY <2>2, AtType
  <2>4. Sends(At(phase, blocks, n), r.evs, At("stopped", blocks, n))  BY <2>1, <2>2, <2>3, SendsNone
  <2>5. Brings(r.evs, r.c, n, n)  BY <1>5, <1>6, <2>1, <2>2, <2>4, BringsTo
  <2> QED BY <1>4, <1>5, <1>6, <2>1, <2>5
<1>7. CASE ~conv.done
  <2>1. count + 1 # 1 /\ phase = "open" /\ blocks = BlocksOf(c)  BY <1>1, <1>5, <1>7 DEF PhaseAt
  <2>2. /\ r.c \in ConvType /\ r.c.done /\ NextFree(r.c) \in Nat
        /\ Sends(At("open", BlocksOf(c), n), r.evs, At("stopped", Shut(NextFree(r.c)), n))
    BY <1>c, <1>5, <1>7, <2>1, UsageConverted
  <2> DEFINE b == Shut(NextFree(r.c))
  <2>3. b \in [Index -> BlockKinds \cup {"unused", "closed"}] /\ AllShut(b)  BY <2>2, ShutIsShut
  <2>4. Sends(At(phase, blocks, n), r.evs, At("stopped", b, n))  BY <2>1, <2>2
  <2> HIDE DEF b
  <2>5. Brings(r.evs, r.c, n, n)  BY <2>2, <2>3, <2>4, BringsTo
  <2> QED BY <1>4, <2>2, <2>5
<1> QED BY <1>6, <1>7

\* The chunk that is held back, at every stage: what was owed for it is delivered or lost, and
\* the message has ended exactly if the finish reason and the usage have come.
LEMMA Converted ==
  ASSUME Ready, NEW x, NEW v, NEW r, Converts(x, v, r), NEW n \in Int
  PROVE  /\ r.c.done <=> Finished
         /\ up.stage = "words" =>
              (up.tools = 0 => HasTools(r.c, 0)) /\ NextFree(r.c) <= count + 1 + up.tools
         /\ up.stage = "tools" => HasTools(r.c, up.tools) /\ NextFree(r.c) <= count + up.tools
         /\ up.stage = "usage" => NextFree(r.c) <= MaxBlocks
         /\ Brings(r.evs, r.c, n, n - Pieces(x) + Lost(x))
         /\ Owed = Pieces(x) + One(up.lost) - Lost(x)
<1>c. x = held[1]  BY DEF Converts
<1>1. /\ HeldBack(x) /\ x \in ChunkType /\ up.usage \in Usages /\ up.stage \in {"words", "tools", "usage", "end"}
      /\ Pieces(x) \in Nat /\ Counted
  BY <1>c, Before
<1>0. x.usage \in BOOLEAN /\ x.text \in BOOLEAN /\ x.finish \in BOOLEAN  BY <1>1 DEF ChunkType
<1>2. held # <<>>  BY DEF Ready
<1>3. Owed = Pieces(x) + One(up.lost /\ ~x.finish)  BY <1>c, <1>2 DEF Owed
<1>4. CASE up.stage = "words"
  <2>1. ~Finished  BY <1>4 DEF Finished
  <2>2. ~x.finish /\ ~up.lost  BY <1>1, <1>4 DEF HeldBack, PlainChunk
  <2>3. Owed = Pieces(x) + One(up.lost) - Lost(x)  BY <1>1, <1>3, <2>2 DEF One, Lost
  <2> QED BY <1>4, <2>1, <2>3, ConvertedWords
<1>5. CASE up.stage = "tools"
  <2>1. ~Finished  BY <1>5 DEF Finished
  <2>2. ~x.finish /\ ~up.lost  BY <1>1, <1>5 DEF HeldBack, ToolChunk
  <2>3. Owed = Pieces(x) + One(up.lost) - Lost(x)  BY <1>1, <1>3, <2>2 DEF One, Lost
  <2> QED BY <1>5, <2>1, <2>3, ConvertedTools
<1>6. ASSUME FinishChunk(x), up.lost <=> x.text /\ ~x.usage
      PROVE  Owed = Pieces(x) + One(up.lost) - Lost(x)
  <2>1. x.finish  BY <1>6 DEF FinishChunk
  <2>2. One(up.lost /\ ~x.finish) = 0 /\ One(up.lost) = Lost(x)  BY <1>0, <1>6, <2>1 DEF One, Lost
  <2>3. One(up.lost) \in Int  BY DEF One
  <2> QED BY <1>1, <1>3, <2>2, <2>3
<1>7. CASE up.stage = "usage"
  <2>1. /\ FinishChunk(x) /\ (x.usage <=> up.usage = "every") /\ NextFree(conv) < MaxBlocks
        /\ count # 0 /\ (up.lost <=> x.text /\ ~x.usage) /\ ~conv.done
    BY <1>1, <1>7 DEF HeldBack
  <2>2. Finished <=> x.usage  BY <1>7, <2>1 DEF Finished
  <2>3. /\ r.c.done <=> x.usage
        /\ NextFree(r.c) <= MaxBlocks
        /\ Brings(r.evs, r.c, n, n - Pieces(x) + Lost(x))
    BY <2>1, ConvertedFinish
  <2> QED BY <1>6, <1>7, <2>1, <2>2, <2>3
<1>8. CASE up.stage = "end" /\ up.usage \in {"separate", "every"}
  <2>1. UsageChunk(x) /\ NextFree(conv) <= MaxBlocks /\ count # 0  BY <1>1, <1>8 DEF HeldBack
  <2>2. Finished  BY <1>8 DEF Finished
  <2>3. ~x.finish  BY <2>1 DEF UsageChunk
  <2>4. Owed = Pieces(x) + One(up.lost) - Lost(x)  BY <1>1, <1>3, <2>3 DEF One, Lost
  <2> QED BY <1>8, <2>1, <2>2, <2>4, ConvertedUsage
<1>9. CASE up.stage = "end" /\ up.usage \notin {"separate", "every"}
  <2>1. /\ FinishChunk(x) /\ (x.usage <=> up.usage = "with_finish") /\ NextFree(conv) < MaxBlocks
        /\ count # 0 /\ (up.lost <=> x.text /\ ~x.usage) /\ ~conv.done
    BY <1>1, <1>9 DEF HeldBack
  <2>2. Finished <=> x.usage  BY <1>1, <1>9, <2>1 DEF Finished, Usages
  <2>3. /\ r.c.done <=> x.usage
        /\ Brings(r.evs, r.c, n, n - Pieces(x) + Lost(x))
    BY <2>1, ConvertedFinish
  <2> QED BY <1>6, <1>9, <2>1, <2>2, <2>3
<1> QED BY <1>1, <1>4, <1>5, <1>7, <1>8, <1>9

-----------------------------------------------------------------------------
(* ClaudeStream: the actions keep the invariant                            *)

\* Whatever is converted, the converter and the events keep their types.
LEMMA SentTyped ==
  ASSUME ClaudeInv, SendHeld, out = <<>>
  PROVE  /\ conv' \in ConvType /\ out' \in Seq(EventType) /\ count' \in Nat
         /\ count' = IF held = <<>> THEN count ELSE count + 1
<1>1. /\ ClaudeTypeOK /\ Counted /\ conv \in ConvType /\ count \in Nat /\ held \in Seq(ChunkType)
      /\ out \in Seq(EventType)
  BY DEF ClaudeInv, ClaudeTypeOK
<1>2. CASE held = <<>>  BY <1>1, <1>2 DEF SendHeld
<1>3. CASE held # <<>>
  <2> DEFINE x == held[1]
             v == conv.usage \/ x.usage
             c == [conv EXCEPT !.usage = v]
             r == Convert(x, c, count + 1)
  <2>1. count' = count + 1 /\ conv' = r.c /\ out' = r.evs  BY <1>3 DEF SendHeld, HandleStreamFormat
  <2>2. x \in ChunkType /\ Len(x.tools) <= 2  BY <1>1, <1>3 DEF Counted
  <2>3. v \in BOOLEAN  BY <1>1, <2>2 DEF ConvType, ChunkType
  <2> HIDE DEF x, v
  <2>4. c \in ConvType  BY <1>1, <2>3 DEF ConvType
  <2>5. r = Convert(x, c, count + 1)  OBVIOUS
  <2> HIDE DEF c, r
  <2>6. r.c \in ConvType /\ r.evs \in Seq(EventType)  BY <2>2, <2>4, <2>5, ConvertTyped
  <2> QED BY <1>1, <1>3, <2>1, <2>6
<1> QED BY <1>2, <1>3

\* The chunk that is held back is sent on: what that leaves, by the stage of the upstream.
LEMMA SentOn ==
  ASSUME Ready, SendHeld, NEW n \in Int
  PROVE  /\ count' = count + 1
         /\ conv'.done <=> Finished
         /\ up.stage = "words" =>
              (up.tools = 0 => HasTools(conv', 0)) /\ NextFree(conv') <= count' + up.tools
         /\ up.stage = "tools" => HasTools(conv', up.tools) /\ NextFree(conv') <= count' + up.tools
         /\ up.stage = "usage" => NextFree(conv') <= MaxBlocks
         /\ Brings(out', conv', n, n - Owed + One(up.lost))
<1> DEFINE x == held[1]
           v == conv.usage \/ x.usage
           r == Convert(x, [conv EXCEPT !.usage = v], count + 1)
<1>1. held # <<>> /\ ClaudeInv /\ out = <<>>  BY DEF Ready
<1>2. count' = count + 1 /\ conv' = r.c /\ out' = r.evs  BY <1>1 DEF SendHeld, HandleStreamFormat
<1>3. x \in ChunkType /\ conv \in ConvType /\ count \in Nat /\ up.tools \in Nat /\ Pieces(x) \in Nat  BY Before
<1>4. v \in BOOLEAN  BY <1>3 DEF ConvType, ChunkType
<1>5. Converts(x, v, r)  BY <1>4 DEF Converts
<1> HIDE DEF x, v, r
<1>6. /\ r.c.done <=> Finished
      /\ up.stage = "words" =>
           (up.tools = 0 => HasTools(r.c, 0)) /\ NextFree(r.c) <= count + 1 + up.tools
      /\ up.stage = "tools" => HasTools(r.c, up.tools) /\ NextFree(r.c) <= count + up.tools
      /\ up.stage = "usage" => NextFree(r.c) <= MaxBlocks
      /\ Brings(r.evs, r.c, n, n - Pieces(x) + Lost(x))
      /\ Owed = Pieces(x) + One(up.lost) - Lost(x)
  BY <1>5, Converted
<1>7. One(up.lost) \in Int /\ Lost(x) \in Int  BY DEF One, Lost
<1>8. n - Owed + One(up.lost) = n - Pieces(x) + Lost(x)
  <2> DEFINE a == Pieces(x)
             b == One(up.lost)
             d == Lost(x)
  <2>1. a \in Int /\ b \in Int /\ d \in Int /\ Owed = a + b - d  BY <1>3, <1>6, <1>7
  <2> HIDE DEF a, b, d
  <2>2. n - Owed + b = n - a + d  BY <2>1
  <2> QED BY <2>2 DEF a, b, d
<1>9. NextFree(r.c) \in Nat
  <2>1. conv' \in ConvType  BY <1>1, SentTyped
  <2> QED BY <1>2, <2>1, Places
<1>10. up.stage = "tools" => NextFree(r.c) <= count + 1 + up.tools  BY <1>3, <1>6, <1>9
<1> QED BY <1>2, <1>6, <1>8, <1>10

\* What a chunk that is received leaves, by the stage before it.
LEMMA Received ==
  ASSUME ClaudeInv, ~up.odd, NEW x, NEW u, Receive(x, u), up.stage # "end"
  PROVE  /\ conv' \in ConvType /\ count' = up.sent
         /\ up.stage # "usage" => ~conv'.done /\ ~up.lost /\ NextFree(conv') <= count' + up.tools
         /\ up.stage \in {"first", "words"} => (up.tools = 0 => HasTools(conv', 0))
         /\ up.stage = "tools" => HasTools(conv', up.tools)
         /\ up.stage = "usage" => (conv'.done <=> up.usage = "every") /\ NextFree(conv') <= MaxBlocks
<1>1. SendHeld /\ out = <<>> /\ ~ended /\ ~up.cut  BY DEF Receive
<1>2. /\ ClaudeTypeOK /\ Counted /\ up.stage \in {"first", "words", "tools", "usage"} /\ up.sent \in Nat
      /\ up.tools \in 0 .. MaxTools /\ count \in Nat
  BY DEF ClaudeInv, ClaudeTypeOK, UpType
<1>3. conv' \in ConvType /\ count' = IF held = <<>> THEN count ELSE count + 1  BY <1>1, SentTyped
<1>4. CASE up.stage = "first"
  <2>1. up.sent = 0 /\ held = <<>>  BY <1>1, <1>2, <1>4 DEF Counted
  <2>2. count = 0 /\ HasTools(conv, 0) /\ NextFree(conv) = 0 /\ ~conv.done /\ ~up.lost /\ up.tools = 0
    BY <1>2, <1>4 DEF Counted
  <2>3. conv' = conv  BY <1>1, <2>1 DEF SendHeld
  <2> QED BY <1>3, <1>4, <2>1, <2>2, <2>3
<1>5. CASE up.stage # "first"
  <2>1. up.sent # 0 /\ held # <<>> /\ count + 1 = up.sent  BY <1>1, <1>2, <1>5 DEF Counted
  <2>2. Ready  BY <1>1, <2>1 DEF Ready
  <2>3. 0 \in Int  OBVIOUS
  <2>4. /\ conv'.done <=> Finished
        /\ up.stage = "words" =>
              (up.tools = 0 => HasTools(conv', 0)) /\ NextFree(conv') <= count' + up.tools
        /\ up.stage = "tools" => HasTools(conv', up.tools) /\ NextFree(conv') <= count' + up.tools
        /\ up.stage = "usage" => NextFree(conv') <= MaxBlocks
    BY <1>1, <2>2, <2>3, SentOn
  <2>5. up.stage # "usage" => ~up.lost  BY <1>2, <1>5, <2>2, Before DEF HeldBack
  <2> QED BY <1>2, <1>3, <1>5, <2>1, <2>4, <2>5 DEF Finished
<1> QED BY <1>4, <1>5

\* What is sent on brings the client to where the converter is.
LEMMA SentAgreed ==
  ASSUME ClaudeInv, ~up.odd, ~ended, ~up.cut, out = <<>>, SendHeld, NEW n \in Int
  PROVE  \E s \in ClientType :
           /\ Sends(At(phase, blocks, n), out', s) /\ s.pieces = n - Owed + One(up.lost)
           /\ ~conv'.done => s.phase = PhaseAt(count') /\ s.blocks = BlocksOf(conv')
           /\ conv'.done => s.phase = "stopped" /\ AllShut(s.blocks)
<1>1. /\ ClaudeTypeOK /\ Counted /\ Followed /\ count \in Nat /\ up.sent \in Nat
  BY DEF ClaudeInv, ClaudeTypeOK, UpType, Followed
<1>2. CASE held = <<>>
  <2>1. conv' = conv /\ count' = count /\ out' = <<>>  BY <1>2 DEF SendHeld
  <2>2. Agrees(ClientNow)  BY <1>1, Settled
  <2>3. /\ ClientNow.phase = phase /\ ClientNow.blocks = blocks
        /\ phase \in {"before", "open", "delta", "stopped"}
        /\ blocks \in [Index -> BlockKinds \cup {"unused", "closed"}]
    BY <1>1, ClientFields
  <2> DEFINE s == At(phase, blocks, n)
  <2>4. s \in ClientType /\ s.phase = phase /\ s.blocks = blocks /\ s.pieces = n  BY <2>3 DEF At, ClientType
  <2>5. Sends(At(phase, blocks, n), out', s)  BY <2>1, <2>4, SendsNone
  <2> HIDE DEF s
  <2>6. n - Owed + One(up.lost) = n
    <3> DEFINE b == One(up.lost)
    <3>1. b \in Int /\ Owed = b  BY <1>2 DEF Owed, One
    <3> HIDE DEF b
    <3>2. n - Owed + b = n  BY <3>1
    <3> QED BY <3>2 DEF b
  <2> QED BY <2>1, <2>2, <2>3, <2>4, <2>5, <2>6 DEF Agrees, PhaseAt
<1>3. CASE held # <<>>
  <2>1. Ready  BY <1>3 DEF Ready
  <2>2. count' = count + 1 /\ Brings(out', conv', n, n - Owed + One(up.lost))  BY <2>1, SentOn
  <2>3. PICK s \in ClientType :
          /\ Sends(At(phase, blocks, n), out', s) /\ Reached(s, conv') /\ s.pieces = n - Owed + One(up.lost)
    BY <2>2 DEF Brings
  <2>4. PhaseAt(count') = "open"  BY <1>1, <2>2 DEF PhaseAt
  <2> QED BY <2>3, <2>4 DEF Reached
<1> QED BY <1>2, <1>3

\* Receive keeps the invariant if the new chunk is one that may be held back.
LEMMA ReceiveInv ==
  ASSUME ClaudeInv, NEW x \in ChunkType, Len(x.tools) <= 2, NEW u \in UpType, Receive(x, u),
         u.sent = up.sent, u.cut = up.cut, up.odd => u.odd,
         u.stage # "first", u.stage \in {"words", "tools"} => up.sent < MaxChunks,
         u.stage = "usage" => u.usage \in {"separate", "every"},
         ~u.odd => HeldBack(x)' /\ (u.lost /\ ~x.finish <=> up.lost)
  PROVE  ClaudeInv'
<1>1. /\ SendHeld /\ out = <<>> /\ ~ended /\ ended' = ended /\ ~up.cut /\ held' = <<x>>
      /\ phase' = phase /\ blocks' = blocks /\ pieces' = pieces + Pieces(x)
      /\ up' = [u EXCEPT !.sent = @ + 1]
  BY DEF Receive, client
<1>2. /\ ClaudeTypeOK /\ Counted /\ count \in Nat /\ up.sent \in Nat /\ ended \in BOOLEAN
  BY DEF ClaudeInv, ClaudeTypeOK, UpType
<1>3. /\ conv' \in ConvType /\ out' \in Seq(EventType) /\ count' \in Nat
      /\ count' = IF held = <<>> THEN count ELSE count + 1
  BY <1>1, SentTyped
<1>4. /\ up' \in UpType /\ up'.sent = up.sent + 1 /\ up'.stage = u.stage /\ up'.usage = u.usage /\ up'.cut = u.cut
      /\ up'.odd = u.odd /\ up'.lost = u.lost
  <2> DEFINE v == up.sent + 1
  <2>1. v \in Nat /\ up' = [u EXCEPT !.sent = v]  BY <1>1, <1>2
  <2> HIDE DEF v
  <2>2. up' \in UpType  BY <2>1 DEF UpType
  <2>3. up'.sent = v /\ up'.stage = u.stage /\ up'.usage = u.usage /\ up'.cut = u.cut
        /\ up'.odd = u.odd /\ up'.lost = u.lost
    BY <2>1 DEF UpType
  <2> QED BY <2>2, <2>3 DEF v
<1>5. held' \in Seq(ChunkType) /\ Len(held') <= 1 /\ held' # <<>> /\ held'[1] = x  BY <1>1
<1>6. pieces \in Int /\ Pieces(x) \in Nat /\ pieces + Pieces(x) \in Int
  <2>1. pieces \in Int /\ Pieces(x) \in Nat  BY <1>2, ClientFields, PiecesType
  <2> QED BY <2>1
<1>7. ClaudeTypeOK'
  <2>1. /\ phase \in {"before", "open", "delta", "stopped"}
        /\ blocks \in [Index -> BlockKinds \cup {"unused", "closed"}]
    BY <1>2, ClientFields
  <2>2. [phase |-> phase, blocks |-> blocks, pieces |-> pieces]' \in ClientType  BY <1>1, <1>6, <2>1 DEF ClientType
  <2> QED BY <1>1, <1>2, <1>3, <1>4, <1>5, <2>2 DEF ClaudeTypeOK
<1>8. Counted'
  <2>1. held = <<>> <=> up.sent = 0  BY <1>1, <1>2 DEF Counted
  <2>2. count' = up.sent  BY <1>2, <1>3, <2>1 DEF Counted
  <2>3. up'.sent # 0 /\ up'.sent - 1 = up.sent /\ (up.sent < MaxChunks => up'.sent <= MaxChunks)
    BY <1>2, <1>4
  <2> QED BY <1>1, <1>4, <1>5, <2>2, <2>3 DEF Counted
<1>9. ASSUME Followed'
      PROVE  (~ended /\ held # <<>> => HeldBack(held[1]))' /\ Agreed'
  <2>1. ~u.odd /\ ~up.odd  BY <1>4, <1>9 DEF Followed
  <2>2. HeldBack(x)' /\ (u.lost /\ ~x.finish <=> up.lost)  BY <2>1
  <2>3. (~ended /\ held # <<>> => HeldBack(held[1]))'  BY <1>5, <2>2
  <2> DEFINE n == pieces + Pieces(x)
  <2>a. n \in Int  BY <1>6
  <2> HIDE DEF n
  <2>4. PICK s \in ClientType :
          /\ Sends(At(phase, blocks, n), out', s) /\ s.pieces = n - Owed + One(up.lost)
          /\ ~conv'.done => s.phase = PhaseAt(count') /\ s.blocks = BlocksOf(conv')
          /\ conv'.done => s.phase = "stopped" /\ AllShut(s.blocks)
    BY <1>1, <2>1, <2>a, SentAgreed
  <2>5. pieces = Owed
    <3>1. Followed  BY <1>1, <2>1 DEF Followed
    <3>2. Agrees(ClientNow)  BY <1>1, <3>1, Settled
    <3> QED BY <1>2, <3>2, ClientFields DEF Agrees
  <2>6. s.pieces = Owed'
    <3>1. Owed' = Pieces(x) + One(u.lost /\ ~x.finish)  BY <1>4, <1>5 DEF Owed
    <3>2. One(u.lost /\ ~x.finish) = One(up.lost) /\ One(up.lost) \in Int  BY <2>2 DEF One
    <3> DEFINE a == Pieces(x)
               b == One(up.lost)
    <3>3. a \in Int /\ b \in Int /\ s.pieces = n - pieces + b /\ n = pieces + a /\ pieces \in Int /\ Owed' = a + b
      BY <1>6, <2>4, <2>5, <3>1, <3>2 DEF n
    <3> HIDE DEF a, b
    <3> QED BY <3>3
  <2>7. ~ended' /\ ~up'.cut  BY <1>1, <1>4
  <2>8. Agrees(s)'  BY <2>4, <2>6, <2>7 DEF Agrees, PhaseAt
  <2>9. ClientNow' = At(phase, blocks, n)  BY <1>1 DEF ClientNow, At, n
  <2>10. Sends(ClientNow', out', s)  BY <2>4, <2>9
  <2>11. Agreed'  BY <2>8, <2>10 DEF Agreed
  <2> QED BY <2>3, <2>11
<1> QED BY <1>3, <1>7, <1>8, <1>9 DEF ClaudeInv

\* The chunk the upstream's chunks are made from.
LEMMA ChunkFields ==
  /\ Chunk \in ChunkType /\ Chunk.choices /\ ~Chunk.think /\ ~Chunk.text /\ Chunk.tools = <<>>
  /\ ~Chunk.finish
<1> DEFINE v == (up.usage = "every")
<1>1. v \in BOOLEAN  OBVIOUS
<1>2. <<>> \in Seq(ToolType)  OBVIOUS
<1>3. NoChunk \in ChunkType  BY <1>2 DEF NoChunk, ChunkType
<1>4. Chunk = [NoChunk EXCEPT !.choices = TRUE, !.usage = v]  BY DEF Chunk
<1> HIDE DEF v
<1>5. [NoChunk EXCEPT !.choices = TRUE, !.usage = v] \in ChunkType  BY <1>1, <1>3 DEF ChunkType
<1> QED BY <1>4, <1>5 DEF NoChunk

\* What the invariant says of the upstream.
LEMMA Streaming ==
  ASSUME ClaudeInv, NEW x, NEW u, Receive(x, u)
  PROVE  /\ up \in UpType /\ up.sent \in Nat /\ up.tools \in 0 .. MaxTools /\ ~up.cut
         /\ up.stage = "first" => up.tools = 0
         /\ up.stage = "first" <=> up.sent = 0
         /\ up.stage \in {"first", "words", "tools"} => up.sent <= MaxChunks
<1>1. ClaudeTypeOK /\ Counted /\ ~up.cut  BY DEF ClaudeInv, Receive
<1>2. up \in UpType /\ up.sent \in Nat /\ up.tools \in 0 .. MaxTools  BY <1>1 DEF ClaudeTypeOK, UpType
<1>3. up.stage = "first" <=> up.sent = 0  BY <1>1 DEF Counted
<1>4. up.stage = "first" => up.tools = 0  BY <1>1 DEF Counted
<1>5. up.stage \in {"words", "tools"} => up.sent <= MaxChunks  BY <1>1 DEF Counted
<1> QED BY <1>1, <1>2, <1>3, <1>4, <1>5

\* What Receive makes of the upstream.
LEMMA UpAfter ==
  ASSUME NEW x, NEW u \in UpType, Receive(x, u)
  PROVE  up'.stage = u.stage /\ up'.tools = u.tools /\ up'.usage = u.usage /\ up'.lost = u.lost
BY DEF UpType, Receive

\* A chunk with text, reasoning or neither keeps the invariant.
LEMMA PlainReceived ==
  ASSUME ClaudeInv, up.stage \in {"first", "words", "tools"}, up.sent < MaxChunks,
         NEW x \in ChunkType, PlainChunk(x), NEW u, u = [up EXCEPT !.stage = "words"], Receive(x, u)
  PROVE  ClaudeInv'
<1>1. /\ up \in UpType /\ up.sent \in Nat /\ up.tools \in 0 .. MaxTools
      /\ up.stage = "first" => up.tools = 0
      /\ up.stage = "first" <=> up.sent = 0
  BY Streaming
<1>2. u \in UpType /\ u.stage = "words" /\ u.tools = up.tools /\ u.sent = up.sent /\ u.cut = up.cut
      /\ u.odd = up.odd /\ u.lost = up.lost
  BY <1>1 DEF UpType
<1>3. up'.stage = "words" /\ up'.tools = up.tools /\ up'.lost = up.lost  BY <1>2, UpAfter
<1>4. Len(x.tools) <= 2 /\ ~x.finish  BY DEF PlainChunk
<1>5. ASSUME ~u.odd
      PROVE  HeldBack(x)' /\ (u.lost /\ ~x.finish <=> up.lost)
  <2>1. ~up.odd  BY <1>2, <1>5
  <2>2. /\ conv' \in ConvType /\ count' = up.sent
        /\ ~conv'.done /\ ~up.lost /\ NextFree(conv') <= count' + up.tools
        /\ up.stage \in {"first", "words"} => (up.tools = 0 => HasTools(conv', 0))
        /\ up.stage = "tools" => HasTools(conv', up.tools)
    BY <2>1, Received
  <2>3. (up.tools = 0 => HasTools(conv', 0)) /\ (count' = 0 => up.tools = 0)  BY <1>1, <2>2
  <2>4. HeldBack(x)'  BY <1>3, <2>2, <2>3 DEF HeldBack
  <2> QED BY <1>2, <1>4, <2>2, <2>4
<1> QED BY <1>2, <1>4, <1>5, ReceiveInv

\* The first chunk of most upstreams, with the role only.
LEMMA SendRoleInv ==
  ASSUME ClaudeInv, SendRole
  PROVE  ClaudeInv'
<1>1. PICK x : x = Chunk  OBVIOUS
<1>2. x \in ChunkType /\ PlainChunk(x)  BY <1>1, ChunkFields DEF PlainChunk
<1>3. PICK u : u = [up EXCEPT !.stage = "words"]  OBVIOUS
<1>4. up.stage = "first" /\ Receive(x, u)  BY <1>1, <1>3 DEF SendRole
<1>5. up.sent = 0 /\ 0 < MaxChunks  BY <1>4, Streaming
<1> QED BY <1>2, <1>3, <1>4, <1>5, PlainReceived

\* A chunk with text or reasoning.
LEMMA SendWordsInv ==
  ASSUME ClaudeInv, SendWords
  PROVE  ClaudeInv'
<1>0. up.stage \in {"first", "words", "tools"} /\ up.sent < MaxChunks  BY DEF SendWords
<1>u. PICK u : u = [up EXCEPT !.stage = "words"]  OBVIOUS
<1>1. CASE Receive([Chunk EXCEPT !.text = TRUE], [up EXCEPT !.stage = "words"])
  <2>1. PICK x : x = [Chunk EXCEPT !.text = TRUE]  OBVIOUS
  <2>2. x \in ChunkType /\ PlainChunk(x)  BY <2>1, ChunkFields DEF PlainChunk, ChunkType
  <2>3. Receive(x, u)  BY <1>u, <1>1, <2>1
  <2> QED BY <1>0, <1>u, <2>2, <2>3, PlainReceived
<1>2. CASE Receive([Chunk EXCEPT !.think = TRUE], [up EXCEPT !.stage = "words"])
  <2>1. PICK x : x = [Chunk EXCEPT !.think = TRUE]  OBVIOUS
  <2>2. x \in ChunkType /\ PlainChunk(x)  BY <2>1, ChunkFields DEF PlainChunk, ChunkType
  <2>3. Receive(x, u)  BY <1>u, <1>2, <2>1
  <2> QED BY <1>0, <1>u, <2>2, <2>3, PlainReceived
<1> QED BY <1>1, <1>2 DEF SendWords

\* A chunk with tool calls keeps the invariant.
LEMMA ToolsReceived ==
  ASSUME ClaudeInv, up.stage \in {"first", "words", "tools"}, up.sent < MaxChunks, NEW x \in ChunkType,
         Len(x.tools) <= 2, NEW n \in 0 .. MaxTools, up.tools <= n, ToolChunk(x, up.tools, n), NEW odd \in BOOLEAN,
         up.stage = "first" /\ ~odd => n = 1,
         NEW u, u = WithTools(n, odd), Receive(x, u)
  PROVE  ClaudeInv'
<1>1. /\ up \in UpType /\ up.sent \in Nat /\ up.tools \in 0 .. MaxTools
      /\ up.stage = "first" => up.tools = 0
      /\ up.stage = "first" <=> up.sent = 0
  BY Streaming
<1> DEFINE w == up.odd \/ odd \/ (up.stage = "words" /\ up.tools > 0)
<1>2. u \in UpType /\ u.stage = "tools" /\ u.tools = n /\ u.sent = up.sent /\ u.cut = up.cut
      /\ u.odd = w /\ u.lost = up.lost
  <2>1. w \in BOOLEAN  BY <1>1 DEF UpType
  <2>2. u = [up EXCEPT !.stage = "tools", !.tools = n, !.odd = w]  BY DEF WithTools
  <2> HIDE DEF w
  <2> QED BY <1>1, <2>1, <2>2 DEF UpType
<1>3. up'.stage = "tools" /\ up'.tools = n /\ up'.lost = up.lost  BY <1>2, UpAfter
<1>4. ~x.finish  BY DEF ToolChunk
<1>5. ASSUME ~u.odd
      PROVE  HeldBack(x)' /\ (u.lost /\ ~x.finish <=> up.lost)
  <2>1. ~up.odd /\ ~odd /\ ~(up.stage = "words" /\ up.tools > 0)  BY <1>2, <1>5
  <2>2. /\ conv' \in ConvType /\ count' = up.sent
        /\ ~conv'.done /\ ~up.lost /\ NextFree(conv') <= count' + up.tools
        /\ up.stage \in {"first", "words"} => (up.tools = 0 => HasTools(conv', 0))
        /\ up.stage = "tools" => HasTools(conv', up.tools)
    BY <2>1, Received
  <2>3. HasTools(conv', up.tools)
    <3>1. CASE up.stage = "tools"  BY <2>2, <3>1
    <3>2. CASE up.stage # "tools"
      <4>1. up.tools = 0  BY <1>1, <2>1, <3>2
      <4> QED BY <2>2, <3>2, <4>1
    <3> QED BY <3>1, <3>2
  <2>4. count' = 0 => up.tools = 0 /\ n = 1  BY <1>1, <2>1, <2>2
  <2>5. PICK m : m = up.tools  OBVIOUS
  <2>6. /\ m \in 0 .. n /\ ToolChunk(x, m, n) /\ HasTools(conv', m) /\ NextFree(conv') <= count' + m
        /\ count' = 0 => m = 0 /\ n = 1
    BY <1>1, <2>2, <2>3, <2>4, <2>5
  <2>7. HeldBack(x)'  BY <1>3, <2>2, <2>6 DEF HeldBack
  <2> QED BY <1>2, <1>4, <2>2, <2>7
<1>6. up.odd => u.odd  BY <1>2
<1> QED BY <1>2, <1>4, <1>5, <1>6, ReceiveInv

\* A chunk with a list of tool calls and nothing else.
LEMMA OnlyTools ==
  ASSUME NEW y \in Seq(ToolType), NEW x, x = [Chunk EXCEPT !.tools = y]
  PROVE  x \in ChunkType /\ x.choices /\ ~x.finish /\ ~x.think /\ ~x.text /\ x.tools = y
BY ChunkFields DEF ChunkType

\* Their lengths.
LEMMA ShortLens == \A a, b : Len(<<a>>) <= 2 /\ Len(<<a, b>>) <= 2
OBVIOUS

\* A chunk with one new tool call, two new ones, or more arguments of an old one.
LEMMA SendToolsInv ==
  ASSUME ClaudeInv, SendTools
  PROVE  ClaudeInv'
<1>0. up.stage \in {"first", "words", "tools"} /\ up.sent < MaxChunks  BY DEF SendTools
<1>1. up.tools \in 0 .. MaxTools /\ (up.stage = "first" => up.tools = 0)
  BY DEF ClaudeInv, ClaudeTypeOK, UpType, Counted
<1>2. PICK m : m = up.tools  OBVIOUS
<1>3. m \in Nat /\ m <= MaxTools  BY <1>1, <1>2
<1>4. CASE up.tools < MaxTools
           /\ Receive([Chunk EXCEPT !.tools = <<Tool(up.tools, TRUE)>>], WithTools(up.tools + 1, FALSE))
  <2>1. PICK y : y = <<Tool(m, TRUE)>>  OBVIOUS
  <2>2. y \in Seq(ToolType) /\ Len(y) <= 2
    <3>1. Tool(m, TRUE) \in ToolType  BY <1>3, ToolFields
    <3>2. <<Tool(m, TRUE)>> \in Seq(ToolType)  BY <3>1, ShortSeqs
    <3> QED BY <2>1, <3>2, ShortLens, Zenon
  <2>3. PICK x : x = [Chunk EXCEPT !.tools = y]  OBVIOUS
  <2>4. x \in ChunkType /\ x.choices /\ ~x.finish /\ ~x.think /\ ~x.text /\ x.tools = y  BY <2>2, <2>3, OnlyTools
  <2>5. NextTool(x.tools, m)  BY <2>1, <2>4 DEF NextTool
  <2>6. PICK p : p = m + 1  OBVIOUS
  <2>7. ToolChunk(x, m, p)  BY <2>4, <2>5, <2>6 DEF ToolChunk
  <2>a. PICK odd : odd = FALSE  OBVIOUS
  <2>b. PICK u : u = WithTools(p, odd)  OBVIOUS
  <2>8. Receive(x, u)  BY <1>2, <1>4, <2>1, <2>3, <2>6, <2>a, <2>b
  <2>9. p \in 0 .. MaxTools /\ up.tools <= p /\ (up.stage = "first" => p = 1)
    BY <1>1, <1>2, <1>3, <1>4, <2>6
  <2>c. odd \in BOOLEAN  BY <2>a, Zenon
  <2>10. Len(x.tools) <= 2 /\ ToolChunk(x, up.tools, p)  BY <1>2, <2>2, <2>4, <2>7
  <2> QED BY <1>0, <2>4, <2>8, <2>9, <2>10, <2>b, <2>c, ToolsReceived
<1>5. CASE up.tools + 1 < MaxTools
           /\ Receive([Chunk EXCEPT !.tools = <<Tool(up.tools, TRUE), Tool(up.tools + 1, TRUE)>>],
                      WithTools(up.tools + 2, up.stage = "first"))
  <2>1. PICK y : y = <<Tool(m, TRUE), Tool(m + 1, TRUE)>>  OBVIOUS
  <2>2. y \in Seq(ToolType) /\ Len(y) <= 2
    <3>1. Tool(m, TRUE) \in ToolType  BY <1>3, ToolFields
    <3>2. m + 1 \in Nat  BY <1>3
    <3>3. Tool(m + 1, TRUE) \in ToolType  BY <3>2, ToolFields
    <3>4. <<Tool(m, TRUE), Tool(m + 1, TRUE)>> \in Seq(ToolType)  BY <3>1, <3>3, ShortSeqs
    <3> QED BY <2>1, <3>4, ShortLens, Zenon
  <2>3. PICK x : x = [Chunk EXCEPT !.tools = y]  OBVIOUS
  <2>4. x \in ChunkType /\ x.choices /\ ~x.finish /\ ~x.think /\ ~x.text /\ x.tools = y  BY <2>2, <2>3, OnlyTools
  <2>5. NextTools(x.tools, m)  BY <2>1, <2>4 DEF NextTools
  <2>6. PICK p : p = m + 2  OBVIOUS
  <2>7. ToolChunk(x, m, p)  BY <2>4, <2>5, <2>6 DEF ToolChunk
  <2>a. PICK odd : odd = (up.stage = "first")  OBVIOUS
  <2>b. PICK u : u = WithTools(p, odd)  OBVIOUS
  <2>8. Receive(x, u)  BY <1>2, <1>5, <2>1, <2>3, <2>6, <2>a, <2>b
  <2>9. p \in 0 .. MaxTools /\ up.tools <= p  BY <1>1, <1>2, <1>3, <1>5, <2>6
  <2>c. odd \in BOOLEAN /\ (up.stage = "first" => odd)  BY <2>a, Zenon
  <2>10. Len(x.tools) <= 2 /\ ToolChunk(x, up.tools, p)  BY <1>2, <2>2, <2>4, <2>7
  <2> QED BY <1>0, <2>4, <2>8, <2>9, <2>10, <2>b, <2>c, ToolsReceived
<1>6. ASSUME NEW off \in 0 .. up.tools - 1,
             Receive([Chunk EXCEPT !.tools = <<Tool(off, FALSE)>>], WithTools(up.tools, FALSE))
      PROVE  ClaudeInv'
  <2>1. PICK y : y = <<Tool(off, FALSE)>>  OBVIOUS
  <2>2. y \in Seq(ToolType) /\ Len(y) <= 2
    <3>1. off \in Nat /\ FALSE \in BOOLEAN  BY <1>1
    <3>2. Tool(off, FALSE) \in ToolType  BY <3>1, ToolFields
    <3>3. <<Tool(off, FALSE)>> \in Seq(ToolType)  BY <3>2, ShortSeqs
    <3> QED BY <2>1, <3>3, ShortLens, Zenon
  <2>3. PICK x : x = [Chunk EXCEPT !.tools = y]  OBVIOUS
  <2>4. x \in ChunkType /\ x.choices /\ ~x.finish /\ ~x.think /\ ~x.text /\ x.tools = y  BY <2>2, <2>3, OnlyTools
  <2>5. MoreArgs(x.tools, off) /\ off \in 0 .. m - 1  BY <1>2, <2>1, <2>4 DEF MoreArgs
  <2>7. ToolChunk(x, m, m)  BY <2>4, <2>5 DEF ToolChunk
  <2>a. PICK odd : odd = FALSE  OBVIOUS
  <2>b. PICK u : u = WithTools(m, odd)  OBVIOUS
  <2>8. Receive(x, u)  BY <1>2, <1>6, <2>1, <2>3, <2>a, <2>b
  <2>9. m \in 0 .. MaxTools /\ up.tools <= m /\ up.stage # "first"  BY <1>1, <1>2, <1>3, <2>5
  <2>c. odd \in BOOLEAN  BY <2>a, Zenon
  <2>10. Len(x.tools) <= 2 /\ ToolChunk(x, up.tools, m)  BY <1>2, <2>2, <2>4, <2>7
  <2> QED BY <1>0, <2>4, <2>8, <2>9, <2>10, <2>b, <2>c, ToolsReceived
<1> QED BY <1>4, <1>5, <1>6 DEF SendTools

\* The chunk with the finish reason.
LEMMA SendFinishInv ==
  ASSUME ClaudeInv, SendFinish
  PROVE  ClaudeInv'
<1>0. up.stage \in {"first", "words", "tools"}  BY DEF SendFinish
<1>4. PICK v : v = (up.usage \in {"with_finish", "every"})  OBVIOUS
<1>5. v \in BOOLEAN  BY <1>4
<1>8. PICK stage : stage = IF up.usage \in {"separate", "every"} THEN "usage" ELSE "end"  OBVIOUS
<1>3. PICK text \in BOOLEAN :
        Receive([Chunk EXCEPT !.finish = TRUE, !.text = text, !.usage = v],
                [up EXCEPT !.stage = stage, !.odd = @ \/ up.stage = "first", !.lost = text /\ ~v])
  BY <1>4, <1>8, Zenon DEF SendFinish
<1>6. PICK x : x = [Chunk EXCEPT !.finish = TRUE, !.text = text, !.usage = v]  OBVIOUS
<1>7. /\ x \in ChunkType /\ x.choices /\ x.finish /\ x.tools = <<>> /\ ~x.think /\ x.text = text /\ x.usage = v
  <2>1. x \in ChunkType  BY <1>5, <1>6, ChunkFields DEF ChunkType
  <2> QED BY <2>1, <1>6, ChunkFields DEF ChunkType
<1>a. PICK odd : odd = (up.odd \/ up.stage = "first")  OBVIOUS
<1>b. PICK lost : lost = (text /\ ~v)  OBVIOUS
<1>9. PICK u : u = [up EXCEPT !.stage = stage, !.odd = odd, !.lost = lost]  OBVIOUS
<1>10. Receive(x, u)  BY <1>3, <1>6, <1>9, <1>a, <1>b
<1>1. /\ up \in UpType /\ up.sent \in Nat /\ up.tools \in 0 .. MaxTools
      /\ up.stage = "first" <=> up.sent = 0
      /\ up.sent <= MaxChunks
  BY <1>0, <1>10, Streaming
<1>2. /\ u \in UpType /\ u.stage = stage /\ u.tools = up.tools /\ u.sent = up.sent /\ u.cut = up.cut
      /\ u.odd = odd /\ u.lost = lost /\ u.usage = up.usage
  <2>1. odd \in BOOLEAN /\ lost \in BOOLEAN /\ stage \in {"usage", "end"}  BY <1>1, <1>8, <1>a, <1>b DEF UpType
  <2> QED BY <1>1, <1>9, <2>1 DEF UpType
<1>11. up'.stage = stage /\ up'.usage = up.usage /\ up'.lost = lost  BY <1>2, <1>10, UpAfter
<1>12. ASSUME ~u.odd
       PROVE  HeldBack(x)' /\ (u.lost /\ ~x.finish <=> up.lost)
  <2>1. ~up.odd /\ up.stage # "first"  BY <1>2, <1>12, <1>a
  <2>2. conv' \in ConvType /\ count' = up.sent /\ ~conv'.done /\ ~up.lost /\ NextFree(conv') <= count' + up.tools
    BY <1>0, <1>10, <2>1, Received
  <2>3. NextFree(conv') \in Nat  BY <2>2, Places
  <2>4. NextFree(conv') < MaxBlocks /\ count' # 0  BY <1>1, <2>1, <2>2, <2>3
  <2>5. FinishChunk(x)  BY <1>7 DEF FinishChunk
  <2>6. lost <=> x.text /\ ~x.usage  BY <1>7, <1>b, Zenon
  <2>7. /\ stage = "usage" => up'.usage \in {"separate", "every"} /\ (x.usage <=> up'.usage = "every")
        /\ stage = "end" => up'.usage \notin {"separate", "every"} /\ (x.usage <=> up'.usage = "with_finish")
        /\ stage # "words" /\ stage # "tools"
    <3> DEFINE w == up.usage
    <3>a. x.usage <=> v  BY <1>7, Zenon
    <3>b. v <=> w = "with_finish" \/ w = "every"  BY <1>4, Zenon
    <3>1. x.usage <=> w = "with_finish" \/ w = "every"  BY <3>a, <3>b
    <3>2. stage = IF w \in {"separate", "every"} THEN "usage" ELSE "end"  BY <1>8
    <3>3. up'.usage = w  BY <1>11
    <3> HIDE DEF w
    <3> QED BY <3>1, <3>2, <3>3
  <2>8. HeldBack(x)'  BY <1>11, <2>2, <2>4, <2>5, <2>6, <2>7 DEF HeldBack
  <2> QED BY <1>7, <2>2, <2>8
<1>13. /\ u.stage \notin {"first", "words", "tools"} /\ (u.stage = "usage" => u.usage \in {"separate", "every"})
       /\ up.odd => u.odd
  BY <1>2, <1>8, <1>a
<1>14. Len(x.tools) <= 2  BY <1>7
<1> QED BY <1>2, <1>7, <1>10, <1>12, <1>13, <1>14, ReceiveInv

\* The chunk with the usage, the last one.
LEMMA SendUsageInv ==
  ASSUME ClaudeInv, SendUsage
  PROVE  ClaudeInv'
<1>3. PICK x : x = [NoChunk EXCEPT !.usage = TRUE]  OBVIOUS
<1>4. x \in ChunkType /\ UsageChunk(x)
  <2>1. <<>> \in Seq(ToolType)  OBVIOUS
  <2>2. NoChunk \in ChunkType  BY <2>1 DEF NoChunk, ChunkType
  <2>3. x \in ChunkType  BY <1>3, <2>2 DEF ChunkType
  <2>4. /\ NoChunk.choices = FALSE /\ NoChunk.finish = FALSE /\ NoChunk.tools = <<>> /\ NoChunk.think = FALSE
        /\ NoChunk.text = FALSE
    BY DEF NoChunk
  <2>5. UsageChunk(x)  BY <1>3, <2>2, <2>4 DEF UsageChunk, ChunkType
  <2> QED BY <2>3, <2>5
<1>5. PICK u : u = [up EXCEPT !.stage = "end"]  OBVIOUS
<1>6. up.stage = "usage" /\ Receive(x, u)  BY <1>3, <1>5 DEF SendUsage
<1>1. up \in UpType /\ up.sent \in Nat /\ up.sent # 0  BY <1>6, Streaming
<1>2. up.usage \in {"separate", "every"}  BY <1>6 DEF ClaudeInv, Counted
<1>7. /\ u \in UpType /\ u.stage = "end" /\ u.sent = up.sent /\ u.cut = up.cut /\ u.odd = up.odd
      /\ u.lost = up.lost /\ u.usage = up.usage
  BY <1>1, <1>5 DEF UpType
<1>8. up'.stage = "end" /\ up'.usage = up.usage  BY <1>6, <1>7, UpAfter
<1>9. ASSUME ~u.odd
      PROVE  HeldBack(x)' /\ (u.lost /\ ~x.finish <=> up.lost)
  <2>1. ~up.odd  BY <1>7, <1>9
  <2>2. count' = up.sent /\ (conv'.done <=> up.usage = "every") /\ NextFree(conv') <= MaxBlocks
    BY <1>6, <2>1, Received
  <2>3. HeldBack(x)'  BY <1>1, <1>2, <1>4, <1>8, <2>2 DEF HeldBack
  <2>4. ~x.finish  BY <1>4 DEF UsageChunk
  <2> QED BY <1>7, <2>3, <2>4
<1>10. Len(x.tools) <= 2  BY <1>4 DEF UsageChunk
<1> QED BY <1>4, <1>6, <1>7, <1>9, <1>10, ReceiveInv

\* The body ends within a line: the chunk before it is sent on, and what was lost stays lost.
LEMMA ReceiveRestInv ==
  ASSUME ClaudeInv, ReceiveRest
  PROVE  ClaudeInv'
<1>1. /\ SendHeld /\ out = <<>> /\ ~ended /\ ended' = ended /\ ~up.cut /\ held' = <<>>
      /\ phase' = phase /\ blocks' = blocks /\ pieces' = pieces
      /\ up' = [up EXCEPT !.cut = TRUE, !.sent = @ + 1]
  BY DEF ReceiveRest, client
<1>2. /\ ClaudeTypeOK /\ Counted /\ count \in Nat /\ up \in UpType /\ up.sent \in Nat /\ ended \in BOOLEAN
  BY DEF ClaudeInv, ClaudeTypeOK, UpType
<1>3. /\ conv' \in ConvType /\ out' \in Seq(EventType) /\ count' \in Nat
      /\ count' = IF held = <<>> THEN count ELSE count + 1
  BY <1>1, SentTyped
<1>4. /\ up' \in UpType /\ up'.sent = up.sent + 1 /\ up'.stage = up.stage /\ up'.usage = up.usage /\ up'.cut
      /\ up'.odd = up.odd /\ up'.lost = up.lost /\ up'.tools = up.tools
  <2> DEFINE v == up.sent + 1
  <2>1. v \in Nat /\ up' = [up EXCEPT !.cut = TRUE, !.sent = v]  BY <1>1, <1>2
  <2> HIDE DEF v
  <2>2. up' \in UpType  BY <1>2, <2>1 DEF UpType
  <2>3. /\ up'.sent = v /\ up'.stage = up.stage /\ up'.usage = up.usage /\ up'.cut
        /\ up'.odd = up.odd /\ up'.lost = up.lost /\ up'.tools = up.tools
    BY <1>2, <2>1 DEF UpType
  <2> QED BY <2>2, <2>3 DEF v
<1>5. ClaudeTypeOK'
  <2>1. held' \in Seq(ChunkType) /\ Len(held') <= 1  BY <1>1
  <2>2. [phase |-> phase, blocks |-> blocks, pieces |-> pieces]' \in ClientType  BY <1>1, <1>2 DEF ClaudeTypeOK
  <2> QED BY <1>1, <1>2, <1>3, <1>4, <2>1, <2>2 DEF ClaudeTypeOK
<1>6. held = <<>> <=> up.stage = "first"  BY <1>1, <1>2 DEF Counted
<1>7. Counted'
  <2>1. held = <<>> <=> up.sent = 0  BY <1>1, <1>2 DEF Counted
  <2>2. count' = up.sent /\ up'.sent # 0 /\ up'.sent - 1 = up.sent  BY <1>2, <1>3, <1>4, <2>1 DEF Counted
  <2>3. held = <<>> => conv' = conv  BY <1>1 DEF SendHeld
  <2>4. up.stage = "usage" => up.usage \in {"separate", "every"}  BY <1>2 DEF Counted
  <2>5. up.stage = "first" =>
          /\ up'.tools = 0 /\ count' = 0 /\ HasTools(conv', 0) /\ NextFree(conv') = 0 /\ ~conv'.done /\ ~up'.lost
    BY <1>2, <1>3, <1>4, <1>6, <2>3 DEF Counted
  <2> QED BY <1>1, <1>4, <2>2, <2>4, <2>5 DEF Counted
<1>8. ASSUME Followed'
      PROVE  Agreed'
  <2>1. ~up.odd  BY <1>4, <1>8 DEF Followed
  <2>a. pieces \in Int  BY <1>2, ClientFields
  <2>2. PICK s \in ClientType :
          /\ Sends(At(phase, blocks, pieces), out', s) /\ s.pieces = pieces - Owed + One(up.lost)
          /\ ~conv'.done => s.phase = PhaseAt(count') /\ s.blocks = BlocksOf(conv')
          /\ conv'.done => s.phase = "stopped" /\ AllShut(s.blocks)
    BY <1>1, <2>1, <2>a, SentAgreed
  <2>3. pieces = Owed
    <3>1. Followed  BY <1>1, <2>1 DEF Followed
    <3>2. Agrees(ClientNow)  BY <1>1, <3>1, Settled
    <3> QED BY <1>2, <3>2, ClientFields DEF Agrees
  <2>4. s.pieces = Owed'
    <3> DEFINE b == One(up.lost)
    <3>1. Owed' = b /\ b \in Int  BY <1>1, <1>4 DEF Owed, One
    <3>2. s.pieces = pieces - pieces + b  BY <2>2, <2>3
    <3> HIDE DEF b
    <3> QED BY <2>a, <3>1, <3>2
  <2>5. conv'.done <=> Finished
    <3>1. CASE held = <<>>
      <4>1. ~Finished  BY <1>6, <3>1 DEF Finished
      <4>2. ~conv'.done  BY <1>1, <1>2, <1>6, <3>1 DEF SendHeld, Counted
      <4> QED BY <4>1, <4>2
    <3>2. CASE held # <<>>
      <4>1. Ready  BY <1>1, <2>1, <3>2 DEF Ready
      <4> QED BY <1>1, <2>a, <4>1, SentOn
    <3> QED BY <3>1, <3>2
  <2>6. Finished' <=> Finished  BY <1>4 DEF Finished
  <2>7. ~ended'  BY <1>1
  <2>8. Agrees(s)'  BY <2>2, <2>4, <2>5, <2>6, <2>7 DEF Agrees, PhaseAt
  <2>9. Sends(ClientNow', out', s)  BY <1>1, <2>2 DEF ClientNow
  <2> QED BY <2>8, <2>9 DEF Agreed
<1> QED BY <1>1, <1>3, <1>5, <1>7, <1>8 DEF ClaudeInv

\* Sending an event: the client becomes what Applied says.
LEMMA Emitted ==
  ASSUME ClaudeInv, Emit
  PROVE  /\ ClientNow \in ClientType /\ Head(out) \in EventType
         /\ ClientNow' = Applied(ClientNow, Head(out)) /\ ClientNow' \in ClientType
         /\ last' = Head(out)
<1>1. ClientNow \in ClientType  BY ClientFields DEF ClaudeInv
<1>2. out # <<>> /\ last' = Head(out)  BY DEF Emit
<1>3. Head(out) \in EventType  BY <1>2 DEF ClaudeInv
<1>4. ClientNow' = Applied(ClientNow, Head(out))
  <2>1. ClientNow.phase = phase /\ ClientNow.blocks = blocks /\ ClientNow.pieces = pieces  BY DEF ClientNow, At
  <2>2. Applied(ClientNow, Head(out)) = At(phase', blocks', pieces')  BY <2>1 DEF Applied, Emit
  <2> QED BY <2>2 DEF ClientNow, At
<1>5. ClientNow' \in ClientType  BY <1>1, <1>3, <1>4, AppliedType
<1> QED BY <1>1, <1>2, <1>3, <1>4, <1>5

\* In a stream that is followed the event is allowed, and the rest may come after it.
LEMMA EmittedWell ==
  ASSUME ClaudeInv, Emit, Followed
  PROVE  Allowed(ClientNow, Head(out)) /\ Agreed'
<1>1. PICK s \in ClientType : Sends(ClientNow, out, s) /\ Agrees(s)  BY DEF ClaudeInv, Agreed
<1>2. out # <<>> /\ out' = Tail(out) /\ UNCHANGED <<up, held, count, conv, ended>>  BY DEF Emit
<1>3. Allowed(ClientNow, Head(out)) /\ Sends(Applied(ClientNow, Head(out)), Tail(out), s)  BY <1>1, <1>2, SendsFirst
<1>4. ClientNow' = Applied(ClientNow, Head(out))  BY Emitted
<1>5. Agrees(s)'  BY <1>1, <1>2 DEF Agrees, Owed, Finished
<1>6. Sends(ClientNow', out', s)  BY <1>2, <1>3, <1>4
<1> QED BY <1>3, <1>5, <1>6 DEF Agreed

\* Sending an event keeps the invariant.
LEMMA EmitInv ==
  ASSUME ClaudeInv, Emit
  PROVE  ClaudeInv'
<1>1. ClientNow' \in ClientType  BY Emitted
<1>2. UNCHANGED <<up, held, count, conv, ended>> /\ out' = Tail(out) /\ out # <<>>  BY DEF Emit
<1>3. [phase |-> phase, blocks |-> blocks, pieces |-> pieces]' \in ClientType  BY <1>1 DEF ClientNow, At
<1>4. ClaudeTypeOK'  BY <1>2, <1>3 DEF ClaudeInv, ClaudeTypeOK
<1>5. Counted'  BY <1>2 DEF ClaudeInv, Counted
<1>6. out' \in Seq(EventType)  BY <1>2 DEF ClaudeInv
<1>7. Followed' <=> Followed  BY <1>2 DEF Followed
<1>8. Followed => (~ended /\ held # <<>> => HeldBack(held[1]))'  BY <1>2 DEF ClaudeInv, HeldBack
<1>9. Followed => Agreed'  BY EmittedWell
<1> QED BY <1>4, <1>5, <1>6, <1>7, <1>8, <1>9 DEF ClaudeInv

\* The scanner has returned: the last chunk is converted, and the message has ended exactly if
\* the finish reason and the usage have come.
LEMMA HandleFinalResponseInv ==
  ASSUME ClaudeInv, HandleFinalResponse
  PROVE  ClaudeInv'
<1>1. /\ out = <<>> /\ ~ended /\ ended' = TRUE /\ held' = <<>>
      /\ up' = up /\ count' = count /\ pieces' = pieces /\ phase' = phase /\ blocks' = blocks
  BY DEF HandleFinalResponse, client
<1>2. /\ ClaudeTypeOK /\ Counted /\ count \in Nat /\ up.sent \in Nat /\ conv \in ConvType /\ held \in Seq(ChunkType)
  BY DEF ClaudeInv, ClaudeTypeOK, UpType
<1>3. ClientNow' = ClientNow /\ ClientNow = At(phase, blocks, pieces)  BY <1>1 DEF ClientNow
<1>4. /\ ClientNow \in ClientType /\ ClientNow.phase = phase /\ ClientNow.blocks = blocks /\ ClientNow.pieces = pieces
      /\ pieces \in Int
  BY <1>2, ClientFields
<1> DEFINE x == held[1]
           c == [conv EXCEPT !.usage = TRUE]
           r == Convert(x, c, count)
<1>5. /\ held = <<>> => conv' = conv /\ out' = out
      /\ held # <<>> => conv' = [r.c EXCEPT !.done = TRUE] /\ out' = r.evs
  BY DEF HandleFinalResponse
<1>6. held # <<>> => r.c \in ConvType /\ r.evs \in Seq(EventType)
  <2>1. SUFFICES ASSUME held # <<>>  PROVE  r.c \in ConvType /\ r.evs \in Seq(EventType)  OBVIOUS
  <2>2. x \in ChunkType /\ Len(x.tools) <= 2  BY <1>2, <2>1 DEF Counted
  <2>3. c \in ConvType  BY <1>2 DEF ConvType
  <2>4. r = Convert(x, c, count)  OBVIOUS
  <2> HIDE DEF x, c, r
  <2> QED BY <2>2, <2>3, <2>4, ConvertTyped
<1> HIDE DEF r
<1>7. conv' \in ConvType /\ out' \in Seq(EventType)
  <2>1. CASE held = <<>>  BY <1>2, <1>5, <2>1 DEF ClaudeInv
  <2>2. CASE held # <<>>
    <3> DEFINE d == r.c
    <3>1. d \in ConvType /\ conv' = [d EXCEPT !.done = TRUE]  BY <1>5, <1>6, <2>2
    <3> HIDE DEF d
    <3>2. conv' \in ConvType  BY <3>1 DEF ConvType
    <3> QED BY <1>5, <1>6, <2>2, <3>2
  <2> QED BY <2>1, <2>2
<1>8. ClaudeTypeOK'
  <2>1. held' \in Seq(ChunkType) /\ Len(held') <= 1 /\ ended' \in BOOLEAN  BY <1>1
  <2>2. [phase |-> phase, blocks |-> blocks, pieces |-> pieces]' \in ClientType  BY <1>1, <1>2 DEF ClaudeTypeOK
  <2> QED BY <1>1, <1>2, <1>7, <2>1, <2>2 DEF ClaudeTypeOK
<1>9. Counted'
  <2>1. up.stage = "first" => held = <<>>  BY <1>2 DEF Counted
  <2>2. up.stage = "first" =>
          up.tools = 0 /\ count = 0 /\ HasTools(conv', 0) /\ NextFree(conv') = 0 /\ ~conv'.done /\ ~up.lost
    BY <1>2, <1>5, <2>1 DEF Counted
  <2> QED BY <1>1, <1>2, <2>2 DEF Counted
<1>10. ASSUME Followed'
       PROVE  Agreed'
  <2>1. ~up.odd /\ count >= 2  BY <1>1, <1>10 DEF Followed
  <2>2. Followed  BY <1>1, <2>1 DEF Followed
  <2>3. Agrees(ClientNow)  BY <1>1, <2>2, Settled
  <2>4. pieces = Owed  BY <1>4, <2>3 DEF Agrees
  <2>5. Finished' <=> Finished  BY <1>1 DEF Finished
  <2>6. Owed' = One(up.lost) /\ One(up.lost) \in Int  BY <1>1 DEF Owed, One
  <2>7. ASSUME NEW s \in ClientType, Sends(ClientNow, out', s), s.pieces = One(up.lost),
               s.phase = "stopped" <=> Finished, Finished => AllShut(s.blocks)
        PROVE  Agreed'
    <3>1. Agrees(s)'  BY <1>1, <2>5, <2>6, <2>7 DEF Agrees
    <3>2. Sends(ClientNow', out', s)  BY <1>3, <2>7
    <3> QED BY <3>1, <3>2 DEF Agreed
  <2>8. CASE held = <<>>
    <3>1. up.cut  BY <1>1, <1>2, <2>1, <2>8 DEF Counted
    <3>2. conv.done <=> Finished  BY <1>1, <2>3, <3>1 DEF Agrees
    <3>3. Sends(ClientNow, out', ClientNow)  BY <1>1, <1>4, <1>5, <2>8, SendsNone
    <3>4. pieces = One(up.lost)  BY <2>4, <2>8 DEF Owed
    <3>5. (phase = "stopped" <=> conv.done) /\ (conv.done => AllShut(blocks))
      BY <1>1, <1>4, <2>3 DEF Agrees
    <3> QED BY <1>4, <2>7, <3>2, <3>3, <3>4, <3>5
  <2>9. CASE held # <<>>
    <3>1. Ready  BY <1>1, <2>1, <2>9 DEF Ready
    <3>2. Converts(x, TRUE, r)
      <4>1. count # 1 /\ count + 1 # 1  BY <1>2, <2>1
      <4>2. Convert(x, c, count) = Convert(x, c, count + 1)  BY <4>1 DEF Convert
      <4> QED BY <4>2 DEF Converts, r
    <3> HIDE DEF x, c
    <3>3. /\ r.c.done <=> Finished
          /\ Brings(r.evs, r.c, pieces, pieces - Pieces(x) + Lost(x))
          /\ Owed = Pieces(x) + One(up.lost) - Lost(x)
      BY <1>4, <3>1, <3>2, Converted
    <3>4. PICK s \in ClientType :
            Sends(At(phase, blocks, pieces), r.evs, s) /\ Reached(s, r.c) /\ s.pieces = pieces - Pieces(x) + Lost(x)
      BY <3>3 DEF Brings
    <3>5. s.pieces = One(up.lost)
      <4> DEFINE a == Pieces(x)
                 b == One(up.lost)
                 d == Lost(x)
      <4>1. a \in Int /\ b \in Int /\ d \in Int
        <5>1. Pieces(x) \in Nat  BY <3>1, Before DEF x
        <5> QED BY <2>6, <5>1 DEF Lost, One
      <4>2. s.pieces = pieces - a + d /\ pieces = a + b - d  BY <2>4, <3>3, <3>4
      <4> HIDE DEF a, b, d
      <4>3. s.pieces = b  BY <4>1, <4>2
      <4> QED BY <4>3 DEF b
    <3>6. Sends(ClientNow, out', s)  BY <1>3, <1>5, <2>9, <3>4
    <3>7. (s.phase = "stopped" <=> Finished) /\ (Finished => AllShut(s.blocks))  BY <3>3, <3>4 DEF Reached
    <3> QED BY <2>7, <3>5, <3>6, <3>7
  <2> QED BY <2>8, <2>9
<1> QED BY <1>1, <1>7, <1>8, <1>9, <1>10 DEF ClaudeInv

\* The invariant holds before the first chunk.
LEMMA ClaudeInitInv ==
  ASSUME Init
  PROVE  ClaudeInv
<1> DEFINE b == [i \in 0 .. MaxBlocks - 1 |-> "unused"]
<1>1. /\ up \in [stage : {"first"}, tools : {0}, sent : {0}, usage : Usages,
                 cut : {FALSE}, odd : {FALSE}, lost : {FALSE}]
      /\ held = <<>> /\ count = 0 /\ out = <<>> /\ ended = FALSE /\ pieces = 0 /\ phase = "before" /\ blocks = b
      /\ conv = [last |-> "none", idx |-> 0, base |-> 0, max |-> 0, usage |-> FALSE, done |-> FALSE]
  BY DEF Init
<1>2. conv \in ConvType /\ conv.last = "none" /\ conv.idx = 0 /\ conv.done = FALSE  BY <1>1 DEF ConvType
<1>3. NextFree(conv) = 0 /\ HasTools(conv, 0)  BY <1>2 DEF NextFree, HasTools
<1>4. BlocksOf(conv) = Blocks(0, 0, "tool")  BY <1>2, <1>3, NothingBegun
<1>5. b = Blocks(0, 0, "tool")  BY DEF Blocks, Index
<1>6. b \in [Index -> BlockKinds \cup {"unused", "closed"}]  BY DEF Index
<1> HIDE DEF b
<1>7. /\ ClientNow \in ClientType /\ ClientNow.phase = "before" /\ ClientNow.blocks = b /\ ClientNow.pieces = 0
  BY <1>1, <1>6, AtType DEF ClientNow
<1>8. Sends(ClientNow, out, ClientNow)  BY <1>1, <1>7, SendsNone
<1>10. up \in UpType /\ up.stage = "first" /\ up.sent = 0 /\ up.tools = 0 /\ ~up.cut /\ ~up.lost
  <2> DEFINE U == [stage : {"first"}, tools : {0}, sent : {0}, usage : Usages,
                   cut : {FALSE}, odd : {FALSE}, lost : {FALSE}]
  <2>1. up \in U  BY <1>1
  <2>2. U \subseteq UpType
    <3>1. {0} \subseteq 0 .. MaxTools /\ {0} \subseteq Nat  OBVIOUS
    <3>2. {"first"} \subseteq {"first", "words", "tools", "usage", "end"}  OBVIOUS
    <3>3. {FALSE} \subseteq BOOLEAN  BY Zenon
    <3> QED BY <3>1, <3>2, <3>3, Zenon DEF UpType
  <2>3. up.stage = "first" /\ up.sent = 0 /\ up.tools = 0  BY <2>1
  <2>4. up.cut = FALSE /\ up.lost = FALSE  BY <2>1, Zenon
  <2> QED BY <2>1, <2>2, <2>3, <2>4
<1>9. Agrees(ClientNow)  BY <1>1, <1>2, <1>4, <1>5, <1>7, <1>10 DEF Agrees, Owed, One
<1>11. ClaudeTypeOK
  <2>1. held \in Seq(ChunkType) /\ Len(held) <= 1  BY <1>1
  <2>2. [phase |-> phase, blocks |-> blocks, pieces |-> pieces] \in ClientType  BY <1>7 DEF ClientNow, At
  <2> QED BY <1>1, <1>2, <1>10, <2>1, <2>2 DEF ClaudeTypeOK
<1>12. Counted  BY <1>1, <1>2, <1>3, <1>10 DEF Counted
<1>13. out \in Seq(EventType)  BY <1>1
<1> QED BY <1>1, <1>7, <1>8, <1>9, <1>11, <1>12, <1>13 DEF ClaudeInv, Agreed

\* Steps that change nothing keep the invariant.
LEMMA ClaudeStutter ==
  ASSUME ClaudeInv, UNCHANGED vars
  PROVE  ClaudeInv'
<1>1. UNCHANGED <<up, held, count, conv, out, ended, pieces, phase, blocks>>  BY DEF vars, client
<1>2. ClaudeTypeOK' /\ out' \in Seq(EventType) /\ Counted'  BY <1>1 DEF ClaudeInv, ClaudeTypeOK, Counted
<1>3. ASSUME Followed'  PROVE  (~ended /\ held # <<>> => HeldBack(held[1]))' /\ Agreed'
  <2>1. Followed  BY <1>1, <1>3 DEF Followed
  <2>2. PICK s \in ClientType : Sends(ClientNow, out, s) /\ Agrees(s)  BY <2>1 DEF ClaudeInv, Agreed
  <2>3. Agrees(s)'  BY <1>1, <2>2 DEF Agrees, Owed, Finished
  <2>4. ClientNow' = ClientNow  BY <1>1 DEF ClientNow
  <2>5. Sends(ClientNow', out', s)  BY <1>1, <2>2, <2>4
  <2>6. (~ended /\ held # <<>> => HeldBack(held[1]))'  BY <1>1, <2>1 DEF ClaudeInv, HeldBack
  <2> QED BY <2>3, <2>5, <2>6 DEF Agreed
<1> QED BY <1>2, <1>3 DEF ClaudeInv

\* A chunk that comes sends the client nothing.
LEMMA ClientKept ==
  ASSUME NEW x, NEW u, Receive(x, u)
  PROVE  UNCHANGED client
BY DEF Receive, client

-----------------------------------------------------------------------------
(* ClaudeStream: the theorems                                              *)

\* The invariant: whatever the converter has produced for a stream it follows may be sent as it
\* stands, and brings the client to where ClaudeConvertInfo says it is, wherever the stream ends.
THEOREM ConverterAgrees == Spec => []ClaudeInv
<1>1. Init => ClaudeInv  BY ClaudeInitInv
<1>2. ClaudeInv /\ [Next]_vars => ClaudeInv'
  BY SendRoleInv, SendWordsInv, SendToolsInv, SendFinishInv, SendUsageInv, ReceiveRestInv, EmitInv,
     HandleFinalResponseInv, ClaudeStutter DEF Next
<1> QED BY <1>1, <1>2, PTL DEF Spec

\* Every variable keeps its type, and at most one chunk is held back (ClaudeTypeOK).
THEOREM ClaudeTypeCorrect == Spec => []ClaudeTypeOK
<1>1. ClaudeInv => ClaudeTypeOK  BY DEF ClaudeInv
<1> QED BY <1>1, ConverterAgrees, PTL

\* Of a stream that is followed, every event the client gets is one the Claude protocol allows
\* then (SpeaksClaude).
THEOREM ImplementsClaude == Spec => SpeaksClaude
<1>1. Init => Protocol!Init
  BY DEF Init, Protocol!Init, Protocol!Index, Ev
<1>2. ClaudeInv /\ [Next]_vars => [Followed => Protocol!Next]_client
  <2>1. CASE ~Emit
    <3>1. SendRole \/ SendWords \/ SendUsage => UNCHANGED client
      BY ClientKept DEF SendRole, SendWords, SendUsage
    <3>2. SendTools => UNCHANGED client  BY ClientKept DEF SendTools
    <3>3. SendFinish => UNCHANGED client  BY ClientKept DEF SendFinish
    <3>4. HandleFinalResponse => UNCHANGED client  BY DEF HandleFinalResponse, client
    <3>5. ReceiveRest => UNCHANGED client  BY DEF ReceiveRest, client
    <3>6. UNCHANGED vars => UNCHANGED client  BY DEF vars, client
    <3> QED BY <2>1, <3>1, <3>2, <3>3, <3>4, <3>5, <3>6 DEF Next
  <2>2. ASSUME ClaudeInv, Emit, Followed
        PROVE  Protocol!Next
    <3> DEFINE e == Head(out)
    <3>1. e \in EventType /\ Allowed(ClientNow, e) /\ last' = e  BY <2>2, Emitted, EmittedWell
    <3>2. ClientNow.phase = phase /\ ClientNow.blocks = blocks  BY DEF ClientNow, At
    <3>3. /\ phase' = CASE e.t = "message_start" -> "open"
                        [] e.t = "message_delta" -> "delta"
                        [] e.t = "message_stop" -> "stopped"
                        [] OTHER -> phase
          /\ blocks' = CASE e.t = "block_start" -> [blocks EXCEPT ![e.i] = e.k]
                         [] e.t = "block_stop" -> [blocks EXCEPT ![e.i] = "closed"]
                         [] OTHER -> blocks
      BY <2>2 DEF Emit
    <3> HIDE DEF e
    <3>4. CASE e.t = "message_start"
      BY <3>1, <3>2, <3>3, <3>4 DEF Allowed, Protocol!Next, Protocol!MessageStart
    <3>5. CASE e.t = "block_start"
      BY <3>1, <3>2, <3>3, <3>5 DEF Allowed, Protocol!Next, Protocol!BlockStart
    <3>6. CASE e.t = "delta"
      BY <3>1, <3>2, <3>3, <3>6 DEF Allowed, Protocol!Next, Protocol!Delta
    <3>7. CASE e.t = "block_stop"
      BY <3>1, <3>2, <3>3, <3>7 DEF Allowed, Protocol!Next, Protocol!BlockStop, Protocol!Types, BlockKinds, WordKinds
    <3>8. CASE e.t = "message_delta"
      BY <3>1, <3>2, <3>3, <3>8 DEF Allowed, AllShut, Index, Protocol!Next, Protocol!MessageDelta, Protocol!AllClosed, Protocol!Index
    <3>9. CASE e.t = "message_stop"
      BY <3>1, <3>2, <3>3, <3>9 DEF Allowed, Protocol!Next, Protocol!MessageStop
    <3>10. e.t \in {"message_start", "block_start", "delta", "block_stop", "message_delta", "message_stop"}
      BY <3>1 DEF EventType, Events
    <3> QED BY <3>4, <3>5, <3>6, <3>7, <3>8, <3>9, <3>10
  <2> QED BY <2>1, <2>2
<1> QED BY <1>1, <1>2, ConverterAgrees, PTL DEF Spec, SpeaksClaude

\* When a stream that is followed is over, the client sees the message as ended, with every block
\* closed, exactly if the finish reason and the usage came, and every piece that came was delivered
\* but text that came with a finish reason without usage (MessageComplete).
THEOREM CompleteAtTheEnd == Spec => []MessageComplete
<1>1. ClaudeInv => MessageComplete
  <2> SUFFICES ASSUME ClaudeInv, ended, out = <<>>, Followed
               PROVE  /\ phase = "stopped" <=> Finished
                      /\ Finished => Protocol!AllClosed
                      /\ pieces = IF up.lost THEN 1 ELSE 0
    BY DEF MessageComplete, Over
  <2>1. Agrees(ClientNow)  BY Settled
  <2>2. ClientNow.phase = phase /\ ClientNow.blocks = blocks /\ ClientNow.pieces = pieces  BY DEF ClientNow, At
  <2>3. held = <<>>  BY DEF ClaudeInv, Counted
  <2>4. Owed = IF up.lost THEN 1 ELSE 0  BY <2>3 DEF Owed, One
  <2> QED BY <2>1, <2>2, <2>4 DEF Agrees, AllShut, Index, Protocol!AllClosed, Protocol!Index
<1> QED BY <1>1, ConverterAgrees, PTL
=============================================================================
