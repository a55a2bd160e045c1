--------------------------- MODULE GatewayShutdown ---------------------------
(***************************************************************************)
(* The life of one process, from serve.go: main builds the batch writer,    *)
(* serves HTTP, and unwinds its deferred calls when ListenAndServe returns; *)
(* a goroutine waits for SIGTERM and calls srv.Shutdown with a 30 second    *)
(* limit; each request handler forwards its response and then records one   *)
(* event with the writer of module BatchWriter (proxy.recordUsage).         *)
(*                                                                          *)
(* The deferred calls run in the reverse order of their registration: the   *)
(* three management pollers, the health reporter, the writer, the database. *)
(* Of the pollers the usage queue's is here: its Stop waits for run to      *)
(* return, and run may wait for an answer of the RESP server, for which the *)
(* code sets no deadline.  The other two wait for HTTP requests only, which *)
(* have a timeout (module QuotaPoller shows that its Stop returns).         *)
(*                                                                          *)
(* Operators named Bug... are what the definition below each of them would  *)
(* be after a plausible slip; the properties are tested against them.       *)
(***************************************************************************)
EXTENDS BatchWriter

VARIABLES
  main,       \* where the goroutine of runServe stands
  listening,  \* the listener accepts connections
  poller,     \* where run of the usage queue's poller stands
  shutdown,   \* where the signal goroutine stands
  timedOut,   \* history: Shutdown gave up on active connections
  handler,    \* where the handler of each request stands
  dbOpen      \* the SQLite handles are open

gatewayVars == <<main, listening, poller, shutdown, timedOut, handler, dbOpen>>
allVars == <<vars, gatewayVars>>

Active == {e \in Events : handler[e] \in {"forwarding", "recording"}}

GatewayInit ==
  /\ Init
  /\ main = "setup"
  /\ listening = FALSE
  /\ poller = "off"
  /\ shutdown = "off"
  /\ timedOut = FALSE
  /\ handler = [e \in Events |-> "none"]
  /\ dbOpen = TRUE
-----------------------------------------------------------------------------
(* The goroutine of runServe *)

StartWriter ==
  /\ main = "setup"
  /\ Start
  /\ main' = "wire"
  /\ UNCHANGED <<listening, poller, shutdown, timedOut, handler, dbOpen>>

\* A later step of the setup fails: runServe returns the error and the deferred
\* calls run all the same.
SetupFails ==
  /\ main = "wire"
  /\ main' = "stopPoller"
  /\ UNCHANGED <<vars, listening, poller, shutdown, timedOut, handler, dbOpen>>

\* usage_queue.enabled
StartPoller ==
  /\ main = "wire" /\ poller = "off"
  /\ poller' = "turn"
  /\ UNCHANGED <<vars, main, listening, shutdown, timedOut, handler, dbOpen>>

StartSignalGoroutine ==
  /\ main = "wire"
  /\ main' = "listen"
  /\ shutdown' = "waiting"
  /\ UNCHANGED <<vars, listening, poller, timedOut, handler, dbOpen>>

Listen ==
  /\ main = "listen"
  /\ main' = "serve"
  /\ listening' = (shutdown = "waiting")
  /\ UNCHANGED <<vars, poller, shutdown, timedOut, handler, dbOpen>>

\* The address cannot be bound.
ListenFails ==
  /\ main = "listen"
  /\ main' = "stopPoller"
  /\ UNCHANGED <<vars, listening, poller, shutdown, timedOut, handler, dbOpen>>

\* ListenAndServe returns ErrServerClosed as soon as Shutdown has begun; it
\* does not wait for Shutdown to return.
ServeReturns ==
  /\ main = "serve"
  /\ shutdown # "waiting"
  /\ main' = "stopPoller"
  /\ UNCHANGED <<vars, listening, poller, shutdown, timedOut, handler, dbOpen>>

\* defer usageQueuePoller.Stop(), when it was started: close stopCh and wait.
StopPoller ==
  /\ \/ main = "stopPoller" /\ main' = IF poller = "off" THEN "stopHealth" ELSE "waitPoller"
     \/ main = "waitPoller" /\ poller = "returned" /\ main' = "stopHealth"
  /\ UNCHANGED <<vars, listening, poller, shutdown, timedOut, handler, dbOpen>>

\* defer close(stopHealth)
StopHealth ==
  /\ main = "stopHealth"
  /\ main' = "stopWriter"
  /\ UNCHANGED <<vars, listening, poller, shutdown, timedOut, handler, dbOpen>>

\* Stop without wg.Wait.
BugStopDoesNotWait ==
  /\ main = "stopWriter"
  /\ StopMark \/ StopClose
  /\ main' = IF stopper' = "wait" THEN "closeDB" ELSE main
  /\ UNCHANGED <<listening, poller, shutdown, timedOut, handler, dbOpen>>

\* defer batchWriter.Stop()
StopWriter ==
  /\ main = "stopWriter"
  /\ StopMark \/ StopClose \/ StopReturn
  /\ main' = IF stopper' = "returned" THEN "closeDB" ELSE main
  /\ UNCHANGED <<listening, poller, shutdown, timedOut, handler, dbOpen>>

\* defer database.Close()
CloseDB ==
  /\ main = "closeDB"
  /\ dbOpen' = FALSE
  /\ main' = "exit"
  /\ UNCHANGED <<vars, listening, poller, shutdown, timedOut, handler>>

\* runServe returns and the process ends with every other goroutine.
Exit ==
  /\ main = "exit"
  /\ main' = "gone"
  /\ listening' = FALSE
  /\ UNCHANGED <<vars, poller, shutdown, timedOut, handler, dbOpen>>

Main == StartWriter \/ SetupFails \/ StartPoller \/ StartSignalGoroutine \/ Listen \/ ListenFails
          \/ ServeReturns \/ StopPoller \/ StopHealth \/ StopWriter \/ CloseDB \/ Exit
-----------------------------------------------------------------------------
(* The signal goroutine; the process must still be there. *)

Alive == main # "gone"

Signal ==
  /\ Alive
  /\ shutdown = "waiting"
  /\ shutdown' = "draining"
  /\ listening' = FALSE
  /\ UNCHANGED <<vars, main, poller, timedOut, handler, dbOpen>>

ShutdownReturns ==
  /\ Alive
  /\ shutdown = "draining"
  /\ Active = {}
  /\ shutdown' = "returned"
  /\ UNCHANGED <<vars, main, listening, poller, timedOut, handler, dbOpen>>

\* The 30 second context ends; srv.Close drops the active connections.
ShutdownTimesOut ==
  /\ Alive
  /\ shutdown = "draining"
  /\ Active # {}
  /\ shutdown' = "returned"
  /\ timedOut' = TRUE
  /\ UNCHANGED <<vars, main, listening, poller, handler, dbOpen>>
-----------------------------------------------------------------------------
(* Poller.run of internal/usagequeue, as far as its stopping goes.  At "turn" *)
(* the loops look at stopCh; "busy" is a request to the HTTP queue, a dial or *)
(* a pause, all of which end; "asking" is readRESP, for AUTH or a pop.        *)

Stopping == main = "waitPoller"

Turn ==
  /\ Alive /\ poller = "turn"
  /\ poller' \in IF Stopping THEN {"returned"} ELSE {"busy", "asking"}
  /\ UNCHANGED <<vars, main, listening, shutdown, timedOut, handler, dbOpen>>

\* In auto mode a failed HTTP request leads to the RESP server at once.
Done ==
  /\ Alive /\ poller = "busy"
  /\ poller' \in {"turn", "asking"}
  /\ UNCHANGED <<vars, main, listening, shutdown, timedOut, handler, dbOpen>>

Answered ==
  /\ Alive /\ poller = "asking"
  /\ poller' = "turn"
  /\ UNCHANGED <<vars, main, listening, shutdown, timedOut, handler, dbOpen>>
-----------------------------------------------------------------------------
(* Request handlers *)

BeginRequest(e) ==
  /\ Alive /\ listening
  /\ handler[e] = "none"
  /\ handler' = [handler EXCEPT ![e] = "forwarding"]
  /\ UNCHANGED <<vars, main, listening, poller, shutdown, timedOut, dbOpen>>

\* The upstream response has been relayed, or the client or upstream failed.
ForwardingEnds(e) ==
  /\ Alive
  /\ handler[e] = "forwarding"
  /\ handler' = [handler EXCEPT ![e] = "recording"]
  /\ UNCHANGED <<vars, main, listening, poller, shutdown, timedOut, dbOpen>>

Record(e) ==
  /\ Alive
  /\ handler[e] = "recording"
  /\ Enqueue(e)
  /\ handler' = IF caller'[e] \in {"accepted", "rejected"}
                  THEN [handler EXCEPT ![e] = "finished"] ELSE handler
  /\ UNCHANGED <<main, listening, poller, shutdown, timedOut, dbOpen>>

\* The writer goroutine, with a database that answers only while it is open.
WriterLoop ==
  /\ Alive
  /\ Loop
  /\ rows' # rows => dbOpen
  /\ UNCHANGED gatewayVars

GatewayNext ==
  \/ Main
  \/ Signal \/ ShutdownReturns \/ ShutdownTimesOut
  \/ \E e \in Events : BeginRequest(e) \/ ForwardingEnds(e) \/ Record(e)
  \/ Turn \/ Done \/ Answered
  \/ WriterLoop

\* main, the writer goroutine and the poller keep running; a signal need not
\* come, a handler may stay in a stream for ever, and a RESP server may never
\* answer.
GatewayFairness == WF_allVars(Main) /\ WF_allVars(WriterLoop) /\ WF_allVars(Turn) /\ WF_allVars(Done)

GatewaySpec == GatewayInit /\ [][GatewayNext]_allVars /\ GatewayFairness
-----------------------------------------------------------------------------
(* Properties *)

\* Once main has gone past the writer's Stop, what the channel held when the
\* stop began is in the database or was given up after a retry, and no batch
\* is on its way.
ExitOwesNothing ==
  main \in {"closeDB", "exit", "gone"} =>
    /\ owed \subseteq Range(rows) \cup lost
    /\ batch = <<>>

\* After a signal the process ends, even with handlers stuck in streams, a
\* database that refuses every batch, or an address that was never bound: unless
\* the usage queue's RESP server keeps the poller waiting for ever, for then
\* its Stop, and with it runServe, never returns.
ShutdownCompletes ==
  <>[](poller = "asking") \/ (shutdown \in {"draining", "returned"} ~> main = "gone")

\* "Graceful shutdown": unless the 30 seconds ran out, the process does not
\* end before the requests it was serving have finished and been recorded.
GracefulShutdown == main = "gone" /\ ~timedOut => Active = {}
=============================================================================
