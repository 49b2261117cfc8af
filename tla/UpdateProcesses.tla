--------------------------- MODULE UpdateProcesses ---------------------------
(***************************************************************************)
(* The two uses updateDump makes of exec_stream_t.                         *)
(*   "dumpBackup": the XML of the wiki is read from the child's standard   *)
(*      output, whose buffer is limited, and after each read what it wrote *)
(*      to its standard error is passed on.                                *)
(*   "fetchText": for each text, main writes its id and reads the answer,  *)
(*      a header (the id and the length) and then the text.                *)
(* The children are PHP scripts of MediaWiki, outside the repository: they *)
(* may write, read and end at any time.                                    *)
(***************************************************************************)
EXTENDS ExecStream

CONSTANTS
    OutLimit,       \* set_buffer_limit of dumpBackup's output, in units
    MaxOut,         \* bound: units of output of dumpBackup
    MaxErr,         \* bound: units a child writes to its standard error
    Requests        \* bound: texts asked for

ASSUME ProcessAssumption ==
    /\ OutLimit \in Nat /\ MaxOut \in Nat /\ MaxErr \in Nat /\ Requests \in Nat

VARIABLES
    client,         \* which of the two
    at,             \* main: "new", "reading", "forwarding", "ready",
                    \* "answer", "closing", "stopping", "joining" or "done"
    sawEof,         \* main: the output stream is at its end (eofbit)
    asked,          \* main: texts asked for
    texts,          \* what GetText returned: "whole", "cut" or "garbage"
    written,        \* child: kind -> units written
    consumed,       \* child: units read from its standard input
    crashed         \* child: it ended before it had done its work

clientVars == <<at, sawEof, asked, texts>>
childVars == <<written, consumed, crashed>>
vars == <<streamVars, client, clientVars, childVars>>

Units(n) == [i \in 1 .. n |-> i]

Init ==
    /\ StreamInit
    /\ client \in {"dumpBackup", "fetchText"}
    /\ at = "new"
    /\ sawEof = FALSE
    /\ asked = 0
    /\ texts = <<>>
    /\ written = [k \in Kinds |-> 0]
    /\ consumed = 0
    /\ crashed = FALSE

Quiet == call = NoCall /\ outcome = "none"
ClientUnchanged == UNCHANGED <<client, childVars>>

------------------------------------------------------------------------------
\* updateDump sets the limit and starts the process.
Launch ==
    /\ at = "new"
    /\ limit' = [limit EXCEPT !["out"] = IF client = "dumpBackup" THEN OutLimit ELSE 0]
    /\ Start
    /\ at' = IF client = "dumpBackup" THEN "reading" ELSE "ready"
    /\ UNCHANGED <<sawEof, asked, texts>> /\ ClientUnchanged

\* The child could not be started: start throws, and there is no thread.
LaunchFails ==
    /\ at = "new"
    /\ at' = "closing"
    /\ UNCHANGED <<streamVars, sawEof, asked, texts>> /\ ClientUnchanged

StartGet(kind) ==
    /\ Begin("get", kind)
    /\ UNCHANGED <<parentVars, threadVars, pipe, childRuns, control, response,
                   inBuffer, buffer, received, error>>

StartPut ==
    /\ Begin("put", "in")
    /\ UNCHANGED <<parentVars, threadVars, pipe, childRuns, control, response,
                   inBuffer, buffer, received, error>>

\* Main looks at how its last call ended; underflow takes a get without any
\* bytes ("nothing") for the end of the stream.
Handle(hows) ==
    /\ call = NoCall /\ outcome \in hows
    /\ outcome' = "none"
    /\ UNCHANGED <<parentVars, threadVars, pipe, childRuns, control, response,
                   inBuffer, buffer, received, error, call>>

(* dumpBackup *)

\* WrapperInputStream::read gets until it has enough.
ReadOut ==
    /\ at = "reading" /\ Quiet
    /\ StartGet("out")
    /\ UNCHANGED clientVars /\ ClientUnchanged

\* What it gets may be enough, or only a part of what it was asked for.
ReadGot ==
    /\ at = "reading"
    /\ Handle({"data"})
    /\ at' \in {"reading", "forwarding"}
    /\ UNCHANGED <<sawEof, asked, texts>> /\ ClientUnchanged

ReadEnds ==
    /\ at = "reading"
    /\ Handle({"eof", "nothing"})
    /\ sawEof' = TRUE
    /\ at' = "forwarding"
    /\ UNCHANGED <<asked, texts>> /\ ClientUnchanged

\* The progress function asks readsome how much there is, which reads the
\* size of the buffer without the mutex: it may see a size that is out of
\* date.  Whatever is there is read and passed on.
ForwardSome ==
    /\ at = "forwarding" /\ Quiet
    /\ buffer["err"] # <<>>
    /\ StartGet("err")
    /\ UNCHANGED clientVars /\ ClientUnchanged

ForwardGot ==
    /\ at = "forwarding"
    /\ Handle({"data"})
    /\ UNCHANGED clientVars /\ ClientUnchanged

ForwardNone ==
    /\ at = "forwarding" /\ Quiet
    /\ at' = IF sawEof THEN "closing" ELSE "reading"
    /\ UNCHANGED <<streamVars, sawEof, asked, texts>> /\ ClientUnchanged

(* fetchText: FetchText::GetText *)

Ask ==
    /\ at = "ready" /\ Quiet
    /\ asked < Requests
    /\ StartPut
    /\ asked' = asked + 1
    /\ UNCHANGED <<at, sawEof, texts>> /\ ClientUnchanged

Asked ==
    /\ at = "ready"
    /\ Handle({"sent"})
    /\ at' = "answer"
    /\ UNCHANGED <<sawEof, asked, texts>> /\ ClientUnchanged

\* The answer to the i-th request is units 2i - 1 and 2i of the output.
HasHeader == Len(received["out"]) >= 2 * asked - 1
HasText == Len(received["out"]) >= 2 * asked

AnswerRead ==
    /\ at = "answer" /\ Quiet
    /\ ~ sawEof /\ ~ HasText
    /\ StartGet("out")
    /\ UNCHANGED clientVars /\ ClientUnchanged

AnswerGot ==
    /\ at = "answer"
    /\ Handle({"data"})
    /\ UNCHANGED clientVars /\ ClientUnchanged

AnswerEnds ==
    /\ at = "answer"
    /\ Handle({"eof", "nothing"})
    /\ sawEof' = TRUE
    /\ UNCHANGED <<at, asked, texts>> /\ ClientUnchanged

Returns(text) == texts' = Append(texts, text) /\ at' = "ready"

\* GetText returns.  At the end of the stream a text whose header was read is
\* whatever arrived of it and zeros; if the header is missing too, the id and
\* the length are read from uninitialized variables.
AnswerReturn ==
    /\ at = "answer" /\ Quiet
    /\ \/ HasText /\ Returns("whole")
       \/ sawEof /\ ~ HasText /\ HasHeader /\ Returns("cut")
       \/ sawEof /\ ~ HasHeader /\ Returns("garbage")
    /\ UNCHANGED <<streamVars, sawEof, asked>> /\ ClientUnchanged

\* The id that was read, or not read at all, is not the one asked for.
AnswerMismatch ==
    /\ at = "answer" /\ Quiet
    /\ sawEof /\ ~ HasHeader
    /\ at' = "closing"
    /\ UNCHANGED <<streamVars, sawEof, asked, texts>> /\ ClientUnchanged

(* Both *)

\* Any stream that fails throws, since badbit is among its exceptions.
Throw ==
    /\ at \in {"reading", "forwarding", "ready", "answer"}
    /\ Handle(IF at = "ready" THEN {"error", "eof"} ELSE {"error"})
    /\ at' = "closing"
    /\ UNCHANGED <<sawEof, asked, texts>> /\ ClientUnchanged

\* Nothing more to ask, or an exception from elsewhere in the program.
Leave ==
    /\ at \in {"reading", "ready"} /\ Quiet
    /\ at' = "closing"
    /\ UNCHANGED <<streamVars, sawEof, asked, texts>> /\ ClientUnchanged

CloseInput ==
    /\ at = "closing"
    /\ CloseIn
    /\ at' = "stopping"
    /\ UNCHANGED <<sawEof, asked, texts>> /\ ClientUnchanged

CloseStop ==
    /\ at = "stopping"
    /\ StopThread
    /\ at' = "joining"
    /\ UNCHANGED <<sawEof, asked, texts>> /\ ClientUnchanged

CloseJoin ==
    /\ at = "joining"
    /\ Join
    /\ at' = "done"
    /\ UNCHANGED <<sawEof, asked, texts>> /\ ClientUnchanged

CloseAborts ==
    /\ at = "joining"
    /\ AbortThread
    /\ at' = "done"
    /\ UNCHANGED <<sawEof, asked, texts>> /\ ClientUnchanged

InCall == CallWait \/ GetAfterStop \/ Get \/ Put(asked)

MainStep ==
    \/ Launch
    \/ ReadOut \/ ReadGot \/ ReadEnds \/ ForwardSome \/ ForwardGot \/ ForwardNone
    \/ Ask \/ Asked \/ AnswerRead \/ AnswerGot \/ AnswerEnds \/ AnswerReturn
    \/ AnswerMismatch
    \/ Throw \/ (at = "ready" /\ asked = Requests /\ Leave)
    \/ CloseInput \/ CloseStop \/ CloseJoin
    \/ InCall /\ UNCHANGED <<client, clientVars, childVars>>

------------------------------------------------------------------------------
ChildUnchanged ==
    UNCHANGED <<parentVars, threadVars, mainVars, control, response, inBuffer, buffer,
                error, client, clientVars>>

\* What a child writes to a pipe that is closed at the other end kills it.
ChildWrites(kind) ==
    /\ IF kind \in parentEnds
         THEN /\ Len(pipe[kind]) < PipeSize
              /\ written' = [written EXCEPT ![kind] = @ + 1]
              /\ pipe' = [pipe EXCEPT ![kind] = Append(@, written[kind] + 1)]
              /\ UNCHANGED <<childRuns, crashed>>
         ELSE /\ childRuns' = FALSE
              /\ crashed' = TRUE
              /\ UNCHANGED <<pipe, written>>
    /\ UNCHANGED consumed
    /\ ChildUnchanged

OutWanted == IF client = "dumpBackup" THEN MaxOut ELSE 2 * consumed

ChildWritesOut == childRuns /\ written["out"] < OutWanted /\ ChildWrites("out")
ChildWritesErr == childRuns /\ written["err"] < MaxErr /\ ChildWrites("err")

\* fetchText answers one request before it reads the next.
ChildReads ==
    /\ childRuns /\ client = "fetchText"
    /\ written["out"] = OutWanted
    /\ pipe["in"] # <<>>
    /\ pipe' = [pipe EXCEPT !["in"] = Tail(@)]
    /\ consumed' = consumed + 1
    /\ UNCHANGED <<written, childRuns, crashed>>
    /\ ChildUnchanged

\* The child ends when its work is done: dumpBackup after its last output,
\* fetchText at the end of its input.
ChildEnds ==
    /\ childRuns
    /\ written["out"] = OutWanted
    /\ client = "fetchText" =>
        pipe["in"] = <<>> /\ (InClosed \/ "in" \notin parentEnds)
    /\ childRuns' = FALSE
    /\ UNCHANGED <<pipe, written, consumed, crashed>>
    /\ ChildUnchanged

ChildCrashes ==
    /\ childRuns
    /\ childRuns' = FALSE
    /\ crashed' = TRUE
    /\ UNCHANGED <<pipe, written, consumed>>
    /\ ChildUnchanged

ChildStep == ChildWritesOut \/ ChildReads \/ ChildEnds

ThreadSteps == ThreadStep /\ UNCHANGED <<client, clientVars, childVars>>

Next ==
    \/ MainStep
    \/ LaunchFails
    \/ Leave
    \/ CloseAborts
    \/ ThreadSteps
    \/ (WaitTimesOut \/ CallTimesOut) /\ UNCHANGED <<client, clientVars, childVars>>
    \/ ChildStep \/ ChildWritesErr \/ ChildCrashes

\* Both threads and the child run on; no timeout of 100 or of 1 second and no
\* crash is relied upon, only the tenth of a second of the select.
Spec == Init /\ [][Next]_vars /\ WF_vars(MainStep) /\ WF_vars(ThreadSteps)
             /\ WF_vars(ChildStep)

------------------------------------------------------------------------------
TypeOK ==
    /\ pipe \in [Pipes -> Seq(Nat)] /\ \A p \in Pipes : Len(pipe[p]) <= PipeSize
    /\ control \subseteq Bits /\ response \subseteq Bits
    /\ seen \subseteq Bits /\ wants \subseteq Pipes
    /\ Len(writing) <= 1
    /\ threadAt \in {"none", "wait", "take", "select", "transfer", "stopping",
                     "stopped", "cancelled"}
    /\ \A k \in Kinds : limit[k] # 0 => Len(buffer[k]) <= limit[k]
    /\ outcome \in {"none", "data", "sent", "eof", "error", "nothing"}
    /\ Len(texts) <= asked /\ asked <= Requests

\* Nothing a child writes is lost, repeated or put out of order on its way
\* through the pipe and the buffer, whoever runs when, even where the last of
\* the buffer is read without the mutex; and the end of the stream is what
\* main sees only when it has all of it.
OutputArrives ==
    /\ \A k \in Kinds : received[k] \o buffer[k] \o pipe[k] = Units(written[k])
    /\ sawEof => received["out"] = Units(written["out"]) /\ ~ childRuns

\* What main wrote reaches the pipe in order, and if the thread was neither
\* cancelled nor stopped by an error, all of it has when close returns
\* (reference.html: close "Writes (with timeout) all pending data").
InputArrives ==
    LET sent == [i \in 1 .. consumed |-> i] \o pipe["in"] \o writing \o inBuffer
    IN  /\ threadAt \in {"none", "wait", "take", "select", "transfer"} =>
            \E n \in 0 .. asked : sent = Units(n)
        /\ threadAt = "stopped" /\ ~ error => inBuffer = <<>>

\* The bits say what the buffers hold, except inside the blocks that change
\* both: data that main has not got keeps its bit set, a set bit promises
\* data, the end or that the thread has stopped, and the thread is asked for
\* more exactly when there is room.  A wait that goes by the bits can
\* therefore not sleep through work.
BitsFollowBuffers ==
    /\ \A k \in Kinds :
        /\ buffer[k] # <<>> => k \in response
        /\ k \in response /\ buffer[k] = <<>> => EofBit(k) \in response \/ "child" \in response
        /\ Running => (k \in control <=> ~ Full(k, buffer[k]))
    /\ Running /\ inBuffer # <<>> => "in" \in control

\* underflow has no way to say "not yet": a get that returned no bytes and
\* not the end would cut the stream short.
NeverEmptyHanded == outcome # "nothing"

\* A text that GetText returns is the one asked for, unless the script
\* crashed.
TextsWholeUnlessCrash == (\E i \in DOMAIN texts : texts[i] # "whole") => crashed

\* A call that waits for the other thread comes back without the help of its
\* timeout: no announcement is lost between the wait and the block after it.
CallsComeBack == call.op # "none" ~> call.op = "none"

\* The program comes to its end, whatever the children do.
Finishes == <>(at = "done")
==============================================================================
