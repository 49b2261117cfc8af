----------------------------- MODULE ExecStream ------------------------------
(***************************************************************************)
(* exec_stream_t: the standard streams of a child process.  A thread moves *)
(* bytes between the pipes and three buffers; the program's own thread     *)
(* ("main" below) puts into one buffer and gets from the other two.  The   *)
(* two talk through a mutex and two sets of bits to wait for, m_thread_    *)
(* control (main to thread) and m_thread_responce (thread to main).        *)
(*                                                                         *)
(* A step is the code between two points where the other thread can make a *)
(* difference: a wait, a select, a read or write, and each block under the *)
(* mutex.  In particular a wait returns a snapshot of the bits, and the    *)
(* block that acts upon it comes later.  The unit of data is the block of  *)
(* 4096 bytes that is read at once; a put is one unit.  Who main and the   *)
(* child are is left to the module that extends this one.                  *)
(***************************************************************************)
EXTENDS Integers, Sequences

CONSTANT PipeSize       \* bound: units a pipe holds

ASSUME PipeAssumption == PipeSize \in Nat \ {0}

VARIABLES
    limit,      \* set_buffer_limit: kind -> units, 0 for no limit
    pipe,       \* "in", "out", "err" -> units on their way
    parentEnds, \* the parent's ends of the pipes that are open
    childRuns,  \* the child, and with it its ends of the pipes
    control,    \* m_thread_control
    response,   \* m_thread_responce
    inBuffer,   \* m_in_buffer
    buffer,     \* m_out_buffer and m_err_buffer, by kind
    received,   \* history: kind -> units that main has got
    threadAt,   \* "none", "wait", "take", "select", "transfer", "stopping",
                \* "stopped" or "cancelled"
    seen,       \* thread: the bits its wait returned
    wants,      \* thread: the pipes it selects on, then those that are ready
    writing,    \* thread: write_buffer
    inEof,      \* thread: in_eof (in_closed follows it, once writing is empty)
    eof,        \* thread: out_eof and err_eof
    error,      \* m_error_code is set
    call,       \* main: the get or put in progress
    outcome     \* main: how the last one ended

parentVars == <<limit, parentEnds>>
threadVars == <<threadAt, seen, wants, writing, inEof, eof>>
mainVars == <<received, call, outcome>>
streamVars == <<parentVars, threadVars, mainVars, pipe, childRuns, control,
                response, inBuffer, buffer, error>>

Kinds == {"out", "err"}
Pipes == Kinds \cup {"in"}
EofBit(kind) == IF kind = "out" THEN "out_eof" ELSE "err_eof"
Bits == Pipes \cup {"in_eof", "out_eof", "err_eof", "child"}
NoCall == [op |-> "none", kind |-> "in", at |-> "wait", seen |-> {}]

\* Mutant: one unit more.
FullLate(kind, units) == limit[kind] # 0 /\ Len(units) > limit[kind]

\* buffer_list_t::full.
Full(kind, units) == limit[kind] # 0 /\ Len(units) >= limit[kind]

Running == threadAt \notin {"none", "stopped", "cancelled"}
InClosed == inEof /\ writing = <<>>

StreamInit ==
    /\ limit = [k \in Kinds |-> 0]
    /\ pipe = [p \in Pipes |-> <<>>]
    /\ parentEnds = {}
    /\ childRuns = FALSE
    /\ control = {} /\ response = {}
    /\ inBuffer = <<>>
    /\ buffer = [k \in Kinds |-> <<>>]
    /\ received = [k \in Kinds |-> <<>>]
    /\ threadAt = "none"
    /\ seen = {} /\ wants = {} /\ writing = <<>>
    /\ inEof = FALSE
    /\ eof = [k \in Kinds |-> FALSE]
    /\ error = FALSE
    /\ call = NoCall
    /\ outcome = "none"

------------------------------------------------------------------------------
\* exec_stream_t::start: pipes, the child, and thread_buffer_t::start.
Start ==
    /\ threadAt = "none"
    /\ parentEnds' = Pipes
    /\ childRuns' = TRUE
    /\ control' = Kinds
    /\ response' = {"in"}
    /\ threadAt' = "wait"
    /\ UNCHANGED <<pipe, inBuffer, buffer, received, seen, wants, writing, inEof, eof,
                   error, call, outcome>>

(* The thread: thread_func. *)

WaitFor ==
    {"child"} \cup (IF ~ inEof /\ writing = <<>> THEN {"in", "in_eof"} ELSE {})
              \cup {k \in Kinds : ~ eof[k]}

ThreadUnchanged == UNCHANGED <<parentVars, mainVars, childRuns>>

Wait ==
    /\ threadAt = "wait"
    /\ control \cap WaitFor # {}
    /\ seen' = control
    /\ threadAt' = "take"
    /\ UNCHANGED <<pipe, control, response, inBuffer, buffer, wants, writing, inEof,
                   eof, error>>
    /\ ThreadUnchanged

\* After 100 seconds the thread goes round its loop with no bit seen.
WaitTimesOut ==
    /\ threadAt = "wait"
    /\ control \cap WaitFor = {}
    /\ seen' = {}
    /\ threadAt' = "take"
    /\ UNCHANGED <<pipe, control, response, inBuffer, buffer, wants, writing, inEof,
                   eof, error>>
    /\ ThreadUnchanged

\* The loop ends when nothing is left to do.
AllDone == InClosed /\ \A k \in Kinds : eof[k]

\* Mutant: the thread stops when it is told to, whatever is left to write.
StopsAtOnce(units) == "child" \in seen

\* "see if they want us to stop, but only when there is nothing more to write"
StopsNow(units) == units = <<>> /\ "child" \in seen

\* Under the mutex the thread detaches one buffer of input, or learns that
\* there will be none; then it decides whether to stop and what to select on.
Take ==
    LET takes == writing = <<>> /\ seen \cap {"in", "in_eof"} # {}
        taken == IF takes /\ inBuffer # <<>> THEN <<Head(inBuffer)>> ELSE writing
        left == IF takes /\ inBuffer # <<>> THEN Tail(inBuffer) ELSE inBuffer
        wanted == (IF taken # <<>> THEN {"in"} ELSE {})
                    \cup {k \in Kinds : ~ eof[k] /\ k \in seen}
    IN  /\ threadAt = "take"
        /\ inEof' = (inEof \/ (takes /\ inBuffer = <<>> /\ "in_eof" \in seen))
        /\ inBuffer' = left
        /\ writing' = taken
        /\ control' = IF takes /\ left = <<>> THEN control \ {"in"} ELSE control
        /\ response' = IF takes THEN response \cup {"in"} ELSE response
        /\ wants' = wanted
        /\ threadAt' = IF StopsNow(taken) THEN "stopping"
                       ELSE IF wanted = {} THEN "transfer" ELSE "select"
        /\ UNCHANGED <<pipe, buffer, seen, eof, error>>
        /\ ThreadUnchanged

\* A pipe is ready when it has room or data, or its other end is closed.
Ready(p) ==
    \/ ~ childRuns
    \/ IF p = "in" THEN Len(pipe[p]) < PipeSize ELSE pipe[p] # <<>>

\* select returns the pipes that are ready, none after a tenth of a second.
Select ==
    /\ threadAt = "select"
    /\ wants' = {p \in wants : Ready(p)}
    /\ threadAt' = "transfer"
    /\ UNCHANGED <<pipe, control, response, inBuffer, buffer, seen, writing, inEof,
                   eof, error>>
    /\ ThreadUnchanged

\* A write to a child that has ended is an error, and the thread stops with
\* whatever the child has left in the other pipes.
Write ==
    /\ threadAt = "transfer" /\ "in" \in wants
    /\ wants' = wants \ {"in"}
    /\ IF childRuns
         THEN /\ pipe' = [pipe EXCEPT !["in"] = @ \o writing]
              /\ writing' = <<>>
              /\ UNCHANGED <<error, threadAt>>
         ELSE /\ error' = TRUE
              /\ threadAt' = "stopping"
              /\ UNCHANGED <<pipe, writing>>
    /\ UNCHANGED <<control, response, inBuffer, buffer, seen, inEof, eof>>
    /\ ThreadUnchanged

\* Mutant: the end of a stream is announced as data.
EofBitsPlain(kind) == {kind}

\* What is announced at the end of a stream.
EofBits(kind) == {kind, EofBit(kind)}

\* Data goes to the buffer, and a full buffer stops the reading; no data is
\* the end of the stream.  Either is announced before the mutex is released.
Read(kind) ==
    /\ threadAt = "transfer" /\ "in" \notin wants /\ kind \in wants
    /\ kind = "err" => "out" \notin wants
    /\ wants' = wants \ {kind}
    /\ IF pipe[kind] = <<>>
         THEN /\ eof' = [eof EXCEPT ![kind] = TRUE]
              /\ response' = response \cup EofBits(kind)
              /\ UNCHANGED <<pipe, buffer, control>>
         ELSE /\ pipe' = [pipe EXCEPT ![kind] = Tail(@)]
              /\ buffer' = [buffer EXCEPT ![kind] = Append(@, Head(pipe[kind]))]
              /\ control' = IF Full(kind, buffer'[kind]) THEN control \ {kind} ELSE control
              /\ response' = response \cup {kind}
              /\ UNCHANGED eof
    /\ UNCHANGED <<threadAt, seen, writing, inBuffer, inEof, error>>
    /\ ThreadUnchanged

\* The end of a turn of the loop.
EndTurn ==
    /\ threadAt = "transfer" /\ wants = {}
    /\ threadAt' = IF AllDone THEN "stopping" ELSE "wait"
    /\ UNCHANGED <<pipe, control, response, inBuffer, buffer, seen, wants, writing,
                   inEof, eof, error>>
    /\ ThreadUnchanged

\* The last thing the thread does is to tell that it has stopped.
Stop ==
    /\ threadAt = "stopping"
    /\ threadAt' = "stopped"
    /\ response' = response \cup {"child"}
    /\ writing' = <<>>
    /\ UNCHANGED <<pipe, control, inBuffer, buffer, seen, wants, inEof, eof, error>>
    /\ ThreadUnchanged

ThreadStep ==
    \/ Wait \/ Take \/ Select \/ Write \/ EndTurn \/ Stop
    \/ \E kind \in Kinds : Read(kind)

------------------------------------------------------------------------------
(* Main: thread_buffer_t::get, put, close_in and stop_thread. *)

MainUnchanged ==
    UNCHANGED <<parentVars, threadVars, pipe, childRuns, error>>

Begin(op, kind) ==
    /\ call = NoCall
    /\ call' = [op |-> op, kind |-> kind, at |-> "wait", seen |-> {}]
    /\ outcome' = "none"

Ended(how) == call' = NoCall /\ outcome' = how

CallWaitsFor ==
    IF call.op = "put" THEN {"in", "child"}
    ELSE {call.kind, EofBit(call.kind), "child"}

\* The wait of get and put returns what is set, which may be out of date
\* when the rest of the function runs.
CallWait ==
    /\ call.op # "none" /\ call.at = "wait"
    /\ response \cap CallWaitsFor # {}
    /\ call' = [call EXCEPT !.at = "act", !.seen = response]
    /\ UNCHANGED <<control, response, inBuffer, buffer, received, outcome>>
    /\ MainUnchanged

\* After 100 seconds get and put throw.
CallTimesOut ==
    /\ call.op # "none" /\ call.at = "wait"
    /\ response \cap CallWaitsFor = {}
    /\ Ended("error")
    /\ UNCHANGED <<control, response, inBuffer, buffer, received>>
    /\ MainUnchanged

Acts(op) == call.op = op /\ call.at = "act"

Delivers(kind) ==
    /\ buffer' = [buffer EXCEPT ![kind] = Tail(@)]
    /\ received' = [received EXCEPT ![kind] = Append(@, Head(buffer[kind]))]
    /\ Ended("data")

\* Mutant: the end is reported as soon as it is announced.
HasDataNoMore(kind) == buffer[kind] # <<>> /\ EofBit(kind) \notin call.seen

\* "we have data - deliver it first"
HasData(kind) == buffer[kind] # <<>>

\* get once the thread has stopped: what is left is delivered, then an error
\* is reported, then the end of the stream.
GetAfterStop ==
    /\ Acts("get") /\ "child" \in call.seen
    /\ IF HasData(call.kind) THEN Delivers(call.kind)
       ELSE Ended(IF error THEN "error" ELSE "eof") /\ UNCHANGED <<buffer, received>>
    /\ UNCHANGED <<control, response, inBuffer>>
    /\ MainUnchanged

\* Mutant: the bit is reset after every delivery.
IsDrainedAlways(units) == TRUE

\* Mutant: the bit is never reset.
IsDrainedNever(units) == FALSE

\* "if no data left - make the next get() wait until it arrives"
IsDrained(units) == units = <<>>

\* Mutant: the thread is not told that there is room again.
HasRoomNever(kind, units) == FALSE

\* "if buffer is not too long tell the thread we want more data"
HasRoom(kind, units) == ~ Full(kind, units)

\* get while the thread runs, under the mutex: an empty buffer resets the bit
\* to wait for, a buffer that is not full asks the thread for more.
Get ==
    LET kind == call.kind
    IN  /\ Acts("get") /\ "child" \notin call.seen
        /\ IF HasData(kind) THEN Delivers(kind)
           ELSE Ended(IF EofBit(kind) \in call.seen THEN "eof" ELSE "nothing")
                /\ UNCHANGED <<buffer, received>>
        /\ response' = IF IsDrained(buffer'[kind]) THEN response \ {kind} ELSE response
        /\ control' = IF HasRoom(kind, buffer'[kind]) THEN control \cup {kind} ELSE control
        /\ UNCHANGED inBuffer
        /\ MainUnchanged

\* put: refused once the thread has stopped, else under the mutex.  There is
\* no limit on the input buffer.
Put(unit) ==
    /\ Acts("put")
    /\ IF "child" \in call.seen
         THEN Ended(IF error THEN "error" ELSE "eof") /\ UNCHANGED <<inBuffer, control>>
         ELSE /\ inBuffer' = Append(inBuffer, unit)
              /\ control' = control \cup {"in"}
              /\ Ended("sent")
    /\ UNCHANGED <<response, buffer, received>>
    /\ MainUnchanged

\* close tells the thread that no more input comes ...
CloseIn ==
    /\ control' = control \cup {"in_eof"}
    /\ UNCHANGED <<response, inBuffer, buffer, mainVars>>
    /\ MainUnchanged

\* Mutant: the thread is not told to stop.
StopThreadUntold == UNCHANGED <<control, response, inBuffer, buffer, mainVars>> /\ MainUnchanged

\* ... then to stop ...
StopThread ==
    /\ control' = control \cup {"child"}
    /\ UNCHANGED <<response, inBuffer, buffer, mainVars>>
    /\ MainUnchanged

\* ... and joins it, or cancels it if a second goes by, and closes the pipes.
Join ==
    /\ "child" \in response \/ threadAt = "none"
    /\ parentEnds' = {}
    /\ UNCHANGED <<limit, threadVars, mainVars, pipe, childRuns, control, response,
                   inBuffer, buffer, error>>

AbortThread ==
    /\ Running /\ "child" \notin response
    /\ threadAt' = "cancelled"
    /\ parentEnds' = {}
    /\ UNCHANGED <<limit, seen, wants, writing, inEof, eof, mainVars, pipe, childRuns,
                   control, response, inBuffer, buffer, error>>
==============================================================================
